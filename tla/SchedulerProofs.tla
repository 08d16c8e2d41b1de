--------------------------- MODULE SchedulerProofs ---------------------------
(***************************************************************************)
(* What is proved of the scheduler's triggers, for every configuration,    *)
(* clock and set of readings: type correctness, hysteresis, and that a     *)
(* startup trigger fires once.                                             *)
(***************************************************************************)
EXTENDS Scheduler, TLAPS

\* The least of two numbers is one of them.
LEMMA MinOfTwo ==
  ASSUME NEW a \in Nat, NEW b \in Nat
  PROVE  Min({a, b}) \in 0..b
<1>1. \E m \in {a, b} : \A y \in {a, b} : m <= y
  OBVIOUS
<1> QED
  BY <1>1 DEF Min

\* Time passing keeps the clock and the ages in range.
LEMMA AdvanceType ==
  ASSUME TypeOK, NEW d \in Nat
  PROVE  /\ (clock + d) % Wrap \in 0 .. Wrap - 1
         /\ Aged(d) \in [DOMAIN triggers -> 0..Wrap]
<1>1. Wrap \in Nat \ {0}
  BY SchedulerAssumption
<1>2. (clock + d) % Wrap \in 0 .. Wrap - 1
  BY <1>1 DEF TypeOK
<1>3. \A t \in DOMAIN age : Min({age[t] + d, Wrap}) \in 0..Wrap
  <2> TAKE t \in DOMAIN age
  <2>1. age[t] + d \in Nat
    BY <1>1 DEF TypeOK
  <2> QED
    BY <1>1, <2>1, MinOfTwo
<1>4. 0 \in 0..Wrap
  BY <1>1
<1> QED
  BY <1>2, <1>3, <1>4 DEF TypeOK, Aged

\* Every configuration is made of sequences.
LEMMA ConfType ==
  ASSUME TypeOK
  PROVE  /\ triggers \in Seq(Trigger) /\ pipelines \in Seq(Pipeline)
         /\ Len(pipelines) \in Nat /\ DOMAIN pipelines = 1 .. Len(pipelines)
BY SchedulerAssumption DEF TypeOK, triggers, pipelines

\* The trigger a pipeline is on is one of the table.
LEMMA EvaluatingType ==
  ASSUME TypeOK, NEW t, Evaluating(t)
  PROVE  i + 1 \in 1 .. Len(pipelines) + 1 /\ i <= Len(pipelines)
<1>1. i \in 1 .. Len(pipelines) /\ Len(pipelines) \in Nat
  BY ConfType DEF Evaluating
<1> QED
  BY <1>1

LEMMA TypeInit == Init => TypeOK
<1> SUFFICES ASSUME Init PROVE TypeOK
  OBVIOUS
<1>1. pipelines = <<>> /\ triggers = <<>> /\ DOMAIN triggers = {}
  BY DEF Init, pipelines, triggers
<1>2. Len(pipelines) = 0
  BY <1>1
<1>3. \A X : <<>> \in [DOMAIN triggers -> X]
  BY <1>1
<1>4. i \in 1 .. Len(pipelines) + 1 /\ at # "run"
  BY <1>2 DEF Init
<1> QED
  BY <1>3, <1>4 DEF Init, TypeOK

LEMMA TypeBegin ==
  ASSUME TypeOK, NEW c \in Configs, Begin(c)
  PROVE  TypeOK'
<1>1. triggers' = c.triggers /\ pipelines' = c.pipelines
  BY DEF Begin, Configured, triggers, pipelines
<1>2. Len(pipelines') \in Nat
  BY <1>1, SchedulerAssumption
<1>3. 1 \in (1 .. Len(pipelines) + 1)'
  BY <1>2
<1>4. Wrap \in Nat \ {0}
  BY SchedulerAssumption
<1>5. /\ last' \in [DOMAIN triggers' -> 0 .. Wrap - 1]
      /\ age' \in [DOMAIN triggers' -> 0 .. Wrap]
  BY <1>1, <1>4 DEF Begin, Configured
<1>6. /\ active' \in [DOMAIN triggers' -> BOOLEAN]
      /\ armed' \in [DOMAIN triggers' -> BOOLEAN]
      /\ fired' \in [DOMAIN triggers' -> BOOLEAN]
      /\ seen' \in [DOMAIN triggers' -> {"none", "dip", "clear"}]
  BY <1>1 DEF Begin, Configured
<1> QED
  BY <1>3, <1>5, <1>6 DEF Begin, Configured, TypeOK

\* What a step of the task leaves to be shown when it configures nothing.
LEMMA LoopHeadType ==
  ASSUME TypeOK, LoopHead
  PROVE  at' \in {"off", "pass"} /\ i' \in 1 .. Len(pipelines) + 1
BY ConfType DEF LoopHead, TypeOK

LEMMA TypeArm == TypeOK /\ Arm => TypeOK'
<1> SUFFICES ASSUME TypeOK, Arm PROVE TypeOK'
  OBVIOUS
<1>1. triggers' = triggers /\ pipelines' = pipelines
  BY DEF Arm, triggers, pipelines
<1>2. armed' \in [DOMAIN triggers -> BOOLEAN]
  BY DEF Arm, TypeOK
<1>3. at' \in {"off", "pass"} /\ i' \in 1 .. Len(pipelines) + 1
  BY LoopHeadType DEF Arm
<1> QED
  BY <1>1, <1>2, <1>3 DEF Arm, history, TypeOK

LEMMA TypeSkip == TypeOK /\ Skip => TypeOK'
<1> SUFFICES ASSUME TypeOK, Skip PROVE TypeOK'
  OBVIOUS
<1>1. triggers' = triggers /\ pipelines' = pipelines
  BY DEF Skip, Ignore, triggers, pipelines
<1>2. i' \in 1 .. Len(pipelines) + 1
  BY ConfType DEF Skip, Ignore
<1> QED
  BY <1>1, <1>2 DEF Skip, Ignore, history, triggerVars, TypeOK

LEMMA TypeTimer ==
  ASSUME TypeOK, NEW t \in DOMAIN triggers, Timer(t)
  PROVE  TypeOK'
<1>1. triggers' = triggers /\ pipelines' = pipelines
  BY DEF Timer, Fire, Ignore, triggers, pipelines
<1>2. i + 1 \in 1 .. Len(pipelines) + 1 /\ i <= Len(pipelines)
  BY EvaluatingType DEF Timer
<1>3. CASE Due(t) /\ Fire(t)
  <2>1. PICK d \in 0..1 :
          /\ clock' = (clock + d) % Wrap
          /\ last' = [last EXCEPT ![t] = clock']
          /\ age' = [Aged(d) EXCEPT ![t] = 0]
    BY <1>3 DEF Timer
  <2>2. clock' \in 0 .. Wrap - 1 /\ Aged(d) \in [DOMAIN triggers -> 0..Wrap]
    BY <2>1, AdvanceType
  <2>3. last' \in [DOMAIN triggers -> 0 .. Wrap - 1] /\ age' \in [DOMAIN triggers -> 0..Wrap]
    BY <2>1, <2>2, SchedulerAssumption DEF TypeOK
  <2>4. fired' \in [DOMAIN triggers -> BOOLEAN] /\ seen' \in [DOMAIN triggers -> {"none", "dip", "clear"}]
    BY <1>3 DEF Fire, TypeOK
  <2> QED
    BY <1>2, <1>1, <1>3, <2>2, <2>3, <2>4 DEF Timer, Fire, TypeOK
<1>4. CASE ~Due(t) /\ Ignore
  BY <1>1, <1>2, <1>4 DEF Timer, Evaluating, Ignore, history, TypeOK
<1> QED
  BY <1>3, <1>4 DEF Timer

LEMMA TypeThreshold ==
  ASSUME TypeOK, NEW t \in DOMAIN triggers, Threshold(t)
  PROVE  TypeOK'
<1>1. triggers' = triggers /\ pipelines' = pipelines
  BY DEF Threshold, Fire, Ignore, triggers, pipelines
<1>2. i + 1 \in 1 .. Len(pipelines) + 1 /\ i <= Len(pipelines)
  BY EvaluatingType DEF Threshold
<1>3. CASE Ignore /\ UNCHANGED active
  BY <1>1, <1>2, <1>3 DEF Threshold, Evaluating, Ignore, history, TypeOK
<1>4. CASE Fire(t) /\ active' = [active EXCEPT ![t] = TRUE]
  <2>1. /\ active' \in [DOMAIN triggers -> BOOLEAN]
        /\ fired' \in [DOMAIN triggers -> BOOLEAN]
        /\ seen' \in [DOMAIN triggers -> {"none", "dip", "clear"}]
    BY <1>4 DEF Fire, TypeOK
  <2> QED
    BY <1>2, <1>1, <1>4, <2>1 DEF Threshold, Fire, TypeOK
<1>5. ASSUME NEW v \in Readings,
             active' = [active EXCEPT ![t] = @ /\ ~Cleared(triggers[t], v)],
             seen' = [seen EXCEPT ![t] = IF @ = "clear" THEN @ ELSE Level(triggers[t], v)],
             i' = i + 1 /\ UNCHANGED <<conf, running, at, fired>>
      PROVE  TypeOK'
  <2>1. active' \in [DOMAIN triggers -> BOOLEAN]
    BY <1>5 DEF TypeOK
  <2>2. seen' \in [DOMAIN triggers -> {"none", "dip", "clear"}]
    BY <1>5 DEF Level, TypeOK
  <2> QED
    BY <1>1, <1>2, <1>5, <2>1, <2>2 DEF Threshold, Evaluating, TypeOK
<1> QED
  BY <1>3, <1>4, <1>5 DEF Threshold

LEMMA TypeStartup ==
  ASSUME TypeOK, NEW t \in DOMAIN triggers, Startup(t)
  PROVE  TypeOK'
<1>1. triggers' = triggers /\ pipelines' = pipelines
  BY DEF Startup, Fire, Ignore, triggers, pipelines
<1>2. i + 1 \in 1 .. Len(pipelines) + 1 /\ i <= Len(pipelines)
  BY EvaluatingType DEF Startup
<1>3. CASE Fire(t) /\ armed' = [armed EXCEPT ![t] = FALSE]
  <2>1. /\ armed' \in [DOMAIN triggers -> BOOLEAN]
        /\ fired' \in [DOMAIN triggers -> BOOLEAN]
        /\ seen' \in [DOMAIN triggers -> {"none", "dip", "clear"}]
    BY <1>3 DEF Fire, TypeOK
  <2> QED
    BY <1>2, <1>1, <1>3, <2>1 DEF Startup, Fire, TypeOK
<1>4. CASE Ignore /\ UNCHANGED armed
  BY <1>1, <1>2, <1>4 DEF Startup, Evaluating, Ignore, history, TypeOK
<1> QED
  BY <1>3, <1>4 DEF Startup

LEMMA TypeOther ==
  ASSUME TypeOK, NEW t \in DOMAIN triggers, Other(t)
  PROVE  TypeOK'
<1>1. triggers' = triggers /\ pipelines' = pipelines
  BY DEF Other, Evaluating, Ignore, triggers, pipelines
<1>2. i + 1 \in 1 .. Len(pipelines) + 1 /\ i <= Len(pipelines)
  BY EvaluatingType DEF Other
<1> QED
  BY <1>1, <1>2 DEF Other, Evaluating, Ignore, history, triggerVars, TypeOK

LEMMA TypeRun == TypeOK /\ Run => TypeOK'
<1> SUFFICES ASSUME TypeOK, Run PROVE TypeOK'
  OBVIOUS
<1>1. triggers' = triggers /\ pipelines' = pipelines
  BY DEF Run, triggers, pipelines
<1>2. PICK d \in 0..MaxRun : Advance(d)
  BY DEF Run
<1>3. clock' \in 0 .. Wrap - 1 /\ age' \in [DOMAIN triggers -> 0..Wrap]
  BY <1>2, AdvanceType, SchedulerAssumption DEF Advance
<1>4. i' \in 1 .. Len(pipelines) + 1
  BY ConfType DEF Run, TypeOK
<1> QED
  BY <1>1, <1>3, <1>4 DEF Run, history, triggerVars, TypeOK

LEMMA TypeDelay == TypeOK /\ Delay => TypeOK'
<1> SUFFICES ASSUME TypeOK, Delay PROVE TypeOK'
  OBVIOUS
<1>1. triggers' = triggers /\ pipelines' = pipelines
  BY DEF Delay, triggers, pipelines
<1>2. PICK d \in 1..MaxDelay : Advance(d)
  BY DEF Delay
<1>3. clock' \in 0 .. Wrap - 1 /\ age' \in [DOMAIN triggers -> 0..Wrap]
  BY <1>2, AdvanceType, SchedulerAssumption DEF Advance
<1>4. at' \in {"off", "pass"} /\ i' \in 1 .. Len(pipelines) + 1
  BY LoopHeadType DEF Delay
<1> QED
  BY <1>1, <1>3, <1>4 DEF Delay, history, triggerVars, TypeOK

LEMMA TypeStop == TypeOK /\ Stop => TypeOK'
<1> SUFFICES ASSUME TypeOK, Stop PROVE TypeOK'
  OBVIOUS
<1>1. triggers' = triggers /\ pipelines' = pipelines
  BY DEF Stop, triggers, pipelines
<1> QED
  BY <1>1 DEF Stop, history, triggerVars, TypeOK

LEMMA TypeStep == TypeOK /\ [Next]_vars => TypeOK'
<1> SUFFICES ASSUME TypeOK, [Next]_vars PROVE TypeOK'
  OBVIOUS
<1>1. CASE UNCHANGED vars
  BY <1>1 DEF vars, history, triggerVars, triggers, pipelines, TypeOK
<1>2. CASE Next
  BY <1>2, TypeArm, TypeSkip, TypeTimer, TypeThreshold, TypeStartup, TypeOther,
     TypeRun, TypeDelay, TypeStop, TypeBegin DEF Next, TaskStep, Evaluate
<1> QED
  BY <1>1, <1>2

\* The variables keep their types, the clock its 32 bits and the pass its
\* bounds, in every configuration (scheduler.c:82).
THEOREM TypeCorrect == Spec => []TypeOK
<1>1. Init => TypeOK
  BY TypeInit
<1>2. TypeOK /\ [Next]_vars => TypeOK'
  BY TypeStep
<1> QED
  BY <1>1, <1>2, PTL DEF Spec

(***************************************************************************)
(* What was_active remembers of a threshold trigger's readings, and armed  *)
(* of a startup trigger's firing.  Both are inductive with TypeOK.         *)
(***************************************************************************)
Remembers(t) ==
  /\ seen[t] = "clear" => ~active[t]
  /\ ~active[t] => seen[t] # "none"
  /\ triggers[t].comparison \in {"gt", "lt"} /\ ~active[t] => seen[t] = "clear"

Memory == \A t \in OfType("threshold") : Remembers(t)

Armament == \A t \in OfType("startup") : at = "arm" \/ armed[t] => ~fired[t]

IInv == TypeOK /\ Memory /\ Armament

\* The trigger a pipeline looks at is unique.
LEMMA EvaluatingUnique ==
  ASSUME NEW t, NEW u, Evaluating(t), Evaluating(u)
  PROVE  t = u
BY DEF Evaluating, Triggered

\* A reading that leaves the band clears was_active, and one that does not
\* keeps it for the comparisons that have a band.
LEMMA ClearedLevel ==
  ASSUME NEW c \in Trigger, NEW v \in Int
  PROVE  /\ Level(c, v) = "clear" => Cleared(c, v)
         /\ c.comparison \in {"gt", "lt"} /\ Cleared(c, v) => Level(c, v) = "clear"
         /\ Level(c, v) \in {"dip", "clear"}
BY DEF Level, Cleared, Trigger

LEMMA MemoryThreshold ==
  ASSUME TypeOK, Memory, NEW u \in DOMAIN triggers, Threshold(u)
  PROVE  Memory'
<1>1. triggers' = triggers /\ OfType("threshold")' = OfType("threshold")
  BY DEF Threshold, Fire, Ignore, triggers, OfType
<1>2. u \in OfType("threshold")
  BY DEF Threshold, OfType
<1>3. CASE Ignore /\ UNCHANGED active
  BY <1>1, <1>3 DEF Ignore, history, Memory, Remembers
<1>4. CASE Fire(u) /\ active' = [active EXCEPT ![u] = TRUE]
  <2> SUFFICES ASSUME NEW t \in OfType("threshold") PROVE Remembers(t)'
    BY <1>1 DEF Memory
  <2>1. CASE t = u
    <3>1. active'[u] = TRUE /\ seen'[u] = "none"
      BY <1>4 DEF Fire, TypeOK
    <3> QED
      BY <2>1, <3>1 DEF Remembers
  <2>2. CASE t # u
    <3>1. active'[t] = active[t] /\ seen'[t] = seen[t]
      BY <1>4, <2>2 DEF Fire, TypeOK, OfType
    <3> QED
      BY <1>1, <3>1 DEF Memory, Remembers
  <2> QED
    BY <2>1, <2>2
<1>5. ASSUME NEW v \in Readings,
             active' = [active EXCEPT ![u] = @ /\ ~Cleared(triggers[u], v)],
             seen' = [seen EXCEPT ![u] = IF @ = "clear" THEN @ ELSE Level(triggers[u], v)]
      PROVE  Memory'
  <2> SUFFICES ASSUME NEW t \in OfType("threshold") PROVE Remembers(t)'
    BY <1>1 DEF Memory
  <2>1. CASE t = u
    <3>1. triggers[u] \in Trigger /\ v \in Int
      BY ConfType, SchedulerAssumption
    <3>2. active'[u] = (active[u] /\ ~Cleared(triggers[u], v))
      BY <1>5 DEF TypeOK
    <3>3. seen'[u] = IF seen[u] = "clear" THEN "clear" ELSE Level(triggers[u], v)
      BY <1>5 DEF TypeOK
    <3>4. Remembers(u)
      BY <1>2 DEF Memory
    <3>5. CASE seen[u] = "clear"
      BY <2>1, <3>2, <3>3, <3>4, <3>5 DEF Remembers
    <3>6. CASE seen[u] # "clear"
      BY <1>1, <2>1, <3>1, <3>2, <3>3, <3>4, <3>6, ClearedLevel DEF Remembers
    <3> QED
      BY <3>5, <3>6
  <2>2. CASE t # u
    <3>1. active'[t] = active[t] /\ seen'[t] = seen[t]
      BY <1>5, <2>2 DEF TypeOK, OfType
    <3> QED
      BY <1>1, <3>1 DEF Memory, Remembers
  <2> QED
    BY <2>1, <2>2
<1> QED
  BY <1>3, <1>4, <1>5 DEF Threshold

\* A timer or a startup trigger that fires leaves the memory of the others.
LEMMA MemoryOtherFires ==
  ASSUME TypeOK, Memory, NEW u \in DOMAIN triggers, triggers[u].type # "threshold",
         Fire(u), UNCHANGED active
  PROVE  Memory'
<1>1. triggers' = triggers /\ OfType("threshold")' = OfType("threshold")
  BY DEF Fire, triggers, OfType
<1>2. \A t \in OfType("threshold") : seen'[t] = seen[t]
  BY DEF Fire, TypeOK, OfType
<1> QED
  BY <1>1, <1>2 DEF Memory, Remembers

LEMMA MemoryStep == TypeOK /\ Memory /\ [Next]_vars => Memory'
<1> SUFFICES ASSUME TypeOK, Memory, [Next]_vars PROVE Memory'
  OBVIOUS
<1>1. ASSUME UNCHANGED <<conf, active, seen>> PROVE Memory'
  BY <1>1 DEF Memory, Remembers, OfType, triggers
<1>2. ASSUME NEW c \in Configs, Begin(c) PROVE Memory'
  BY <1>2 DEF Begin, Configured, Memory, Remembers, OfType, triggers
<1>3. ASSUME NEW t \in DOMAIN triggers, Timer(t) PROVE Memory'
  <2>1. CASE Fire(t)
    BY <1>3, <2>1, MemoryOtherFires DEF Timer
  <2>2. CASE Ignore
    BY <1>1, <1>3, <2>2 DEF Timer, Ignore, history
  <2> QED
    BY <1>3, <2>1, <2>2 DEF Timer
<1>4. ASSUME NEW t \in DOMAIN triggers, Startup(t) PROVE Memory'
  <2>1. CASE Fire(t)
    BY <1>4, <2>1, MemoryOtherFires DEF Startup
  <2>2. CASE Ignore
    BY <1>1, <1>4, <2>2 DEF Startup, Ignore, history
  <2> QED
    BY <1>4, <2>1, <2>2 DEF Startup
<1>5. CASE Arm \/ Skip \/ Run \/ Delay \/ Stop \/ UNCHANGED vars
  BY <1>1, <1>5 DEF Arm, Skip, Ignore, Run, Delay, Stop, vars, history, triggerVars
<1>6. ASSUME NEW t \in DOMAIN triggers, Other(t) PROVE Memory'
  BY <1>1, <1>6 DEF Other, Ignore, history, triggerVars
<1> QED
  BY <1>2, <1>3, <1>4, <1>5, <1>6, MemoryThreshold DEF Next, TaskStep, Evaluate

LEMMA ArmamentStep == TypeOK /\ Armament /\ [Next]_vars => Armament'
<1> SUFFICES ASSUME TypeOK, Armament, [Next]_vars PROVE Armament'
  OBVIOUS
<1>1. ASSUME UNCHANGED <<conf, armed, fired>>, at' # "arm" \/ at = "arm" PROVE Armament'
  BY <1>1 DEF Armament, OfType, triggers
<1>2. ASSUME NEW c \in Configs, Begin(c) PROVE Armament'
  BY <1>2 DEF Begin, Configured, Armament, OfType, triggers
<1>3. CASE Arm
  <2>1. \A t \in OfType("startup") : ~fired[t]
    BY <1>3 DEF Arm, Armament
  <2>2. OfType("startup")' = OfType("startup") /\ fired' = fired
    BY <1>3 DEF Arm, OfType, triggers, history
  <2> QED
    BY <2>1, <2>2 DEF Armament
<1>4. ASSUME NEW u \in DOMAIN triggers, Fire(u),
             \/ triggers[u].type # "startup" /\ UNCHANGED armed
             \/ armed' = [armed EXCEPT ![u] = FALSE]
      PROVE  Armament'
  <2> SUFFICES ASSUME NEW t \in OfType("startup") PROVE ~armed'[t] \/ ~fired'[t]
    BY <1>4 DEF Fire, Armament, OfType, triggers
  <2>1. CASE t = u
    BY <1>4, <2>1 DEF TypeOK, OfType
  <2>2. CASE t # u
    <3>1. fired'[t] = fired[t] /\ armed'[t] = armed[t]
      BY <1>4, <2>2 DEF Fire, TypeOK, OfType
    <3> QED
      BY <3>1 DEF Armament
  <2> QED
    BY <2>1, <2>2
<1>5. ASSUME NEW t \in DOMAIN triggers, Timer(t) PROVE Armament'
  BY <1>1, <1>4, <1>5 DEF Timer, Evaluating, Ignore, history
<1>6. ASSUME NEW t \in DOMAIN triggers, Threshold(t) PROVE Armament'
  BY <1>1, <1>4, <1>6 DEF Threshold, Evaluating, Ignore, history
<1>7. ASSUME NEW t \in DOMAIN triggers, Startup(t) PROVE Armament'
  BY <1>1, <1>4, <1>7 DEF Startup, Evaluating, Ignore, history
<1>8. ASSUME NEW t \in DOMAIN triggers, Other(t) PROVE Armament'
  BY <1>1, <1>8 DEF Other, Evaluating, Ignore, history, triggerVars
<1>9. CASE Skip \/ Run \/ Delay \/ Stop \/ UNCHANGED vars
  BY <1>1, <1>9 DEF Skip, Ignore, Run, Delay, LoopHead, Stop, vars, history, triggerVars
<1> QED
  BY <1>2, <1>3, <1>5, <1>6, <1>7, <1>8, <1>9 DEF Next, TaskStep, Evaluate

LEMMA Inductive == Spec => []IInv
<1>1. Init => IInv
  BY TypeInit DEF Init, IInv, Memory, Armament, OfType, triggers
<1>2. IInv /\ [Next]_vars => IInv'
  BY TypeStep, MemoryStep, ArmamentStep DEF IInv
<1> QED
  BY <1>1, <1>2, PTL DEF Spec

\* Which action makes trigger t fire.
LEMMA FiringAction ==
  ASSUME NEW t \in DOMAIN triggers, Fires(t), Next
  PROVE  Timer(t) \/ Threshold(t) \/ Startup(t)
<1>1. at = "pass" /\ at' = "run"
  BY DEF Fires, Evaluating
<1>2. PICK u \in DOMAIN triggers : Timer(u) \/ Threshold(u) \/ Startup(u) \/ Other(u)
  BY <1>1 DEF Next, TaskStep, Evaluate, Arm, Skip, Ignore, Run, Delay, LoopHead, Stop, Begin
<1>3. ~Other(u)
  BY <1>1 DEF Other, Ignore
<1>4. u = t
  BY <1>2, <1>3, EvaluatingUnique DEF Fires, Timer, Threshold, Startup
<1> QED
  BY <1>2, <1>3, <1>4

\* A threshold trigger that fires was not active.
LEMMA FiresInactive ==
  ASSUME NEW t \in OfType("threshold"), Fires(t), Next
  PROVE  ~active[t]
<1>1. Threshold(t)
  BY FiringAction DEF OfType, Timer, Startup
<1>2. at' # at
  BY DEF Fires, Evaluating
<1> QED
  BY <1>1, <1>2 DEF Threshold, Ignore, Crossing

\* For all configurations and all readings: a trigger on "greater" or
\* "less" fires again only after a reading left its band, and any threshold
\* trigger only on a transition (scheduler.c:53).
THEOREM Hysteresis == Spec => HysteresisKept /\ OnTransitionOnly
<1>1. ASSUME IInv, [Next]_vars, NEW t \in OfType("threshold"), Fires(t)
      PROVE  Remembers(t) /\ (vars' = vars \/ ~active[t])
  BY <1>1, FiresInactive DEF IInv, Memory
<1>2. IInv /\ [Next]_vars => [\A t \in Compares({"gt", "lt"}) : Fires(t) => seen[t] = "clear"]_vars
  BY <1>1 DEF Compares, Remembers, OfType
<1>3. IInv /\ [Next]_vars => [\A t \in OfType("threshold") : Fires(t) => seen[t] # "none"]_vars
  BY <1>1 DEF Remembers
<1> QED
  BY <1>2, <1>3, Inductive, PTL DEF Spec, HysteresisKept, OnTransitionOnly

\* No crossing is missed: a trigger whose band was left is not active
\* (scheduler.c:65).
THEOREM Ready == Spec => []ReadyWhenClear
<1>1. IInv => ReadyWhenClear
  BY DEF IInv, Memory, Remembers, ReadyWhenClear
<1> QED
  BY <1>1, Inductive, PTL

\* In one run of the scheduler task a startup trigger fires once at most,
\* whatever the other triggers do (scheduler.c:71).
THEOREM Once == Spec => StartupOnce
<1>1. IInv /\ [Next]_vars => [\A t \in OfType("startup") : Fires(t) => ~fired[t]]_vars
  <2> SUFFICES ASSUME IInv, Next, NEW t \in OfType("startup"), Fires(t) PROVE ~fired[t]
    BY DEF vars
  <2>1. Startup(t)
    BY FiringAction DEF OfType, Timer, Threshold
  <2>2. armed[t]
    BY <2>1 DEF Startup, Ignore, Fires, Evaluating
  <2> QED
    BY <2>2 DEF IInv, Armament
<1> QED
  BY <1>1, Inductive, PTL DEF Spec, StartupOnce

\* Types and readiness together, the property the runs check.
THEOREM AlwaysReady == Spec => []TriggersReady
<1>1. TypeOK /\ ReadyWhenClear => TriggersReady
  BY DEF TriggersReady
<1> QED
  BY TypeCorrect, Ready, <1>1, PTL

\* What fires fires on a change: thresholds on a transition that left the
\* band before, startup triggers once (scheduler.c:36-80).
THEOREM FiresWhenDue == Spec => FiresOnChange
BY Hysteresis, Once, PTL DEF FiresOnChange
=============================================================================
