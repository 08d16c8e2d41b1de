------------------------------ MODULE Scheduler ------------------------------
(***************************************************************************)
(* When pipelines run: the passes of scheduler_task over its pipelines and *)
(* evaluate_trigger (scheduler.c).                                         *)
(*                                                                         *)
(* The clock is now_ms(), milliseconds modulo Wrap.  Time passes while a   *)
(* pipeline executes, in the delay at the end of a pass, and between the   *)
(* two readings of the clock when a timer fires.  What an execution does   *)
(* is in module VM, how a program gets here and the scheduler is stopped   *)
(* for it in module Deploy.                                                *)
(***************************************************************************)
EXTENDS Integers, Sequences, FiniteSetsExt

CONSTANTS
  Configs,    \* what deployments configure: records of triggers, pipelines
  Wrap,       \* 2^32 in the code, whose clock is a uint32_t
  MaxRun,     \* longest execution of a pipeline in ms
  MaxDelay,   \* longest vTaskDelay of a tick
  Readings    \* values a sensor may read

Trigger  == [id : Nat, type : {"timer", "threshold", "startup", "other"},
             interval : Nat, comparison : {"gt", "lt", "gte", "lte", "eq"},
             threshold : Int, hysteresis : Nat]
Pipeline == [trigger : Nat, enabled : BOOLEAN]

\* The time from one look at a trigger to the next.
PassTime(c) == Len(c.pipelines) * (MaxRun + 1) + MaxDelay

ASSUME SchedulerAssumption ==
  /\ Wrap \in Nat \ {0} /\ MaxRun \in Nat /\ MaxDelay \in Nat \ {0}
  /\ Readings \subseteq Int
  /\ \A c \in Configs :
       /\ c.triggers \in Seq(Trigger) /\ c.pipelines \in Seq(Pipeline)
       /\ \A t \in DOMAIN c.triggers :
            c.triggers[t].interval + 2 * PassTime(c) < Wrap

VARIABLES
  conf,      \* s_state.triggers and s_state.pipelines, as configured
  running,   \* s_state.running
  at,        \* "off" without a task, else "arm", "pass" or "run"
  i,         \* the i of the pass
  clock,     \* now_ms()
  last,      \* last_fire_tick of each trigger
  active,    \* was_active
  armed,     \* armed
  age,       \* time since a timer fired or was configured (history)
  fired,     \* whether it has fired since it was configured (history)
  seen       \* what was read since it fired: "none", "dip" below the
             \* condition, or "clear" of the hysteresis band (history)

triggerVars == <<last, active, armed>>
history     == <<fired, seen>>
vars == <<conf, running, at, i, clock, triggerVars, age, history>>

triggers  == conf.triggers
pipelines == conf.pipelines

\* Ages after d more ms, for the timers; they are not counted beyond a turn
\* of the clock.
Aged(d) == [t \in DOMAIN age |->
              IF triggers[t].type = "timer" THEN Min({age[t] + d, Wrap}) ELSE 0]

\* d ms pass.
Advance(d) == clock' = (clock + d) % Wrap /\ age' = Aged(d)

\* scheduler_init, scheduler_add_trigger, scheduler_add_pipeline: the
\* entries of configuration c, with what on_payload_received leaves zero.
Configured(c) ==
  LET On(x) == [t \in DOMAIN c.triggers |-> x]
  IN  /\ conf' = c
      /\ last' = On(0) /\ active' = On(FALSE) /\ armed' = On(FALSE)
      /\ age' = On(0) /\ fired' = On(FALSE) /\ seen' = On("clear")

Init ==
  /\ conf = [triggers |-> <<>>, pipelines |-> <<>>]
  /\ running = FALSE /\ at = "off" /\ i = 1
  /\ clock \in 0 .. Wrap - 1
  /\ last = <<>> /\ active = <<>> /\ armed = <<>>
  /\ age = <<>> /\ fired = <<>> /\ seen = <<>>

\* A deployment configures the scheduler and starts it.
Begin(c) ==
  /\ at = "off"
  /\ Configured(c)
  /\ running' = TRUE /\ at' = "arm" /\ i' = 1
  /\ UNCHANGED clock

\* scheduler_stop: the task notices at the head of its loop.
Stop ==
  /\ running
  /\ running' = FALSE
  /\ UNCHANGED <<conf, at, i, clock, triggerVars, age, history>>

\* The head of the loop.
LoopHead ==
  /\ \/ running  /\ at' = "pass"
     \/ ~running /\ at' = "off"
  /\ i' = 1

\* The task starts: it arms the startup triggers.
Arm ==
  /\ at = "arm"
  /\ armed' = [t \in DOMAIN armed |-> armed[t] \/ triggers[t].type = "startup"]
  /\ LoopHead
  /\ UNCHANGED <<conf, running, clock, last, active, age, history>>

(***************************************************************************)
(* A pass: each enabled pipeline and the first trigger with its id.        *)
(***************************************************************************)
Matching(p) == {t \in DOMAIN triggers : triggers[t].id = pipelines[p].trigger}

Triggered(p, t) == Matching(p) # {} /\ t = Min(Matching(p))

\* The pipeline of index i is enabled and t is the trigger found for it.
Evaluating(t) ==
  /\ at = "pass" /\ i \in DOMAIN pipelines
  /\ pipelines[i].enabled /\ Triggered(i, t)

Ignore ==
  /\ i' = i + 1
  /\ UNCHANGED <<conf, running, at, history>>

\* The pipeline is disabled, or no trigger has its trigger_id.
Skip ==
  /\ at = "pass" /\ i \in DOMAIN pipelines
  /\ ~pipelines[i].enabled \/ Matching(i) = {}
  /\ Ignore /\ UNCHANGED <<clock, triggerVars, age>>

Fire(t) ==
  /\ at' = "run"
  /\ fired' = [fired EXCEPT ![t] = TRUE]
  /\ seen' = [seen EXCEPT ![t] = "none"]
  /\ UNCHANGED <<conf, running, i>>

\* Mutated form of Due: the operands of the subtraction are swapped.
DueSwapped(t) == (last[t] - clock) % Wrap >= triggers[t].interval

\* Unsigned subtraction of uint32_t.
Due(t) == (clock - last[t]) % Wrap >= triggers[t].interval

\* The clock is read again for last_fire_tick.
Timer(t) ==
  /\ Evaluating(t) /\ triggers[t].type = "timer"
  /\ \/ /\ Due(t) /\ Fire(t)
        /\ \E d \in 0..1 :
             /\ clock' = (clock + d) % Wrap
             /\ last' = [last EXCEPT ![t] = clock']
             /\ age' = [Aged(d) EXCEPT ![t] = 0]
     \/ ~Due(t) /\ Ignore /\ UNCHANGED <<clock, last, age>>
  /\ UNCHANGED <<active, armed>>

Condition(c, v) ==
  CASE c.comparison = "gt"  -> v > c.threshold
    [] c.comparison = "lt"  -> v < c.threshold
    [] c.comparison = "gte" -> v >= c.threshold
    [] c.comparison = "lte" -> v <= c.threshold
    [] c.comparison = "eq"  -> v > c.threshold - c.hysteresis
                                 /\ v < c.threshold + c.hysteresis

\* Mutated form of Cleared: the band is left on the wrong side.
ClearedInverted(c, v) == v > c.threshold + c.hysteresis

\* hyst_clear, of a reading that does not fulfil the condition.
Cleared(c, v) ==
  CASE c.comparison = "gt" -> v < c.threshold - c.hysteresis
    [] c.comparison = "lt" -> v > c.threshold + c.hysteresis
    [] OTHER               -> TRUE

\* Mutated form of Crossing: fires as long as the condition holds.
CrossingLevel(t, v) == Condition(triggers[t], v)

\* The condition has come to hold.
Crossing(t, v) == Condition(triggers[t], v) /\ ~active[t]

\* What a reading that does not fulfil the condition adds to the history:
\* it is clear of the band when it lies beyond it, for any comparison.
Level(c, v) ==
  LET Clear == CASE c.comparison \in {"gt", "gte"} -> v < c.threshold - c.hysteresis
                 [] c.comparison \in {"lt", "lte"} -> v > c.threshold + c.hysteresis
                 [] OTHER                          -> TRUE
  IN  IF Clear THEN "clear" ELSE "dip"

\* A driver that cannot be read leaves the trigger as it is.
Threshold(t) ==
  /\ Evaluating(t) /\ triggers[t].type = "threshold"
  /\ \/ Ignore /\ UNCHANGED active
     \/ \E v \in Readings :
          \/ /\ Crossing(t, v) /\ Fire(t)
             /\ active' = [active EXCEPT ![t] = TRUE]
          \/ /\ ~Crossing(t, v) /\ Condition(triggers[t], v)
             /\ Ignore /\ UNCHANGED active
          \/ /\ ~Condition(triggers[t], v)
             /\ active' = [active EXCEPT ![t] = @ /\ ~Cleared(triggers[t], v)]
             /\ seen' = [seen EXCEPT ![t] = IF @ = "clear" THEN @ ELSE Level(triggers[t], v)]
             /\ i' = i + 1 /\ UNCHANGED <<conf, running, at, fired>>
  /\ UNCHANGED <<clock, last, armed, age>>

Startup(t) ==
  /\ Evaluating(t) /\ triggers[t].type = "startup"
  /\ \/ armed[t]  /\ Fire(t) /\ armed' = [armed EXCEPT ![t] = FALSE]
     \/ ~armed[t] /\ Ignore  /\ UNCHANGED armed
  /\ UNCHANGED <<clock, last, active, age>>

\* TRIGGER_GPIO_EDGE, _MQTT, _BLE_EVENT and _TIME_WINDOW never fire.
Other(t) ==
  /\ Evaluating(t) /\ triggers[t].type = "other"
  /\ Ignore /\ UNCHANGED <<clock, triggerVars, age>>

\* The pipeline executes, then the pass goes on.
Run ==
  /\ at = "run"
  /\ \E d \in 0..MaxRun : Advance(d)
  /\ at' = "pass" /\ i' = i + 1
  /\ UNCHANGED <<conf, running, triggerVars, history>>

\* The end of a pass, and back to the head of the loop.
Delay ==
  /\ at = "pass" /\ i \notin DOMAIN pipelines
  /\ \E d \in 1..MaxDelay : Advance(d)
  /\ LoopHead
  /\ UNCHANGED <<conf, running, triggerVars, history>>

Evaluate == \E t \in DOMAIN triggers : Timer(t) \/ Threshold(t) \/ Startup(t) \/ Other(t)

TaskStep == Arm \/ Skip \/ Evaluate \/ Run \/ Delay

Next == TaskStep \/ Stop \/ \E c \in Configs : Begin(c)

Spec == Init /\ [][Next]_vars

\* The scheduler task gets the processor whenever it is ready.
FairSpec == Spec /\ WF_vars(TaskStep)

(***************************************************************************)
(* Properties.                                                             *)
(***************************************************************************)
TypeOK ==
  /\ conf \in Configs \cup {[triggers |-> <<>>, pipelines |-> <<>>]}
  /\ running \in BOOLEAN
  /\ at \in {"off", "arm", "pass", "run"}
  /\ i \in 1 .. Len(pipelines) + 1 /\ (at = "run" => i <= Len(pipelines))
  /\ clock \in 0 .. Wrap - 1
  /\ last \in [DOMAIN triggers -> 0 .. Wrap - 1]
  /\ active \in [DOMAIN triggers -> BOOLEAN]
  /\ armed \in [DOMAIN triggers -> BOOLEAN]
  /\ age \in [DOMAIN triggers -> 0..Wrap]
  /\ fired \in [DOMAIN triggers -> BOOLEAN]
  /\ seen \in [DOMAIN triggers -> {"none", "dip", "clear"}]

Fires(t) == Evaluating(t) /\ at' = "run"
OfType(type) == {t \in DOMAIN triggers : triggers[t].type = type}
Compares(ops) == {t \in OfType("threshold") : triggers[t].comparison \in ops}

\* Two firings of a timer are at least its interval apart, also across the
\* wrap of the 32-bit clock (scheduler.c:30).
TimerSpacing ==
  [][\A t \in OfType("timer") : Fires(t) /\ fired[t] => age[t] >= triggers[t].interval]_vars

\* A timer some enabled pipeline looks at fires within its interval and two
\* passes: neither the wrap of the clock nor the last_fire_tick of 0 a
\* deployment leaves makes it wait for a turn of the clock (scheduler.c:30).
TimerPrompt ==
  \A t \in OfType("timer") :
    (\E p \in DOMAIN pipelines : pipelines[p].enabled /\ Triggered(p, t)) /\ at # "off"
      => age[t] <= triggers[t].interval + 2 * PassTime(conf)

\* After it fired, a trigger on "greater" or "less" fires again only when
\* a reading has left the hysteresis band (scheduler.c:60).
HysteresisKept ==
  [][\A t \in Compares({"gt", "lt"}) : Fires(t) => seen[t] = "clear"]_vars

\* Between two firings of any threshold trigger there was a reading that
\* did not fulfil its condition: "only fire on transition" (scheduler.c:53).
OnTransitionOnly ==
  [][\A t \in OfType("threshold") : Fires(t) => seen[t] # "none"]_vars

\* A trigger whose band was left is ready for the next crossing: no
\* crossing is missed (scheduler.c:65).
ReadyWhenClear ==
  \A t \in OfType("threshold") : seen[t] = "clear" => ~active[t]

\* A startup trigger fires once in a run of the scheduler task
\* (scheduler.c:71).
StartupOnce ==
  [][\A t \in OfType("startup") : Fires(t) => ~fired[t]]_vars

\* Every enabled pipeline whose trigger is a timer or a startup trigger
\* is executed, unless the scheduler is stopped.
Serves ==
  \A p \in 1..4 :
    running /\ p \in DOMAIN pipelines /\ pipelines[p].enabled
            /\ (\E t \in OfType("timer") : Triggered(p, t))
      ~> (at = "run" /\ i = p) \/ ~running

\* The startup pipelines of a configuration are executed, unless the
\* scheduler is stopped before (scheduler.c:86).
StartupServed ==
  \A t \in 1..4 :
    at = "arm" /\ t \in OfType("startup") /\ (\E p \in DOMAIN pipelines :
                                          pipelines[p].enabled /\ Triggered(p, t))
      ~> (t \in DOMAIN fired /\ fired[t]) \/ ~running

\* The variables have their types, and no crossing of a threshold is missed
\* because its trigger was left marked as active.
TriggersReady == TypeOK /\ ReadyWhenClear

\* What fires: thresholds on a transition with its hysteresis, a startup
\* trigger once (scheduler.c:36-80).
FiresOnChange == HysteresisKept /\ OnTransitionOnly /\ StartupOnce

\* Timers are neither early nor late, whatever the clock does, and every
\* pipeline on a timer or a startup trigger is executed.
OnTime == []TimerPrompt /\ TimerSpacing /\ Serves /\ StartupServed

=============================================================================
