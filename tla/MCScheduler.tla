---------------------------- MODULE MCScheduler ----------------------------
(* Instances of Scheduler for TLC: small configurations, each mixing the   *)
(* triggers that can disturb one another.                                  *)
EXTENDS Scheduler

T(id, type, interval)   == [id |-> id, type |-> type, interval |-> interval,
                            comparison |-> "gt", threshold |-> 0, hysteresis |-> 0]
S(id, comparison, h)    == [id |-> id, type |-> "threshold", interval |-> 0,
                            comparison |-> comparison, threshold |-> 3, hysteresis |-> h]
P(trigger)              == [trigger |-> trigger, enabled |-> TRUE]
Disabled(trigger)       == [trigger |-> trigger, enabled |-> FALSE]

\* Triggers with ids of their own: pipeline k is on trigger k.
Own(ts) == [triggers |-> ts, pipelines |-> [k \in DOMAIN ts |-> P(ts[k].id)]]

MCTimers == {Own(<<T(1, "timer", 3), T(2, "timer", 5)>>),
             Own(<<T(1, "startup", 0), T(2, "timer", 4)>>),
             [triggers  |-> <<T(1, "timer", 3), T(2, "other", 0)>>,
              pipelines |-> <<Disabled(1), P(2), P(1)>>]}

MCThresholds == {Own(<<S(1, c, h)>>) : c \in {"gt", "lt", "gte", "lte", "eq"}, h \in {0, 1}}
                \cup {Own(<<S(1, "gt", 1), S(2, "lt", 1)>>),
                      [triggers |-> <<S(1, "lt", 1)>>, pipelines |-> <<P(1), P(1), P(2)>>]}

MCConfigs == MCTimers \cup MCThresholds

\* What on_payload_received configures for two PIPELINE_STARTs of one id.
MCShared == {[triggers  |-> <<T(1, "timer", 3), T(1, "timer", 3)>>,
              pipelines |-> <<P(1), P(1)>>]}
===========================================================================
