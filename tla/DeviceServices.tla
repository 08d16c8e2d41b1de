---------------------------- MODULE DeviceServices -----------------------------
(***************************************************************************)
(* The small services of the firmware: the rate limiter of a driver, on a  *)
(* clock of milliseconds that wraps; the record of faults, kept without a  *)
(* lock by every task that meets one; the event bus on which they are      *)
(* published, to which handlers may be added meanwhile; the store of state *)
(* variables; and the wrapper of the MQTT client.                          *)
(***************************************************************************)
EXTENDS Integers, Sequences, FiniteSets

CONSTANTS
    Word,           \* 2^32: the clock wraps
    Interval,       \* min_interval_ms
    Tasks,          \* tasks that raise faults
    Faults,         \* fault types
    Handlers,       \* event handlers
    MaxFaults,      \* bound on faults
    Indexes         \* SYS_MAX_STATE_VARIABLES

MaxSubscribers == 4     \* MAX_SUBSCRIBERS_PER_EVENT

ASSUME ServicesAssumption ==
    /\ Word \in Nat \ {0} /\ Interval \in 1 .. Word - 1 /\ MaxFaults \in Nat /\ Indexes \in Nat \ {0}

VARIABLES
    limiter,    \* the clock, last_call_tick; how long ago it granted a call, how long before
                \* that it granted one, both up to Word, and whether it refused the last call
    handlers,   \* s_subscribers of EVT_SYSTEM_ERROR: the slots, and s_sub_counts
    faults,     \* the record: the count of each type, and s_total
    raiser,     \* what each task is doing in fault_raise or fault_clear_all
    raised,     \* how often each type was raised, and whether all was cleared (history)
    told,      \* the handlers told the event a task publishes, those it found (history)
    store,      \* the types of the state variables, and s_count
    mqtt        \* the client: "none", "started" or "connected", and s_connected

limiterVars == <<limiter>>
eventVars == <<handlers, faults, raiser, raised, told>>
serviceVars == <<limiterVars, eventVars, store, mqtt>>

Away == [at |-> "away", type |-> "none", seen |-> 0, next |-> 1]

ServicesInit ==
    /\ \E now \in 0 .. Word - 1 : limiter = [now |-> now, last |-> 0, since |-> Word, gap |-> Word, refused |-> FALSE]
    /\ handlers = [slot |-> <<>>, count |-> 0]
    /\ faults = [count |-> [f \in Faults |-> 0], total |-> 0]
    /\ raiser = [t \in Tasks |-> Away]
    /\ raised = [count |-> [f \in Faults |-> 0], cleared |-> FALSE]
    /\ told = [t \in Tasks |-> [to |-> <<>>, found |-> <<>>]]
    /\ store = [type |-> [i \in 0 .. Indexes - 1 |-> "null"], count |-> 0]
    /\ mqtt = [client |-> "none", connected |-> FALSE]

(***************************************************************************)
(* The rate limiter                                                        *)
(***************************************************************************)

\* (now - last_call_tick) >= min_interval_ms, in 32 bits.
Allows(now) == (now - limiter.last) % Word >= Interval

\* rate_limiter_check, some time after the call before.
LimiterCheck(pause) ==
    LET now == (limiter.now + pause) % Word
        since == IF limiter.since + pause > Word THEN Word ELSE limiter.since + pause
    IN  /\ limiter' = IF Allows(now)
                      THEN [now |-> now, last |-> now, since |-> 0, gap |-> since, refused |-> FALSE]
                      ELSE [limiter EXCEPT !.now = now, !.since = since, !.refused = TRUE]
        /\ UNCHANGED <<eventVars, store, mqtt>>

(***************************************************************************)
(* Events and faults                                                       *)
(***************************************************************************)

\* event_bus_subscribe writes the slot, then the count.
FillSlot(h) ==
    /\ handlers.count < MaxSubscribers /\ Len(handlers.slot) = handlers.count
    /\ handlers' = [handlers EXCEPT !.slot = Append(@, h)]
    /\ UNCHANGED <<faults, raiser, raised, told, limiterVars, store, mqtt>>

CountSlot ==
    /\ Len(handlers.slot) > handlers.count
    /\ handlers' = [handlers EXCEPT !.count = @ + 1]
    /\ UNCHANGED <<faults, raiser, raised, told, limiterVars, store, mqtt>>

Moves(t, at, seen) == raiser' = [raiser EXCEPT ![t].at = at, ![t].seen = seen]

\* fault_raise: the count of the type is read,
Raise(t, f) ==
    /\ raiser[t].at = "away" /\ raised.count[f] < MaxFaults
    /\ raiser' = [raiser EXCEPT ![t] = [at |-> "count", type |-> f, seen |-> faults.count[f], next |-> 1]]
    /\ raised' = [raised EXCEPT !.count[f] = @ + 1]
    /\ UNCHANGED <<handlers, faults, told, limiterVars, store, mqtt>>

\* and written; the total is read,
CountFault(t) ==
    /\ raiser[t].at = "count"
    /\ faults' = [faults EXCEPT !.count[raiser[t].type] = raiser[t].seen + 1]
    /\ Moves(t, "total", 0)
    /\ UNCHANGED <<handlers, raised, told, limiterVars, store, mqtt>>

ReadTotal(t) ==
    /\ raiser[t].at = "total"
    /\ Moves(t, "add", faults.total)
    /\ UNCHANGED <<handlers, faults, raised, told, limiterVars, store, mqtt>>

\* and written; and the event is published.
CountTotal(t) ==
    /\ raiser[t].at = "add"
    /\ faults' = [faults EXCEPT !.total = raiser[t].seen + 1]
    /\ Moves(t, "publish", 0)
    /\ told' = [told EXCEPT ![t] = [to |-> <<>>, found |-> SubSeq(handlers.slot, 1, handlers.count)]]
    /\ UNCHANGED <<handlers, raised, limiterVars, store, mqtt>>

\* Mutated form of Deliver: the publication ends with the first handler.
DeliverToFirst(t) ==
    /\ raiser[t].at = "publish" /\ raiser[t].next <= handlers.count
    /\ told' = [told EXCEPT ![t].to = Append(@, handlers.slot[raiser[t].next])]
    /\ raiser' = [raiser EXCEPT ![t].next = MaxSubscribers + 1]
    /\ UNCHANGED <<handlers, faults, raised, limiterVars, store, mqtt>>

\* event_bus_publish: the next handler.  The count is looked at before each.
Deliver(t) ==
    /\ raiser[t].at = "publish" /\ raiser[t].next <= handlers.count
    /\ told' = [told EXCEPT ![t].to = Append(@, handlers.slot[raiser[t].next])]
    /\ raiser' = [raiser EXCEPT ![t].next = @ + 1]
    /\ UNCHANGED <<handlers, faults, raised, limiterVars, store, mqtt>>

EndRaise(t) ==
    /\ raiser[t].at = "publish" /\ raiser[t].next > handlers.count
    /\ raiser' = [raiser EXCEPT ![t] = Away]
    /\ UNCHANGED <<handlers, faults, raised, told, limiterVars, store, mqtt>>

\* fault_clear_all: the records, then the total.
ClearCounts(t) ==
    /\ raiser[t].at = "away"
    /\ faults' = [faults EXCEPT !.count = [f \in Faults |-> 0]]
    /\ raised' = [raised EXCEPT !.cleared = TRUE]
    /\ Moves(t, "clear", 0)
    /\ UNCHANGED <<handlers, told, limiterVars, store, mqtt>>

ClearTotal(t) ==
    /\ raiser[t].at = "clear"
    /\ faults' = [faults EXCEPT !.total = 0]
    /\ raiser' = [raiser EXCEPT ![t] = Away]
    /\ UNCHANGED <<handlers, raised, told, limiterVars, store, mqtt>>

(***************************************************************************)
(* The store of state variables, and MQTT                                  *)
(***************************************************************************)

StoreSet(i, type) ==
    /\ i < Indexes
    /\ store' = [type |-> [store.type EXCEPT ![i] = type],
                 count |-> IF i >= store.count THEN i + 1 ELSE store.count]
    /\ UNCHANGED <<limiterVars, eventVars, mqtt>>

StoreReset ==
    /\ store' = [type |-> [i \in 0 .. Indexes - 1 |-> "null"], count |-> 0]
    /\ UNCHANGED <<limiterVars, eventVars, mqtt>>

\* mqtt_client_init with a broker; without one nothing happens.
MqttInit(ok) ==
    /\ mqtt.client = "none"
    /\ mqtt' = [mqtt EXCEPT !.client = IF ok THEN "started" ELSE "none"]
    /\ UNCHANGED <<limiterVars, eventVars, store>>

\* The events of the client, which keeps trying by itself.
MqttConnected ==
    /\ mqtt.client = "started"
    /\ mqtt' = [client |-> "connected", connected |-> TRUE]
    /\ UNCHANGED <<limiterVars, eventVars, store>>

MqttDisconnected ==
    /\ mqtt.client = "connected"
    /\ mqtt' = [client |-> "started", connected |-> FALSE]
    /\ UNCHANGED <<limiterVars, eventVars, store>>

LimiterNext == \E pause \in 0 .. Word : LimiterCheck(pause)

EventsNext ==
    \/ CountSlot \/ \E h \in Handlers : FillSlot(h)
    \/ \E t \in Tasks :
          \/ \E f \in Faults : Raise(t, f)
          \/ CountFault(t) \/ ReadTotal(t) \/ CountTotal(t) \/ Deliver(t) \/ EndRaise(t)
          \/ ClearCounts(t) \/ ClearTotal(t)

StoreNext == StoreReset \/ \E i \in 0 .. Indexes, type \in {"int", "bool"} : StoreSet(i, type)

MqttNext == MqttConnected \/ MqttDisconnected \/ \E ok \in BOOLEAN : MqttInit(ok)

ServicesNext == LimiterNext \/ EventsNext \/ StoreNext \/ MqttNext

ServicesSpec == ServicesInit /\ [][ServicesNext]_serviceVars

(***************************************************************************)
(* Properties                                                              *)
(***************************************************************************)

ServicesTypeOK ==
    /\ limiter.now \in 0 .. Word - 1 /\ limiter.last \in 0 .. Word - 1 /\ limiter.since \in 0 .. Word
    /\ handlers.slot \in Seq(Handlers) /\ Len(handlers.slot) <= MaxSubscribers
    /\ faults.count \in [Faults -> Nat] /\ faults.total \in Nat
    /\ store.count \in 0 .. Indexes
    /\ \A i \in DOMAIN store.type : store.type[i] # "null" => i < store.count
    /\ mqtt.connected => mqtt.client = "connected"

\* Calls of a driver that are granted are an interval apart, also across the wrap of the
\* clock, and a call is refused only within an interval of one that was granted, unless the
\* driver paused for a whole turn of the clock or has not been granted any.
LimiterExact ==
    /\ limiter.gap >= Interval
    /\ limiter.refused => limiter.since < Interval \/ limiter.since = Word

\* Though tasks count faults without a lock, a fault that is raised leaves a trace, and none
\* is counted that was not raised, as long as the record is not cleared.
FaultsTraced ==
    ~raised.cleared =>
        \A f \in Faults :
            /\ faults.count[f] <= raised.count[f]
            /\ raised.count[f] > 0 /\ (\A t \in Tasks : raiser[t].at = "away") =>
                  faults.count[f] > 0 /\ faults.total > 0

\* A fault is told once to each handler, in their order: to those there were when it was
\* published, and to any that came while it was.
FaultsPublished ==
    \A t \in Tasks :
        LET to == told[t].to
            all == SubSeq(handlers.slot, 1, handlers.count)
        IN  /\ to = SubSeq(all, 1, Len(to))
            /\ raiser[t].at \in {"away", "clear"} /\ told[t].found # <<>> =>
                  Len(to) >= Len(told[t].found)

\* The variables have their types, drivers are granted calls an interval apart
\* and refused no others, and a fault leaves a trace and is told to each handler.
ServicesSound == ServicesTypeOK /\ LimiterExact /\ FaultsTraced /\ FaultsPublished

=============================================================================
