-------------------------------- MODULE MCBoot --------------------------------
(* Instances for TLC.  The start of the device: an empty bus, one with two addresses that
   the table has twice, and one with more devices than the list holds, the ones with the
   longest texts among them.  The services share no state with it or with each other: in each
   behaviour one of the parts takes steps. *)
EXTENDS Boot, DeviceServices

VARIABLE part

MCBuses == {{}, {56, 104},
            {21, 24, 27, 39, 40, 44, 45, 57, 60, 61, 63, 64, 82, 83, 90, 104, 105, 118, 119}}

(* The configuration shares no state with the board, the bus and the radios, and with the
   manifest only the namespace: it is saved and reset on a genuine board, with nothing on the
   bus from then on, the manifest of two devices in NVS or none, and the radios off.  NVS refuses one entry of it. *)
BootsNext ==
    /\ part = "boot" /\ Next
    /\ Pair \/ EraseManifest => bus = {} /\ (IF saved = None THEN 0 ELSE Len(saved)) \in {0, 2}
    /\ Pair /\ torn /\ call.op = "save" => nvs'[Head(call.left)] = call.cfg
    /\ nvs' # Blank =>
          board = [kind |-> "genuine", dev |-> FALSE] /\ bus' = {} /\ ble' = "off" /\ wifi' = "off"
    /\ UNCHANGED <<part, serviceVars>>

(* Handlers subscribe in one order. *)
InOrder == \A i \in DOMAIN handlers'.slot : handlers'.slot[i] = i

PartsNext ==
    /\ \/ part = "limiter" /\ LimiterNext
       \/ part = "events" /\ EventsNext /\ InOrder
       \/ part = "store" /\ StoreNext
       \/ part = "mqtt" /\ MqttNext
    /\ UNCHANGED <<part, vars>>

Rests == [now |-> 0, last |-> 0, since |-> Word, gap |-> Word, refused |-> FALSE]

MCInit ==
    /\ part \in {"boot", "limiter", "events", "store", "mqtt"}
    /\ BootInit /\ ServicesInit
    /\ part # "boot" => bus = {} /\ board = [kind |-> "genuine", dev |-> FALSE]
    /\ part # "limiter" => limiter = Rests

allVars == <<part, vars, serviceVars>>

(* Fairness concerns the start of the device; the other parts have no liveness property. *)
MCSpec == MCInit /\ [][BootsNext \/ PartsNext]_allVars /\ Fairness
=============================================================================
