------------------------------- MODULE Hardware --------------------------------
(* What the firmware drives devices with: the registry with its drivers, and the ports,
   the interrupts and the store of the platform abstraction layer (hal/).  They share no
   state, the drivers call ESP-IDF themselves, so that a behaviour exercises one of them. *)
EXTENDS Drivers, PalPorts, PalPins, PalStore

VARIABLE part

palVars == <<portVars, pinVars, storeVars>>
hardwareVars == <<part, vars, palVars>>

HardwareInit ==
    /\ part \in {"drivers", "ports", "pins", "store"}
    /\ Init /\ PortsInit /\ PinsInit /\ StoreInit

HardwareNext ==
    \/ part = "drivers" /\ Next /\ UNCHANGED <<part, palVars>>
    \/ part = "ports" /\ PortsNext /\ UNCHANGED <<part, vars, pinVars, storeVars>>
    \/ part = "pins" /\ PinsNext /\ UNCHANGED <<part, vars, portVars, storeVars>>
    \/ part = "store" /\ StoreNext /\ UNCHANGED <<part, vars, portVars, pinVars>>

HardwareSpec == HardwareInit /\ [][HardwareNext]_hardwareVars

(* A port that was opened serves its user with the setting that was asked for, and its flag
   tells whether its driver is there. *)
PortsServe == PortsTypeOK /\ OpenServes /\ FlagTellsDriver /\ SettingInForce

(* An interrupt calls the function registered for its pin. *)
PinsServe == PinsTypeOK /\ OwnCallback

(* The store answers with what was set, and finds what it has acknowledged. *)
StoreKeeps == StoreTypeOK /\ AnswersWhatWasSet /\ AcknowledgedFound
================================================================================
