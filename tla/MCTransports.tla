---------------------------- MODULE MCTransports ----------------------------
(***************************************************************************)
(* Instances for TLC of the ways by which a payload comes to the device:   *)
(* BleTransfer and NetServers.  They share no state: in each behaviour one *)
(* of the two takes steps.                                                 *)
(*                                                                         *)
(* A BLE write carries up to four units and the first one two of header:   *)
(* payloads of one and of four units, the room in the buffer, are sent in  *)
(* one write or in up to four, that end shorter than a header or full.     *)
(***************************************************************************)
EXTENDS BleTransfer, NetServers, TLC

CONSTANTS one, four

MCPayload == {one, four}
MCSize    == one :> 1 @@ four :> 4

VARIABLE way

transportVars == <<way, bleVars, vars>>

MCInit == way \in {"ble", "net"} /\ BleInit /\ Init

\* Once the display server has been stopped nothing is promised of it any
\* more: it is stopped between two commands and none is sent later.
NetNext == Next /\ (stopped' => \A s \in Senders : call'[s] = "idle")

MCNext ==
  \/ way = "ble" /\ BleNext /\ UNCHANGED <<way, vars>>
  \/ way = "net" /\ NetNext /\ UNCHANGED <<way, bleVars>>

\* The fairness of FairBleSpec and of NetServers, each for its own way.
MCFair ==
  /\ WF_bleVars(way = "ble" /\ Receive) /\ WF_bleVars(way = "ble" /\ SendNext)
  /\ WF_vars(way = "net" /\ PayServer)
  /\ \A c \in Callers : WF_vars(way = "net" /\ CallStep(c))
  /\ \A t \in Tasks : WF_vars(way = "net" /\ TaskStep(t))
  /\ \A c \in Clients : WF_vars(way = "net" /\ \E how \in {"closed", "broken", "silent"} : Part(c, how))

MCSpec == MCInit /\ [][MCNext]_transportVars /\ MCFair
=============================================================================
