----------------------------- MODULE BleTransfer -----------------------------
(***************************************************************************)
(* Sending a payload over BLE: the deploy characteristic's                 *)
(* deploy_access_cb and the GAP events of the device (ble_gatt_profile.c). *)
(*                                                                         *)
(* The client is outside: any one that writes what deploy_access_cb reads. *)
(* A payload of p is the sequence of its units Data(p); the first write    *)
(* carries the length header and at least one unit, and how much more a    *)
(* write carries is the client's choice, up to what the MTU allows.        *)
(* transferPayload of the Android application means to be such a client    *)
(* with writes of 508 bytes, but looks for the characteristic under        *)
(* another UUID (BleManager.kt:28, ble_gatt_profile.c:46), returns when it *)
(* has not found it (BleManager.kt:127), and asks for no MTU that 508      *)
(* bytes would fit: nothing here is claimed of it.                         *)
(*                                                                         *)
(* Writes are without response: those of one connection arrive in order,   *)
(* but one may not be queued, and a disconnection drops those under way.   *)
(* What the callback does with a payload is in module Deploy.              *)
(***************************************************************************)
EXTENDS Naturals, Sequences

CONSTANTS
  Payload,   \* what clients send
  Size,      \* Size[p]: its length, in units
  Hdr,       \* units of the length header (4 bytes)
  Chunk,     \* the most units a write carries (the MTU less 3 bytes)
  BufSize,   \* SYS_PROGRAM_MAX_SIZE
  Lengths,   \* what payload data may say when it is read as a length
  Window,    \* writes a connection holds
  Nobody,    \* no payload
  Faults     \* what may fail: "write" (a write is not queued),
             \* "disconnect", "connect" (a connection attempt)

ASSUME BleAssumption ==
  /\ Size \in [Payload -> Nat]
  /\ Hdr \in Nat \ {0} /\ Chunk \in Nat /\ Hdr < Chunk
  /\ BufSize \in Nat /\ Chunk <= BufSize /\ \A p \in Payload : Size[p] <= BufSize
  /\ Lengths \subseteq Nat
  /\ Window \in Nat \ {0}
  /\ Nobody \notin Payload
  /\ Faults \subseteq {"write", "disconnect", "connect"}

VARIABLES
  link,        \* s_connected
  adv,         \* whether the device advertises
  air,         \* writes under way on the connection
  buf,         \* s_rx_buffer up to s_rx_offset
  expected,    \* s_rx_expected
  last,        \* what s_payload_cb was called with since the transfer began
  sending,     \* payload the client sends, or has sent
  offset,      \* units of it sent
  attached,    \* whether the connection the transfer began on is up
  undisturbed, \* nothing has failed since the transfer began (history)
  calm,        \* nothing has failed since the device started (history)
  refused      \* a connection attempt has failed (history)

deviceVars == <<buf, expected, last>>
clientVars == <<sending, offset, attached, undisturbed, calm>>
bleVars    == <<link, adv, air, deviceVars, clientVars, refused>>

Data(p)   == [k \in 1..Size[p] |-> <<p, k>>]
Header(p) == [k \in 1..Hdr |-> <<p, 0>>]

BleInit ==
  /\ link = FALSE /\ adv = TRUE /\ air = <<>>
  /\ buf = <<>> /\ expected = 0 /\ last = <<>>
  /\ sending = Nobody /\ offset = 0 /\ attached = FALSE /\ undisturbed = FALSE
  /\ calm = TRUE /\ refused = FALSE

(***************************************************************************)
(* The connection.                                                         *)
(***************************************************************************)

\* BLE_GAP_EVENT_CONNECT: connecting ends the advertising.
Connect ==
  /\ adv /\ ~link
  /\ link' = TRUE /\ adv' = FALSE
  /\ UNCHANGED <<air, deviceVars, clientVars, refused>>

\* The same event with a status: only advertising has ended.
ConnectFails ==
  /\ "connect" \in Faults /\ adv /\ ~link
  /\ adv' = FALSE /\ refused' = TRUE
  /\ UNCHANGED <<link, air, deviceVars, clientVars>>

\* Mutated form of Disconnect: the device does not advertise again.
DisconnectSilent ==
  /\ "disconnect" \in Faults /\ link
  /\ link' = FALSE /\ air' = <<>>
  /\ attached' = FALSE /\ undisturbed' = FALSE /\ calm' = FALSE
  /\ UNCHANGED <<adv, deviceVars, sending, offset, refused>>

\* BLE_GAP_EVENT_DISCONNECT: what was received of a payload stays.
Disconnect ==
  /\ "disconnect" \in Faults /\ link
  /\ link' = FALSE /\ adv' = TRUE /\ air' = <<>>
  /\ attached' = FALSE /\ undisturbed' = FALSE /\ calm' = FALSE
  /\ UNCHANGED <<deviceVars, sending, offset, refused>>

(***************************************************************************)
(* The client.  It sends one payload after the other, and does not learn   *)
(* whether a write has arrived.                                            *)
(***************************************************************************)
Returned == sending \notin {p \in Payload : offset < Size[p]}

Queue(w) == Len(air) < Window /\ air' = Append(air, w) /\ UNCHANGED calm
Lose     == UNCHANGED air /\ undisturbed' = FALSE /\ calm' = FALSE

\* The first write: the header and the beginning of the payload.
SendFirst(p) ==
  /\ link /\ Returned
  /\ \E n \in 0 .. Size[p] :
       /\ Hdr + n <= Chunk /\ (n > 0 \/ Size[p] = 0)
       /\ offset' = n
       /\ \/ Queue(Header(p) \o SubSeq(Data(p), 1, n)) /\ undisturbed' = TRUE
          \/ "write" \in Faults /\ Lose
  /\ attached' = TRUE /\ sending' = p /\ last' = <<>>
  /\ UNCHANGED <<link, adv, buf, expected, refused>>

\* The subsequent writes, sent whatever happened to those before.
SendNext ==
  /\ ~Returned
  /\ \E n \in offset + 1 .. Size[sending] :
       /\ n - offset <= Chunk
       /\ offset' = n
       /\ \/ attached /\ Queue(SubSeq(Data(sending), offset + 1, n)) /\ UNCHANGED undisturbed
          \/ (~attached \/ "write" \in Faults) /\ Lose
  /\ UNCHANGED <<link, adv, deviceVars, attached, sending, refused>>

(***************************************************************************)
(* deploy_access_cb, for the first write under way.                        *)
(***************************************************************************)

\* The length the first four bytes of a write give.
LengthIn(w) ==
  IF \E p \in Payload : SubSeq(w, 1, Hdr) = Header(p)
  THEN {Size[p] : p \in {q \in Payload : SubSeq(w, 1, Hdr) = Header(q)}}
  ELSE Lengths

\* Mutated form of Store: the payload is complete one unit later.
StoreLate(b, n) ==
  IF Len(b) > n /\ n > 0
  THEN buf' = <<>> /\ expected' = 0 /\ last' = b
  ELSE buf' = b /\ expected' = n /\ UNCHANGED last

\* Mutated form of Store: the offset is not reset for the next payload.
StoreKeeps(b, n) ==
  IF Len(b) >= n /\ n > 0
  THEN buf' = b /\ expected' = 0 /\ last' = b
  ELSE buf' = b /\ expected' = n /\ UNCHANGED last

\* The buffer holds b of n expected units; all of it goes to s_payload_cb
\* when that is enough.
Store(b, n) ==
  IF Len(b) >= n /\ n > 0
  THEN buf' = <<>> /\ expected' = 0 /\ last' = b
  ELSE buf' = b /\ expected' = n /\ UNCHANGED last

\* Whether a write is taken for the first one of a payload.
IsFirst(w) == buf = <<>> /\ Len(w) >= Hdr

First(w) ==
  /\ IsFirst(w)
  /\ \E n \in LengthIn(w) :
       IF n > BufSize
       THEN expected' = n /\ UNCHANGED <<buf, last>>
       ELSE Store(SubSeq(w, Hdr + 1, Len(w)), n)

Fits(w) == Len(buf) + Len(w) <= BufSize

Subsequent(w) ==
  /\ ~IsFirst(w)
  /\ Store(IF Fits(w) THEN buf \o w ELSE buf, expected)

Receive ==
  /\ air # <<>>
  /\ air' = Tail(air)
  /\ First(Head(air)) \/ Subsequent(Head(air))
  /\ UNCHANGED <<link, adv, clientVars, refused>>

Client == SendNext \/ \E p \in Payload : SendFirst(p)

BleNext == Connect \/ ConnectFails \/ Disconnect \/ Client \/ Receive

BleSpec == BleInit /\ [][BleNext]_bleVars

\* The host task handles what arrives, and a client that has begun goes on.
FairBleSpec == BleSpec /\ WF_bleVars(Receive) /\ WF_bleVars(SendNext)

(***************************************************************************)
(* Properties.                                                             *)
(***************************************************************************)
Unit == {<<p, k>> : p \in Payload, k \in 0..BufSize}

\* Besides the types: the buffer holds what is in it.
BleTypeOK ==
  /\ link \in BOOLEAN /\ adv \in BOOLEAN /\ attached \in BOOLEAN
  /\ air \in Seq(Seq(Unit)) /\ Len(air) <= Window
  /\ buf \in Seq(Unit) /\ Len(buf) <= BufSize
  /\ expected \in Lengths \cup {Size[p] : p \in Payload} \cup {0}
  /\ last \in Seq(Unit)
  /\ sending \in Payload \cup {Nobody}
  /\ offset \in 0..BufSize /\ (sending # Nobody => offset <= Size[sending])
  /\ undisturbed \in BOOLEAN /\ calm \in BOOLEAN /\ refused \in BOOLEAN

\* As long as nothing failed, what reaches the application is a payload a
\* client sent, whatever its length (ble_gatt_profile.c:89).
DeliveredIntact == calm /\ last # <<>> => \E p \in Payload : last = Data(p)

\* As long as nothing fails, every transfer of a client that keeps to the
\* protocol leads to a deployment, wherever its writes are cut.
EveryTransferArrives ==
  \A p \in Payload : sending = p /\ Size[p] > 0 ~> last = Data(p) \/ ~calm

\* The device is connected or can be connected to (ble_gatt_profile.c:152),
\* unless a connection attempt failed: nothing starts advertising again then.
Reachable == link \/ adv \/ refused

\* A transfer that nothing disturbed has delivered its payload when its
\* writes have been handled: the callback is "called when BLE receives a
\* deployment payload" (comms.h:28), whatever happened to earlier transfers.
UndisturbedArrives ==
  Returned /\ undisturbed /\ air = <<>>
    => Size[sending] = 0 \/ last = Data(sending)

\* The variables have their types, the reassembly buffer its bound, and what
\* is delivered while nothing failed is what was sent.
Intact == BleTypeOK /\ DeliveredIntact

=============================================================================
