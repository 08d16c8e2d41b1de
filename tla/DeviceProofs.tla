----------------------------- MODULE DeviceProofs -----------------------------
(***************************************************************************)
(* What holds of the start of the device whatever is wired up, fails or    *)
(* loses power: payloads find what they use, the manifest fits its buffer  *)
(* and describes a bus, and a pairing is whole.  And what holds of the     *)
(* small services for any clock, interval, tasks and handlers.  These      *)
(* parts share no state but the step of the main task, so each has an      *)
(* inductive invariant of its own.                                         *)
(***************************************************************************)
EXTENDS Boot, DeviceServices, TLAPS, FiniteSetTheorems, SequenceTheorems,
        WellFoundedInduction

-----------------------------------------------------------------------------
(* The steps and what they have initialised.                                *)

StepInv ==
  /\ board \in [kind : {"genuine", "foreign", "wrong"}, dev : BOOLEAN]
  /\ pc \in 1 .. 24
  /\ ready \subseteq {Steps[i] : i \in 1 .. 23}
  /\ ble \in {"off", "idle", "advertising", "connected"}
  /\ wifi \in {"off", "joining", "lost", "online"}
  /\ starts \in 0 .. MaxRestarts
  /\ \A k \in 1 .. 23 : k < pc /\ Steps[k] \in Uses => Steps[k] \in ready
  /\ pc > 2 => board.dev \/ board.kind = "genuine"
  /\ ble # "off" => pc > 14
  /\ wifi # "off" => pc > 18
  /\ given = Uses

LEMMA StepsTable ==
  /\ Len(Steps) = 23
  /\ Steps[1] = "nvs" /\ Steps[2] = "board" /\ Steps[3] = "config"
  /\ Steps[4] = "bus" /\ Steps[5] = "faults" /\ Steps[6] = "state"
  /\ Steps[7] = "vm" /\ Steps[8] = "registry" /\ Steps[9] = "i2c"
  /\ Steps[10] = "manifest" /\ Steps[11] = "identity" /\ Steps[12] = "verifier"
  /\ Steps[13] = "scheduler" /\ Steps[14] = "ble" /\ Steps[15] = "ble callback"
  /\ Steps[16] = "wifi" /\ Steps[17] = "wifi callback" /\ Steps[18] = "start wifi"
  /\ Steps[19] = "advertise" /\ Steps[20] = "dumbdisplay" /\ Steps[21] = "ota"
  /\ Steps[22] = "program" /\ Steps[23] = "watchdog"
BY DEF Steps

\* A named step is at one place only.
LEMMA StepPlaces ==
  /\ At("nvs") => pc = 1
  /\ At("board") => pc = 2
  /\ At("ble") => pc = 14
  /\ At("start wifi") => pc = 18
  /\ At("advertise") => pc = 19
  /\ At("program") => pc = 22
<1> SUFFICES ASSUME NEW s, At(s)
             PROVE  /\ s = "nvs" => pc = 1
                    /\ s = "board" => pc = 2
                    /\ s = "ble" => pc = 14
                    /\ s = "start wifi" => pc = 18
                    /\ s = "advertise" => pc = 19
                    /\ s = "program" => pc = 22
  OBVIOUS
<1>1. pc \in 1 .. 23 /\ s = Steps[pc]
  BY StepsTable DEF At
<1>2. pc \in 1 .. 6 \/ pc \in 7 .. 12 \/ pc \in 13 .. 18 \/ pc \in 19 .. 23
  BY <1>1
<1>3. CASE pc \in 1 .. 6
  <2>1. pc = 1 \/ pc = 2 \/ pc = 3 \/ pc = 4 \/ pc = 5 \/ pc = 6
    BY <1>3
  <2> QED
    BY <1>1, <2>1, StepsTable
<1>4. CASE pc \in 7 .. 12
  <2>1. pc = 7 \/ pc = 8 \/ pc = 9 \/ pc = 10 \/ pc = 11 \/ pc = 12
    BY <1>4
  <2> QED
    BY <1>1, <2>1, StepsTable
<1>5. CASE pc \in 13 .. 18
  <2>1. pc = 13 \/ pc = 14 \/ pc = 15 \/ pc = 16 \/ pc = 17 \/ pc = 18
    BY <1>5
  <2> QED
    BY <1>1, <2>1, StepsTable
<1>6. CASE pc \in 19 .. 23
  <2>1. pc = 19 \/ pc = 20 \/ pc = 21 \/ pc = 22 \/ pc = 23
    BY <1>6
  <2> QED
    BY <1>1, <2>1, StepsTable
<1> QED
  BY <1>2, <1>3, <1>4, <1>5, <1>6

\* Once the scheduler is initialised, so is all a payload uses.
LEMMA UsesReady ==
  ASSUME StepInv, pc > 13
  PROVE  ready \cap Uses = Uses
<1>1. ASSUME NEW k \in {4, 5, 6, 7, 8, 9, 11, 12, 13}, Steps[k] \in Uses PROVE Steps[k] \in ready
  BY <1>1 DEF StepInv
<1>2. {"bus", "faults", "state", "vm", "registry"} \subseteq ready
  <2>1. Steps[4] \in ready /\ Steps[5] \in ready /\ Steps[6] \in ready
    BY <1>1, StepsTable DEF Uses
  <2>2. Steps[7] \in ready /\ Steps[8] \in ready
    BY <1>1, StepsTable DEF Uses
  <2> QED
    BY <2>1, <2>2, StepsTable, ZenonT(20)
<1>3. {"i2c", "identity", "verifier", "scheduler"} \subseteq ready
  <2>1. Steps[9] \in ready /\ Steps[11] \in ready
    BY <1>1, StepsTable DEF Uses
  <2>2. Steps[12] \in ready /\ Steps[13] \in ready
    BY <1>1, StepsTable DEF Uses
  <2> QED
    BY <2>1, <2>2, StepsTable, ZenonT(20)
<1> QED
  BY <1>2, <1>3 DEF Uses

\* A step of the main task is over: the next one is due, and what it
\* initialised is ready, except that NVS and the board may be missing.
Advances ==
  /\ pc \in 1 .. 23 /\ pc' = pc + 1
  /\ ready' = ready \cup {Steps[pc]} \/ (pc \in {1, 2} /\ ready' = ready)

LEMMA DoneAdvances == \A s : At(s) /\ Done(s) => Advances
BY StepsTable DEF At, Done, Advances

\* What every advance keeps.
LEMMA AdvanceKeeps ==
  ASSUME StepInv, Advances
  PROVE  /\ pc' \in 1 .. 24
         /\ ready' \subseteq {Steps[i] : i \in 1 .. 23}
         /\ \A k \in 1 .. 23 : k < pc' /\ Steps[k] \in Uses => Steps[k] \in ready'
<1>1. ASSUME NEW k \in 1 .. 23, k < pc', Steps[k] \in Uses PROVE Steps[k] \in ready'
  <2>1. CASE k < pc
    BY <1>1, <2>1 DEF StepInv, Advances
  <2>2. CASE k = pc
    <3>1. pc \notin {1, 2}
      BY <1>1, <2>2, StepsTable DEF Uses
    <3> QED
      BY <2>2, <3>1 DEF Advances
  <2> QED
    BY <1>1, <2>1, <2>2 DEF StepInv, Advances
<1> QED
  BY <1>1 DEF StepInv, Advances

LEMMA StepInit == BootInit => StepInv
BY RestartAssumption DEF BootInit, StepInv

LEMMA StepStep == StepInv /\ [Next]_vars => StepInv'
<1> SUFFICES ASSUME StepInv, [Next]_vars PROVE StepInv'
  OBVIOUS
<1>1. ASSUME NEW o \in {"opened", "erased", "fails"}, NvsInit(o) PROVE StepInv'
  <2>1. Advances
    BY <1>1, StepPlaces, DoneAdvances, StepsTable DEF NvsInit, Advances, At
  <2>2. UNCHANGED <<board, ble, wifi, given, starts>> /\ pc = 1
    BY <1>1, StepPlaces DEF NvsInit
  <2> QED
    BY <2>1, <2>2, AdvanceKeeps DEF StepInv, Advances
<1>2. CASE BoardAuth
  <2>1. Advances
    BY <1>2, StepPlaces, DoneAdvances, StepsTable DEF BoardAuth, Advances, At
  <2>2. UNCHANGED <<board, ble, wifi, given, starts>> /\ (board.dev \/ board.kind = "genuine")
    BY <1>2 DEF BoardAuth
  <2> QED
    BY <2>1, <2>2, AdvanceKeeps DEF StepInv, Advances
<1>3. ASSUME LoadConfig \/ InitModule \/ (\E ok \in BOOLEAN : EndManifest(ok)) PROVE StepInv'
  <2>1. /\ Advances /\ UNCHANGED <<board, ble, wifi, given, starts>>
        /\ pc = 2 => board.dev \/ board.kind = "genuine"
    BY <1>3, DoneAdvances, StepsTable DEF LoadConfig, InitModule, EndManifest, Plain, At
  <2> QED
    BY <2>1, AdvanceKeeps DEF StepInv, Advances
<1>4. ASSUME NEW ok \in BOOLEAN, BleInit(ok) \/ WifiStart(ok) \/ Advertise PROVE StepInv'
  <2>1. Advances /\ pc \in {14, 18, 19} /\ UNCHANGED <<board, given, starts>>
    BY <1>4, DoneAdvances, StepPlaces DEF BleInit, WifiStart, Advertise
  <2>2. /\ ble' \in {"off", "idle", "advertising", "connected"}
        /\ wifi' \in {"off", "joining", "lost", "online"}
        /\ wifi' # "off" => wifi # "off" \/ pc = 18
    BY <1>4, StepPlaces DEF StepInv, BleInit, WifiStart, Advertise
  <2> QED
    BY <2>1, <2>2, AdvanceKeeps DEF StepInv, Advances
<1>5. ASSUME NEW stored \in BOOLEAN, LoadProgram(stored) PROVE StepInv'
  <2>1. Advances /\ pc = 22 /\ UNCHANGED <<board, ble, wifi, starts>>
    BY <1>5, DoneAdvances, StepPlaces DEF LoadProgram
  <2>2. given' = Uses
    BY <1>5, <2>1, UsesReady DEF LoadProgram, HandOver, StepInv
  <2> QED
    BY <2>1, <2>2, AdvanceKeeps DEF StepInv, Advances
<1>6. ASSUME ScanBus \/ MainLoop \/ Pair \/ EraseManifest \/ UNCHANGED vars PROVE StepInv'
  <2>1. UNCHANGED bootVars
    BY <1>6 DEF ScanBus, MainLoop, Pair, EraseManifest, vars
  <2> QED
    BY <2>1 DEF bootVars, StepInv
<1>7. CASE BlePeer
  BY <1>7 DEF BlePeer, StepInv
<1>8. CASE Payload
  <2>1. pc > 13 /\ UNCHANGED <<board, pc, ready, ble, wifi, starts>>
    <3>1. /\ ble = "connected" \/ wifi = "online"
          /\ UNCHANGED <<board, pc, ready, ble, wifi, starts>>
      BY <1>8 DEF Payload
    <3>2. /\ pc \in 1 .. 24
          /\ ble # "off" => pc > 14
          /\ wifi # "off" => pc > 18
      BY DEF StepInv
    <3> QED
      BY <3>1, <3>2
  <2>2. given' = Uses
    BY <1>8, <2>1, UsesReady DEF Payload, HandOver
  <2> QED
    BY <2>1, <2>2 DEF StepInv
<1>9. CASE GotIp \/ Lost \/ OnDisconnected
  BY <1>9 DEF GotIp, Lost, OnDisconnected, StepInv
<1>10. CASE Restart
  BY <1>10, RestartAssumption DEF Restart, StepInv
<1> QED
  BY <1>1, <1>2, <1>3, <1>4, <1>5, <1>6, <1>7, <1>8, <1>9, <1>10 DEF Next, BootStep

-----------------------------------------------------------------------------
(* The manifest.  The devices found are the first ones on the bus, and what *)
(* is written is bounded by how many they are.                              *)

RowOf(entry) ==
  \A j \in 1 .. 28 : KnownDevices[j].address = entry[1] => entry[2] \in 1 .. j

ManifestInv ==
  /\ ManifestTypeOK
  /\ Len(scan.found) <= MaxDevices
  /\ Before(scan.next, bus) = Len(scan.found)
  /\ \A i \in 1 .. Len(scan.found) :
        /\ scan.found[i][1] \in bus
        /\ Before(scan.found[i][1], bus) = i - 1
        /\ RowOf(scan.found[i])
  /\ json.written <= Len(scan.found)
  /\ json.offset <= Header + 89 * json.written
  /\ SavedDescribes

LEMMA Least ==
  ASSUME NEW T \in SUBSET Nat, T # {}
  PROVE  \E x \in T : \A y \in T : x <= y
<1> DEFINE R == OpToRel(<, Nat)
<1>1. IsWellFoundedOn(R, Nat)
  BY NatLessThanWellFounded
<1>2. ASSUME NEW x \in Nat, NEW y \in Nat, y < x PROVE <<y, x>> \in R
  BY <1>2 DEF OpToRel
<1> HIDE DEF R
<1>3. PICK x \in T : \A y \in T : ~(<<y, x>> \in R)
  BY <1>1, WFMin
<1>4. ASSUME NEW y \in T PROVE x <= y
  <2>1. ~(<<y, x>> \in R)
    BY <1>3
  <2>2. ~(y < x)
    BY <2>1, <1>2
  <2> QED
    BY <2>2
<1> QED
  BY <1>4

\* What the table holds.
LEMMA KnownTexts == \A i \in 1 .. 28 : KnownDevices[i].text \in 0 .. 41
<1>1. ASSUME NEW i \in 1 .. 28, i \in 1 .. 7 PROVE KnownDevices[i].text \in 0 .. 41
  BY <1>1 DEF KnownDevices, Device
<1>2. ASSUME NEW i \in 1 .. 28, i \in 8 .. 14 PROVE KnownDevices[i].text \in 0 .. 41
  BY <1>2 DEF KnownDevices, Device
<1>3. ASSUME NEW i \in 1 .. 28, i \in 15 .. 21 PROVE KnownDevices[i].text \in 0 .. 41
  BY <1>3 DEF KnownDevices, Device
<1>4. ASSUME NEW i \in 1 .. 28, i \in 22 .. 28 PROVE KnownDevices[i].text \in 0 .. 41
  BY <1>4 DEF KnownDevices, Device
<1> QED
  BY <1>1, <1>2, <1>3, <1>4

\* The first row with an address is found, if there is one.
LEMMA LookupFirst ==
  ASSUME NEW a \in Addresses
  PROVE  Lookup(a) \in 0 .. 28 /\ RowOf(<<a, Lookup(a)>>)
<1> DEFINE rows == {i \in 1 .. 28 : KnownDevices[i].address = a}
<1>1. CASE rows = {}
  <2>1. Lookup(a) = 0
    BY <1>1 DEF Lookup
  <2> QED
    BY <1>1, <2>1 DEF RowOf
<1>2. CASE rows # {}
  <2>1. \E i \in rows : \A j \in rows : i <= j
    <3>1. rows \in SUBSET Nat
      OBVIOUS
    <3> HIDE DEF rows
    <3> QED
      BY <3>1, <1>2, Least
  <2>2. Lookup(a) \in rows /\ \A j \in rows : Lookup(a) <= j
    <3>1. Lookup(a) = CHOOSE i \in rows : \A j \in rows : i <= j
      BY <1>2 DEF Lookup
    <3> HIDE DEF rows
    <3> QED
      BY <2>1, <3>1
  <2> QED
    BY <2>2 DEF RowOf
<1> QED
  BY <1>1, <1>2

LEMMA EntryBound ==
  ASSUME NEW i \in Nat, NEW row \in 0 .. 28
  PROVE  EntrySize(i, row) \in 0 .. 89
<1>1. TextOf(row) \in 0 .. 41
  BY KnownTexts DEF TextOf
<1> QED
  BY <1>1 DEF EntrySize, EntryText

\* A bus is a finite set, and so is each part of it.
LEMMA BusFinite ==
  ASSUME NEW b \in Buses
  PROVE  /\ b \subseteq Addresses /\ IsFiniteSet(b)
         /\ \A x \in b : x \in Int /\ 8 <= x /\ x <= 119
         /\ \A a : IsFiniteSet({x \in b : x < a})
         /\ \A a : Before(a, b) \in Nat
<1>1. b \subseteq Addresses
  BY BusAssumption
<1>2. IsFiniteSet(Addresses)
  <2>1. IsFiniteSet(8 .. 119)
    <3>1. 8 \in Int /\ 119 \in Int
      OBVIOUS
    <3> QED
      BY <3>1, FS_Interval
  <2> QED
    BY <2>1 DEF Addresses
<1>3. IsFiniteSet(b)
  BY <1>1, <1>2, FS_Subset
<1>4. ASSUME NEW a PROVE IsFiniteSet({x \in b : x < a}) /\ Before(a, b) \in Nat
  <2>1. IsFiniteSet({x \in b : x < a})
    BY <1>3, FS_Subset
  <2> QED
    BY <2>1, FS_CardinalityType DEF Before
<1>5. \A x \in b : x \in Int /\ 8 <= x /\ x <= 119
  BY <1>1 DEF Addresses
<1> QED
  BY <1>1, <1>3, <1>4, <1>5

\* Nothing was found below the first address, nor written.
LEMMA ManifestFresh ==
  ASSUME bus' \in Buses, scan' = NoScan, json' = NoJson, ManifestInv \/ saved = None,
         saved' \in {saved, None}
  PROVE  ManifestInv'
<1>1. {x \in bus' : x < 8} = {}
  BY BusFinite DEF Addresses
<1>2. Before(8, bus') = 0
  BY <1>1, FS_EmptySet DEF Before
<1>3. ManifestTypeOK'
  BY DEF ManifestInv, ManifestTypeOK, NoScan, NoJson, Header
<1>4. SavedDescribes'
  BY DEF ManifestInv, SavedDescribes
<1>5. Before(scan.next, bus)' = 0
  BY <1>2 DEF NoScan, Before
<1> QED
  BY <1>3, <1>4, <1>5 DEF ManifestInv, NoScan, NoJson, Header, MaxDevices

LEMMA ManifestKeeps ==
  ASSUME ManifestInv, UNCHANGED <<bus, scan, json>>, saved' \in {saved, None}
  PROVE  ManifestInv'
<1>1. ManifestTypeOK'
  BY DEF ManifestInv, ManifestTypeOK
<1>2. SavedDescribes'
  BY DEF ManifestInv, SavedDescribes
<1>3. Before(scan.next, bus)' = Before(scan.next, bus)
  BY DEF Before
<1>4. \A i : Before(scan.found[i][1], bus)' = Before(scan.found[i][1], bus)
  BY DEF Before
<1> QED
  BY <1>1, <1>2, <1>3, <1>4 DEF ManifestInv, RowOf

LEMMA NextIsInt ==
  ASSUME ManifestInv
  PROVE  scan.next \in Int
<1>1. scan.next \in 8 .. 120
  BY DEF ManifestInv, ManifestTypeOK
<1>2. \A n \in 8 .. 120 : n \in Int
  OBVIOUS
<1> QED
  BY <1>1, <1>2

LEMMA ProbeKeeps == ManifestInv /\ Probe => ManifestInv'
<1> SUFFICES ASSUME ManifestInv, Probe PROVE ManifestInv'
  OBVIOUS
<1>1. PICK a \in bus :
        /\ Len(scan.found) < MaxDevices /\ a >= scan.next
        /\ \A b \in bus : b >= scan.next => a <= b
        /\ scan' = [next |-> a + 1, found |-> Append(scan.found, <<a, Lookup(a)>>)]
        /\ UNCHANGED <<bus, json, saved>>
  BY DEF Probe, Scanning
<1>2. /\ bus \in Buses /\ bus \subseteq Addresses /\ a \in Addresses
      /\ \A x \in bus : x \in Int /\ 8 <= x /\ x <= 119
      /\ scan.next \in 8 .. 120
      /\ scan.found \in Seq(Addresses \X (0 .. 28)) /\ Len(scan.found) \in Nat
  BY BusFinite DEF ManifestInv, ManifestTypeOK
<1>3. Lookup(a) \in 0 .. 28 /\ RowOf(<<a, Lookup(a)>>)
  BY <1>2, LookupFirst
<1>4. Before(a, bus) = Len(scan.found)
  <2>1. {x \in bus : x < a} = {x \in bus : x < scan.next}
    <3>1. ASSUME NEW x \in bus PROVE x < a <=> x < scan.next
      <4>1. x \in Int /\ a \in Int
        BY <1>2
      <4>3. scan.next \in Int
        BY NextIsInt
      <4>2. a >= scan.next /\ (x >= scan.next => a <= x)
        BY <1>1
      <4> QED
        BY <4>1, <4>2, <4>3
    <3> QED
      BY <3>1
  <2> QED
    BY <2>1 DEF Before, ManifestInv
<1>5. Before(a + 1, bus) = Len(scan.found) + 1
  <2> DEFINE below == {x \in bus : x < a}
  <2>1. {x \in bus : x < a + 1} = below \cup {a}
    <3>1. ASSUME NEW x \in bus PROVE x < a + 1 <=> x < a \/ x = a
      BY <1>2
    <3>2. a \in bus /\ a < a + 1
      BY <1>2
    <3> QED
      BY <3>1, <3>2
  <2>2. a \notin below
    BY <1>2
  <2>3. IsFiniteSet(below)
    BY <1>2, BusFinite
  <2>4. Cardinality(below) = Len(scan.found)
    BY <1>4 DEF Before
  <2> HIDE DEF below
  <2>5. Cardinality(below \cup {a}) = Cardinality(below) + 1
    BY <2>2, <2>3, FS_AddElement
  <2> QED
    BY <2>1, <2>4, <2>5 DEF Before
<1> DEFINE f == scan.found
           e == <<a, Lookup(a)>>
<1>6. /\ scan'.found = Append(f, e) /\ scan'.next = a + 1
      /\ e \in Addresses \X (0 .. 28) /\ e[1] = a
  BY <1>1, <1>2, <1>3
<1>7. /\ Len(scan'.found) = Len(f) + 1
      /\ scan'.found \in Seq(Addresses \X (0 .. 28))
      /\ \A i \in 1 .. Len(f) : scan'.found[i] = f[i]
      /\ scan'.found[Len(f) + 1] = e
  BY <1>6, <1>2
<1>8. ManifestTypeOK'
  <2>0. a + 1 \in 8 .. 120
    <3>1. a \in Int /\ 8 <= a /\ a <= 119
      BY <1>2
    <3> QED
      BY <3>1
  <2>1. scan' \in [next : 8 .. 120, found : Seq(Addresses \X (0 .. 28))]
    <3>1. Append(scan.found, e) \in Seq(Addresses \X (0 .. 28))
      BY <1>6, <1>7
    <3> HIDE DEF e
    <3> QED
      BY <1>1, <2>0, <3>1 DEF e
  <2> QED
    BY <2>1, <1>1 DEF ManifestInv, ManifestTypeOK
<1>9. ASSUME NEW i \in 1 .. Len(scan'.found)
      PROVE  /\ scan'.found[i][1] \in bus
             /\ Before(scan'.found[i][1], bus) = i - 1
             /\ RowOf(scan'.found[i])
  <2>1. CASE i \in 1 .. Len(f)
    BY <2>1, <1>7 DEF ManifestInv
  <2>2. CASE i = Len(f) + 1
    <3>1. scan'.found[i] = e /\ i - 1 = Len(f)
      BY <2>2, <1>7, <1>2
    <3> QED
      BY <3>1, <1>6, <1>4, <1>3
  <2> QED
    BY <2>1, <2>2, <1>7, <1>2
<1>10. Before(scan'.next, bus) = Len(scan'.found)
  BY <1>5, <1>6, <1>7
<1>11. SavedDescribes'
  BY <1>1 DEF ManifestInv, SavedDescribes
<1>12. /\ Len(scan'.found) <= MaxDevices
       /\ json.written <= Len(scan'.found)
       /\ json.offset <= Header + 89 * json.written
  BY <1>1, <1>2, <1>7 DEF ManifestInv, ManifestTypeOK, MaxDevices
<1>13. bus' = bus /\ json' = json
  BY <1>1
<1> HIDE DEF f, e
<1>14. Before(scan.next, bus)' = Len(scan.found)'
  BY <1>10, <1>13 DEF Before
<1>15. (\A i \in 1 .. Len(scan.found) :
          /\ scan.found[i][1] \in bus
          /\ Before(scan.found[i][1], bus) = i - 1
          /\ RowOf(scan.found[i]))'
  BY <1>9, <1>13 DEF Before, RowOf
<1> QED
  BY <1>8, <1>11, <1>12, <1>13, <1>14, <1>15 DEF ManifestInv

LEMMA WriteKeeps == ManifestInv /\ WriteEntry => ManifestInv'
<1> SUFFICES ASSUME ManifestInv, WriteEntry PROVE ManifestInv'
  OBVIOUS
<1> DEFINE i == json.written + 1
<1>1. /\ json.written < Len(scan.found) /\ UNCHANGED <<bus, scan, saved>>
      /\ json' = [written |-> i, offset |-> json.offset + EntrySize(i, scan.found[i][2])]
  BY DEF WriteEntry, Writing
<1>2. /\ json.written \in Nat /\ json.offset \in Nat
      /\ scan.found \in Seq(Addresses \X (0 .. 28)) /\ Len(scan.found) \in Nat
  BY DEF ManifestInv, ManifestTypeOK
<1>3. scan.found[i] \in Addresses \X (0 .. 28)
  <2>1. i \in 1 .. Len(scan.found)
    BY <1>1, <1>2
  <2> QED
    BY <2>1, <1>2
<1>4. EntrySize(i, scan.found[i][2]) \in 0 .. 89
  <2>1. scan.found[i][2] \in 0 .. 28 /\ i \in Nat
    BY <1>2, <1>3
  <2> QED
    BY <2>1, EntryBound
<1>5. /\ json'.written = i /\ json'.offset \in Nat /\ i \in Nat
      /\ json'.offset <= json.offset + 89 /\ json' \in [written : Nat, offset : Nat]
  <2> DEFINE size == EntrySize(i, scan.found[i][2])
  <2>1. size \in 0 .. 89 /\ json' = [written |-> i, offset |-> json.offset + size]
    BY <1>1, <1>4
  <2> HIDE DEF size
  <2> QED
    BY <1>2, <2>1
<1>6. i <= Len(scan.found) /\ json'.offset <= Header + 89 * i
  BY <1>1, <1>2, <1>5 DEF ManifestInv, Header
<1>7. ManifestTypeOK'
  BY <1>1, <1>5 DEF ManifestInv, ManifestTypeOK
<1>8. SavedDescribes'
  BY <1>1 DEF ManifestInv, SavedDescribes
<1>9. scan' = scan /\ bus' = bus
  BY <1>1
<1> QED
  BY <1>5, <1>6, <1>7, <1>8, <1>9 DEF ManifestInv, Before, RowOf

LEMMA SaveKeeps == \A w \in BOOLEAN : ManifestInv /\ SaveManifest(w) => ManifestInv'
<1> SUFFICES ASSUME NEW w \in BOOLEAN, ManifestInv, SaveManifest(w) PROVE ManifestInv'
  OBVIOUS
<1>1. UNCHANGED <<bus, scan, json>>
  BY DEF SaveManifest
<1>2. CASE saved' = saved
  BY <1>1, <1>2, ManifestKeeps
<1>3. CASE saved' = scan.found /\ scan.found # <<>>
  <2>1. /\ bus \in Buses /\ IsFiniteSet(bus) /\ bus \subseteq Addresses
        /\ scan.next \in 8 .. 120 /\ scan.found \in Seq(Addresses \X (0 .. 28))
        /\ Len(scan.found) \in Nat /\ Cardinality(bus) \in Nat
    BY BusFinite, FS_CardinalityType DEF ManifestInv, ManifestTypeOK
  <2> DEFINE below == {x \in bus : x < scan.next}
  <2>2. Cardinality(below) = Len(scan.found)
    BY DEF ManifestInv, Before
  <2>3. Cardinality(below) <= Cardinality(bus)
    <3>1. below \subseteq bus
      OBVIOUS
    <3> HIDE DEF below
    <3> QED
      BY <2>1, <3>1, FS_Subset
  <2>4. (\A a \in bus : ~(a >= scan.next)) \/ Len(scan.found) >= MaxDevices
    BY <2>1 DEF SaveManifest, Scanning, MaxDevices
  <2>5. (\A a \in bus : ~(a >= scan.next)) => below = bus
    <3>1. ASSUME NEW x \in bus, ~(x >= scan.next) PROVE x < scan.next
      <4>1. x \in Int
        BY <2>1, BusFinite
      <4>2. scan.next \in Int
        BY NextIsInt
      <4> QED
        BY <3>1, <4>1, <4>2
    <3> QED
      BY <3>1
  <2>6. Len(scan.found) = IF Cardinality(bus) > MaxDevices THEN MaxDevices ELSE Cardinality(bus)
    <3> HIDE DEF below
    <3> QED
      BY <2>1, <2>2, <2>3, <2>4, <2>5 DEF ManifestInv, MaxDevices
  <2>7. Describes(scan.found, bus)
    BY <2>6 DEF ManifestInv, Describes, RowOf
  <2>8. bus # {}
    <3>1. 1 \in 1 .. Len(scan.found)
      BY <1>3, <2>1
    <3> QED
      BY <3>1 DEF ManifestInv
  <2>9. SavedDescribes'
    BY <1>3, <2>1, <2>7, <2>8 DEF SavedDescribes
  <2>10. ManifestTypeOK'
    BY <1>1, <1>3, <2>1 DEF ManifestInv, ManifestTypeOK
  <2>11. scan' = scan /\ bus' = bus /\ json' = json
    BY <1>1
  <2> QED
    BY <2>9, <2>10, <2>11 DEF ManifestInv, Before, RowOf
<1> QED
  BY <1>2, <1>3 DEF SaveManifest

LEMMA ManifestStep == ManifestInv /\ [Next]_vars => ManifestInv'
<1> SUFFICES ASSUME ManifestInv, [Next]_vars PROVE ManifestInv'
  OBVIOUS
<1>1. ASSUME UNCHANGED manifestVars PROVE ManifestInv'
  BY <1>1, ManifestKeeps DEF manifestVars
<1>2. ASSUME NEW o \in {"opened", "erased", "fails"}, NvsInit(o) PROVE ManifestInv'
  BY <1>2, ManifestKeeps DEF NvsInit
<1>3. CASE ScanBus
  BY <1>3, ProbeKeeps, WriteKeeps DEF ScanBus
<1>4. ASSUME NEW ok \in BOOLEAN, EndManifest(ok) PROVE ManifestInv'
  <2>1. (ok /\ "nvs" \in ready) \in BOOLEAN
    OBVIOUS
  <2> QED
    BY <1>4, <2>1, SaveKeeps DEF EndManifest
<1>5. CASE Restart
  BY <1>5, ManifestFresh DEF Restart, ManifestRestart
<1>6. CASE BoardAuth \/ LoadConfig \/ InitModule \/ Advertise
  BY <1>6, <1>1 DEF BoardAuth, LoadConfig, InitModule, Advertise
<1>7. ASSUME NEW ok \in BOOLEAN, BleInit(ok) \/ WifiStart(ok) \/ LoadProgram(ok) PROVE ManifestInv'
  BY <1>7, <1>1 DEF BleInit, WifiStart, LoadProgram
<1>8. CASE MainLoop \/ BlePeer \/ Payload \/ GotIp \/ Lost \/ OnDisconnected \/ Pair \/ UNCHANGED vars
  BY <1>8, <1>1 DEF MainLoop, BlePeer, Payload, GotIp, Lost, OnDisconnected, Pair, vars
<1>9. CASE EraseManifest
  BY <1>9, ManifestKeeps DEF EraseManifest
<1> QED
  BY <1>2, <1>3, <1>4, <1>5, <1>6, <1>7, <1>8, <1>9 DEF Next, BootStep

LEMMA ManifestStart == BootInit => ManifestInv
<1> SUFFICES ASSUME BootInit PROVE ManifestInv
  OBVIOUS
<1>1. bus \in Buses /\ scan = NoScan /\ json = NoJson /\ saved = None
  BY DEF BootInit, ManifestInit
<1>2. {x \in bus : x < 8} = {}
  BY <1>1, BusFinite DEF Addresses
<1>3. Before(scan.next, bus) = 0
  BY <1>1, <1>2, FS_EmptySet DEF Before, NoScan
<1>4. ManifestTypeOK /\ SavedDescribes
  BY <1>1 DEF ManifestTypeOK, SavedDescribes, NoScan, NoJson, Header
<1> QED
  BY <1>1, <1>3, <1>4 DEF ManifestInv, NoScan, NoJson, Header, MaxDevices

\* Whatever is on the bus, the manifest and its trailer end inside the buffer,
\* and what NVS holds is the manifest of one bus, its devices in order
\* (boot_manifest.c:140-290).
THEOREM ManifestIsSound == Spec => []ManifestSound
<1>1. ManifestInv => ManifestSound
  <2> SUFFICES ASSUME ManifestInv PROVE ManifestSound
    OBVIOUS
  <2>1. /\ json.written \in Nat /\ json.offset \in Nat /\ Len(scan.found) \in Nat
        /\ json.written <= Len(scan.found) /\ Len(scan.found) <= 16
        /\ json.offset <= 54 + 89 * json.written
    BY DEF ManifestInv, ManifestTypeOK, MaxDevices, Header
  <2>2. json.offset + 13 < 2048
    BY <2>1
  <2> QED
    BY <2>1, <2>2 DEF ManifestInv, ManifestSound, ManifestFits, MaxDevices, Trailer, JsonMax
<1> QED
  BY ManifestStart, ManifestStep, <1>1, PTL DEF Spec

-----------------------------------------------------------------------------
(* The configuration.  Behind a save that is under way everything is there: *)
(* the entries it has written are its own, or since NVS was last empty one  *)
(* was refused.                                                             *)

Entries == Fields \cup {"provisioned"}

SavedUpTo(n) ==
  /\ Len(call.left) = 6 - n
  /\ \A i \in 1 .. 6 - n : call.left[i] = WriteOrder[n + i]
  /\ torn \/ \A i \in 1 .. n : nvs[WriteOrder[i]] = call.cfg

ConfigInv ==
  /\ ConfigTypeOK
  /\ PairedWhole
  /\ call.op = "save" => call.cfg \in Configs /\ \E n \in 0 .. 5 : SavedUpTo(n)

LEMMA OrderTable ==
  /\ Len(WriteOrder) = 6 /\ WriteOrder \in Seq(Entries)
  /\ \A i \in 1 .. 6 : WriteOrder[i] \in Entries
  /\ \A i \in 1 .. 5 : WriteOrder[i] # "provisioned"
  /\ WriteOrder[6] = "provisioned"
  /\ \A f \in Fields : \E i \in 1 .. 5 : WriteOrder[i] = f
  /\ "provisioned" \notin Fields
<1>1. /\ WriteOrder[1] = "backend_url" /\ WriteOrder[2] = "device_id"
      /\ WriteOrder[3] = "auth_token" /\ WriteOrder[4] = "wifi_ssid"
      /\ WriteOrder[5] = "wifi_pass" /\ WriteOrder[6] = "provisioned"
      /\ Len(WriteOrder) = 6
  BY DEF WriteOrder
<1>2. WriteOrder \in Seq(Entries)
  BY DEF WriteOrder, Entries, Fields
<1>3. \A i \in 1 .. 6 : WriteOrder[i] \in Entries
  <2>1. ASSUME NEW i \in 1 .. 6 PROVE i = 1 \/ i = 2 \/ i = 3 \/ i = 4 \/ i = 5 \/ i = 6
    OBVIOUS
  <2> QED
    BY <1>1, <2>1 DEF Entries, Fields
<1>4. \A i \in 1 .. 5 : WriteOrder[i] # "provisioned"
  <2>1. ASSUME NEW i \in 1 .. 5 PROVE i = 1 \/ i = 2 \/ i = 3 \/ i = 4 \/ i = 5
    OBVIOUS
  <2> QED
    BY <1>1, <2>1
<1>5. \A f \in Fields : \E i \in 1 .. 5 : WriteOrder[i] = f
  <2> SUFFICES ASSUME NEW f \in Fields PROVE \E i \in 1 .. 5 : WriteOrder[i] = f
    OBVIOUS
  <2>1. CASE f = "backend_url"
    BY <1>1, <2>1
  <2>2. CASE f = "device_id"
    BY <1>1, <2>2
  <2>3. CASE f = "auth_token"
    BY <1>1, <2>3
  <2>4. CASE f = "wifi_ssid"
    BY <1>1, <2>4
  <2>5. CASE f = "wifi_pass"
    BY <1>1, <2>5
  <2> QED
    BY <2>1, <2>2, <2>3, <2>4, <2>5 DEF Fields
<1> QED
  BY <1>1, <1>2, <1>3, <1>4, <1>5 DEF Fields

LEMMA BlankIs ==
  /\ Blank \in [Entries -> Configs \cup {Default}]
  /\ \A e \in Entries : Blank[e] = Default
  /\ "provisioned" \in Entries
BY DEF Blank, Entries

LEMMA IdleIs == Idle.op = "none" /\ Idle.left = <<>> /\ <<>> \in Seq(Entries)
BY DEF Idle

LEMMA SaveStart == \A c \in Configs : ConfigInv /\ BeginSave(c) => ConfigInv'
<1> SUFFICES ASSUME NEW c \in Configs, ConfigInv, BeginSave(c) PROVE ConfigInv'
  OBVIOUS
<1>1. /\ call.op = "none" /\ call' = [op |-> "save", cfg |-> c, left |-> WriteOrder]
      /\ UNCHANGED <<nvs, config, torn, mixed>>
  BY DEF BeginSave
<1>2. call'.op = "save" /\ call'.cfg = c /\ call'.left = WriteOrder
  BY <1>1
<1>3. SavedUpTo(0)'
  <2>1. \A i \in 1 .. 6 - 0 : call'.left[i] = WriteOrder[0 + i]
    BY <1>2
  <2>2. Len(call'.left) = 6 - 0
    BY <1>2, OrderTable
  <2>3. \A i \in 1 .. 0 : FALSE
    OBVIOUS
  <2> QED
    BY <2>1, <2>2, <2>3 DEF SavedUpTo
<1>4. ConfigTypeOK'
  BY <1>1, <1>2, OrderTable DEF ConfigInv, ConfigTypeOK, Entries
<1>5. PairedWhole'
  BY <1>1, <1>2 DEF ConfigInv, PairedWhole, Provisioned
<1> QED
  BY <1>2, <1>3, <1>4, <1>5 DEF ConfigInv

LEMMA EntryKeeps == \A room \in BOOLEAN : ConfigInv /\ SetEntry(room) => ConfigInv'
<1> SUFFICES ASSUME NEW room \in BOOLEAN, ConfigInv, SetEntry(room) PROVE ConfigInv'
  OBVIOUS
<1>1. PICK n \in 0 .. 5 : SavedUpTo(n)
  BY DEF ConfigInv, SetEntry
<1> DEFINE e == WriteOrder[n + 1]
<1>2. /\ call.op = "save" /\ call.cfg \in Configs /\ call.cfg # Default
      /\ call.left \in Seq(Entries) /\ Len(call.left) = 6 - n
      /\ nvs \in [Entries -> Configs \cup {Default}] /\ torn \in BOOLEAN /\ mixed \in BOOLEAN
  BY <1>1, ConfigAssumption DEF ConfigInv, ConfigTypeOK, SetEntry, SavedUpTo, Entries
<1>3. Head(call.left) = e /\ e \in Entries
  <2>1. 1 \in 1 .. 6 - n /\ n + 1 \in 1 .. 6
    OBVIOUS
  <2>2. Head(call.left) = call.left[1]
    BY <1>2
  <2>3. call.left[1] = WriteOrder[n + 1]
    BY <1>1, <2>1 DEF SavedUpTo
  <2> QED
    BY <2>1, <2>2, <2>3, OrderTable
<1>4. /\ nvs' = IF room THEN [nvs EXCEPT ![e] = call.cfg] ELSE nvs
      /\ torn' = (torn \/ ~room) /\ mixed' = (mixed /\ ~(Len(call.left) = 1))
      /\ call' = IF Len(call.left) = 1 THEN Idle ELSE [call EXCEPT !.left = Tail(@)]
      /\ UNCHANGED config
  BY <1>3 DEF SetEntry
<1> HIDE DEF e
<1>5. /\ nvs' \in [Entries -> Configs \cup {Default}]
      /\ \A x \in Entries : nvs[x] # Default => nvs'[x] # Default
      /\ \A x \in Entries : x # e => nvs'[x] = nvs[x]
      /\ torn' \/ nvs'[e] = call.cfg
      /\ torn' \in BOOLEAN /\ (torn => torn') /\ mixed' \in BOOLEAN
  BY <1>2, <1>3, <1>4
<1>6. \A i \in 1 .. n + 1 : torn' \/ nvs'[WriteOrder[i]] = call.cfg
  <2> SUFFICES ASSUME NEW i \in 1 .. n + 1 PROVE torn' \/ nvs'[WriteOrder[i]] = call.cfg
    OBVIOUS
  <2>1. CASE i = n + 1
    BY <2>1, <1>5 DEF e
  <2>2. CASE i \in 1 .. n
    <3>1. torn \/ nvs[WriteOrder[i]] = call.cfg
      BY <2>2, <1>1 DEF SavedUpTo
    <3>2. WriteOrder[i] \in Entries
      BY OrderTable
    <3> QED
      BY <3>1, <3>2, <1>5, <1>2
  <2> QED
    BY <2>1, <2>2
<1>7. PairedWhole'
  <2>1. ASSUME n = 5, ~torn', NEW x \in Entries PROVE nvs'[x] = call.cfg
    <3>1. \E i \in 1 .. 6 : WriteOrder[i] = x
      BY OrderTable DEF Entries
    <3> QED
      BY <2>1, <3>1, <1>6
  <2>2. ASSUME Provisioned', ~torn', NEW f \in Fields PROVE nvs'[f] # Default
    <3>1. CASE n = 5
      BY <3>1, <2>1, <2>2, <1>2 DEF Entries
    <3>2. CASE n \in 0 .. 4
      <4>1. e # "provisioned"
        BY <3>2, OrderTable DEF e
      <4>2. Provisioned
        BY <4>1, <2>2, <1>5 DEF Entries, Provisioned
      <4>3. nvs[f] # Default
        BY <4>2, <2>2, <1>5, <1>2 DEF ConfigInv, PairedWhole
      <4> QED
        BY <4>3, <1>5 DEF Entries
    <3> QED
      BY <3>1, <3>2
  <2>3. ASSUME ~torn', call'.op = "none" PROVE OnePairing'
    <3>1. Len(call.left) = 1
      BY <2>3, <1>2, <1>4 DEF ConfigInv, ConfigTypeOK
    <3>2. 6 - n = 1
      BY <3>1, <1>2, Zenon
    <3>3. n = 5
      BY <3>2
    <3> QED
      BY <2>1, <2>3, <3>3 DEF OnePairing, Entries
  <2> QED
    BY <2>2, <2>3 DEF PairedWhole
<1>8. CASE Len(call.left) = 1
  <2>1. call' = Idle
    BY <1>4, <1>8
  <2>2. ConfigTypeOK'
    BY <2>1, <1>4, <1>5, IdleIs DEF ConfigInv, ConfigTypeOK, Entries
  <2> QED
    BY <2>1, <2>2, <1>7, IdleIs DEF ConfigInv
<1>9. CASE Len(call.left) # 1
  <2>1. /\ n + 1 \in 0 .. 5 /\ call'.op = call.op /\ call'.cfg = call.cfg
        /\ call'.left = Tail(call.left)
    <3>1. call' = [call EXCEPT !.left = Tail(@)]
      BY <1>4, <1>9
    <3> QED
      BY <3>1, <1>2, <1>9 DEF ConfigInv, ConfigTypeOK
  <2>2. call'.left \in Seq(Entries) /\ Len(call'.left) = 6 - (n + 1)
    BY <2>1, <1>2
  <2>3. ASSUME NEW i \in 1 .. 6 - (n + 1) PROVE call'.left[i] = WriteOrder[(n + 1) + i]
    <3>1. call'.left[i] = call.left[i + 1]
      BY <2>1, <2>2, <1>2
    <3>2. i + 1 \in 1 .. 6 - n /\ n + (i + 1) = (n + 1) + i
      OBVIOUS
    <3>3. call.left[i + 1] = WriteOrder[n + (i + 1)]
      BY <3>2, <1>1 DEF SavedUpTo
    <3> QED
      BY <3>1, <3>2, <3>3
  <2>4. SavedUpTo(n + 1)'
    BY <2>1, <2>2, <2>3, <1>6 DEF SavedUpTo
  <2>5. ConfigTypeOK'
    BY <2>1, <2>2, <1>2, <1>4, <1>5 DEF ConfigInv, ConfigTypeOK, Entries
  <2> QED
    BY <2>1, <2>4, <2>5, <1>2, <1>7 DEF ConfigInv
<1> QED
  BY <1>8, <1>9

LEMMA ResetKeeps ==
  ASSUME ConfigInv, BeginReset \/ EndReset \/ \E e \in DOMAIN nvs : EraseEntry(e)
  PROVE  ConfigInv'
<1>1. nvs \in [Entries -> Configs \cup {Default}]
  BY DEF ConfigInv, ConfigTypeOK, Entries
<1>2. CASE BeginReset
  <2>1. call' = [Idle EXCEPT !.op = "reset"] /\ UNCHANGED <<nvs, config, torn, mixed>>
    BY <1>2 DEF BeginReset
  <2>2. call'.op = "reset" /\ call'.left = <<>>
    BY <2>1 DEF Idle
  <2> QED
    BY <2>1, <2>2, IdleIs DEF ConfigInv, ConfigTypeOK, PairedWhole, Provisioned, OnePairing, Entries
<1>3. CASE EndReset
  <2>1. nvs = Blank /\ call' = Idle /\ torn' = FALSE /\ mixed' = FALSE /\ UNCHANGED <<nvs, config>>
    BY <1>3 DEF EndReset
  <2>2. nvs'["provisioned"] = Default
    BY <2>1, BlankIs
  <2> QED
    BY <2>1, <2>2, IdleIs DEF ConfigInv, ConfigTypeOK, PairedWhole, Provisioned, OnePairing, Entries
<1>4. ASSUME NEW e \in DOMAIN nvs, EraseEntry(e) PROVE ConfigInv'
  <2>1. call.op = "reset" /\ nvs' = [nvs EXCEPT ![e] = Default] /\ UNCHANGED <<config, call, torn, mixed>>
    BY <1>4 DEF EraseEntry
  <2>2. nvs' \in [Entries -> Configs \cup {Default}]
    BY <1>1, <2>1
  <2> QED
    BY <2>1, <2>2 DEF ConfigInv, ConfigTypeOK, PairedWhole, Provisioned, OnePairing, Entries
<1> QED
  BY <1>2, <1>3, <1>4

LEMMA ConfigStart == BootInit => ConfigInv
<1> SUFFICES ASSUME BootInit PROVE ConfigInv
  OBVIOUS
<1>1. nvs = Blank /\ config = Blank /\ call = Idle /\ torn = FALSE /\ mixed = FALSE
  BY DEF BootInit, ConfigInit
<1>2. nvs["provisioned"] = Default
  BY <1>1, BlankIs
<1> QED
  BY <1>1, <1>2, BlankIs, IdleIs DEF ConfigInv, ConfigTypeOK, PairedWhole, Provisioned, OnePairing, Entries

\* Between two starts the configuration is only changed once all steps are over.
PairInv ==
  /\ StepInv
  /\ ConfigInv
  /\ call.op # "none" => pc = 24

LEMMA PairStep == PairInv /\ [Next]_vars => PairInv'
<1> SUFFICES ASSUME PairInv, [Next]_vars PROVE PairInv'
  OBVIOUS
<1>1. StepInv'
  BY StepStep DEF PairInv
<1>2. pc \in 1 .. 24 /\ StepInv /\ ConfigInv /\ (call.op # "none" => pc = 24)
  BY DEF PairInv, StepInv
<1>3. ASSUME UNCHANGED configVars, pc' = pc \/ pc \in 1 .. 23 PROVE PairInv'
  <2>1. ConfigInv'
    BY <1>2, <1>3 DEF configVars, ConfigInv, ConfigTypeOK, PairedWhole, Provisioned, OnePairing, SavedUpTo
  <2>2. call'.op # "none" => pc' = 24
    BY <1>2, <1>3 DEF configVars
  <2> QED
    BY <1>1, <2>1, <2>2 DEF PairInv
<1>4. ASSUME NEW o \in {"opened", "erased", "fails"}, NvsInit(o) PROVE PairInv'
  <2>1. pc = 1 /\ UNCHANGED <<config, call>>
    BY <1>4, StepPlaces DEF NvsInit
  <2>2. call.op = "none" /\ call'.op = "none"
    BY <1>2, <2>1
  <2>3. CASE UNCHANGED <<nvs, torn, mixed>>
    <3>1. UNCHANGED configVars
      BY <2>1, <2>3 DEF configVars
    <3> QED
      BY <3>1, <2>1, <1>3
  <2>4. CASE nvs' = Blank /\ torn' = FALSE /\ mixed' = FALSE
    <3>1. nvs'["provisioned"] = Default
      BY <2>4, BlankIs
    <3>2. ConfigInv'
      BY <1>2, <2>1, <2>2, <2>4, <3>1, BlankIs DEF ConfigInv, ConfigTypeOK, PairedWhole, Provisioned, OnePairing, Entries
    <3> QED
      BY <1>1, <2>2, <3>2 DEF PairInv
  <2> QED
    BY <1>4, <2>3, <2>4 DEF NvsInit
<1>5. CASE LoadConfig
  <2>1. pc \in 1 .. 23 /\ UNCHANGED <<nvs, call, torn, mixed>> /\ (config' = nvs \/ config' = Blank)
    BY <1>5, StepsTable DEF LoadConfig, Load, At
  <2>2. call.op = "none" /\ call'.op = "none"
    BY <1>2, <2>1
  <2>3. ConfigInv'
    BY <1>2, <2>1, <2>2, BlankIs DEF ConfigInv, ConfigTypeOK, PairedWhole, Provisioned, OnePairing, Entries
  <2> QED
    BY <1>1, <2>2, <2>3 DEF PairInv
<1>6. CASE Restart
  <2>1. /\ config' = Blank /\ call' = Idle /\ torn' = (torn \/ call.op = "reset") /\ UNCHANGED nvs
        /\ mixed' = (mixed \/ (call.op = "save" /\ nvs["provisioned"] # Default))
    BY <1>6 DEF Restart, ConfigRestart
  <2>2. call'.op = "none"
    BY <2>1, IdleIs
  <2>3. ConfigInv'
    BY <1>2, <2>1, <2>2, BlankIs, IdleIs DEF ConfigInv, ConfigTypeOK, PairedWhole, Provisioned, OnePairing, Entries
  <2> QED
    BY <1>1, <2>2, <2>3 DEF PairInv
<1>7. CASE Pair
  <2>1. pc = 24 /\ pc' = pc /\ ConfigNext
    <3>1. pc > Len(Steps) /\ Len(Steps) = 23
      BY <1>7, StepsTable DEF Pair, Running
    <3>2. pc = 24
      BY <1>2, <3>1
    <3>3. pc' = pc /\ ConfigNext
      BY <1>7 DEF Pair, bootVars
    <3> QED
      BY <3>2, <3>3
  <2>2. ConfigInv'
    BY <2>1, <1>2, SaveStart, EntryKeeps, ResetKeeps DEF ConfigNext
  <2> QED
    BY <1>1, <2>1, <2>2 DEF PairInv
<1>8. CASE BoardAuth \/ InitModule \/ Advertise \/ ScanBus
  <2>1. UNCHANGED configVars /\ pc \in 1 .. 23
    BY <1>8, StepsTable DEF BoardAuth, InitModule, Advertise, ScanBus, At
  <2> QED
    BY <2>1, <1>3
<1>9. ASSUME NEW ok \in BOOLEAN, EndManifest(ok) \/ BleInit(ok) \/ WifiStart(ok) \/ LoadProgram(ok)
      PROVE  PairInv'
  <2>1. UNCHANGED configVars /\ pc \in 1 .. 23
    BY <1>9, StepsTable DEF EndManifest, BleInit, WifiStart, LoadProgram, At
  <2> QED
    BY <2>1, <1>3
<1>10. CASE MainLoop \/ BlePeer \/ Payload \/ GotIp \/ Lost \/ OnDisconnected \/ EraseManifest \/ UNCHANGED vars
  <2>1. UNCHANGED configVars /\ pc' = pc
    BY <1>10 DEF MainLoop, BlePeer, Payload, GotIp, Lost, OnDisconnected, EraseManifest, vars, bootVars
  <2> QED
    BY <2>1, <1>3
<1> QED
  BY <1>4, <1>5, <1>6, <1>7, <1>8, <1>9, <1>10 DEF Next, BootStep

LEMMA PairStart == BootInit => PairInv
BY StepInit, ConfigStart, IdleIs DEF PairInv, BootInit, ConfigInit

\* Unless an entry was refused or a reset was cut off, a device that counts as paired has
\* every entry, wherever the power failed; and unless a save over an earlier pairing was
\* cut off too, all of them are of one pairing when no save is under way
\* (device_config.c:61-96).
THEOREM PairingIsWhole == Spec => []PairedWhole
<1>1. PairInv => PairedWhole
  BY DEF PairInv, ConfigInv
<1> QED
  BY PairStart, PairStep, <1>1, PTL DEF Spec

\* Whatever fails, a payload that arrives while the device starts finds what its
\* deployment uses, and all of the start keeps its types (app_main.c:200-338).
THEOREM ServesReady == Spec => []ServesWhenReady
<1> DEFINE Inv == PairInv /\ ManifestInv
<1>1. BootInit => Inv
  BY PairStart, ManifestStart
<1>2. Inv /\ [Next]_vars => Inv'
  BY PairStep, ManifestStep
<1>3. Inv => ServesWhenReady
  <2> SUFFICES ASSUME PairInv, ManifestInv PROVE ServesWhenReady
    OBVIOUS
  <2>1. ManifestTypeOK /\ ConfigTypeOK
    BY DEF PairInv, ManifestInv, ConfigInv
  <2>2. /\ pc \in 1 .. Len(Steps) + 1 /\ ready \subseteq {Steps[i] : i \in 1 .. Len(Steps)}
        /\ ble \in {"off", "idle", "advertising", "connected"}
        /\ wifi \in {"off", "joining", "lost", "online"}
        /\ given \subseteq Uses /\ starts \in 0 .. MaxRestarts
    <3>1. Len(Steps) = 23
      BY StepsTable
    <3>2. StepInv
      BY DEF PairInv
    <3>3. pc \in 1 .. Len(Steps) + 1
      BY <3>1, <3>2 DEF StepInv
    <3>4. ready \subseteq {Steps[i] : i \in 1 .. Len(Steps)}
      BY <3>1, <3>2 DEF StepInv
    <3> QED
      BY <3>2, <3>3, <3>4 DEF StepInv
  <2>3. ReadyWhenGiven
    BY DEF PairInv, StepInv, ReadyWhenGiven
  <2> QED
    BY <2>1, <2>2, <2>3 DEF ServesWhenReady, BootTypeOK
<1> QED
  BY <1>1, <1>2, <1>3, PTL DEF Spec

-----------------------------------------------------------------------------
(* The rate limiter.  The distance of two readings of the clock is the time *)
(* between them as long as that is less than a turn of the clock.           *)

LimiterInv ==
  /\ limiter \in [now : 0 .. Word - 1, last : 0 .. Word - 1, since : 0 .. Word,
                  gap : 0 .. Word, refused : BOOLEAN]
  /\ LimiterExact
  /\ limiter.since < Word =>
        \/ limiter.now = limiter.last + limiter.since
        \/ limiter.now = limiter.last + limiter.since - Word

LEMMA ModWord ==
  /\ \A x \in 0 .. Word - 1 : x % Word = x
  /\ \A x \in Word .. 2 * Word - 1 : x % Word = x - Word
  /\ \A x \in Int : -Word < x /\ x < 0 => x % Word = x + Word
<1> Word \in Nat \ {0}
  BY ServicesAssumption
<1>1. ASSUME NEW x \in 0 .. Word - 1 PROVE x % Word = x
  OBVIOUS
<1>2. ASSUME NEW x \in Word .. 2 * Word - 1 PROVE x % Word = x - Word
  OBVIOUS
<1>3. ASSUME NEW x \in Int, -Word < x, x < 0 PROVE x % Word = x + Word
  BY <1>3
<1> QED
  BY <1>1, <1>2, <1>3

LEMMA LimiterStep == \A pause \in 0 .. Word : LimiterInv /\ LimiterCheck(pause) => LimiterInv'
<1> SUFFICES ASSUME NEW pause \in 0 .. Word, LimiterInv, LimiterCheck(pause) PROVE LimiterInv'
  OBVIOUS
<1> DEFINE now == (limiter.now + pause) % Word
           since == IF limiter.since + pause > Word THEN Word ELSE limiter.since + pause
<1>1. limiter' = IF Allows(now)
                 THEN [now |-> now, last |-> now, since |-> 0, gap |-> since, refused |-> FALSE]
                 ELSE [limiter EXCEPT !.now = now, !.since = since, !.refused = TRUE]
  BY DEF LimiterCheck
<1>2. /\ Word \in Nat \ {0} /\ Interval \in 1 .. Word - 1
      /\ limiter.now \in 0 .. Word - 1 /\ limiter.last \in 0 .. Word - 1
      /\ limiter.since \in 0 .. Word
  BY ServicesAssumption DEF LimiterInv
<1>3. now \in 0 .. Word - 1 /\ (now = limiter.now + pause \/ now = limiter.now + pause - Word)
  <2>1. CASE limiter.now + pause \in 0 .. Word - 1
    BY <2>1, ModWord
  <2>2. CASE limiter.now + pause \in Word .. 2 * Word - 1
    <3> DEFINE sum == limiter.now + pause
    <3>1. sum % Word = sum - Word
      <4> HIDE DEF sum
      <4> QED
        BY <2>2, ModWord DEF sum
    <3> QED
      BY <2>2, <3>1, <1>2
  <2> QED
    BY <1>2, <2>1, <2>2
<1>4. since \in 0 .. Word /\ (since < Word => since = limiter.since + pause)
  BY <1>2
<1> HIDE DEF now, since
<1>5. since < Word => now = limiter.last + since \/ now = limiter.last + since - Word
  <2> SUFFICES ASSUME since < Word
               PROVE  now = limiter.last + since \/ now = limiter.last + since - Word
    OBVIOUS
  <2>1. limiter.since < Word /\ since = limiter.since + pause
    BY <1>2, <1>4
  <2>2. \/ limiter.now = limiter.last + limiter.since
        \/ limiter.now = limiter.last + limiter.since - Word
    BY <2>1 DEF LimiterInv
  <2>3. CASE limiter.now = limiter.last + limiter.since
    BY <1>2, <1>3, <1>4, <2>1, <2>3
  <2>4. CASE limiter.now = limiter.last + limiter.since - Word
    <3>1. now # limiter.now + pause - Word
      BY <1>2, <1>3, <1>4, <2>1, <2>4
    <3> QED
      BY <1>2, <1>3, <1>4, <2>1, <2>4, <3>1
  <2> QED
    BY <2>2, <2>3, <2>4
<1>6. since < Word => (now - limiter.last) % Word = since
  <2> SUFFICES ASSUME since < Word PROVE (now - limiter.last) % Word = since
    OBVIOUS
  <2>1. since \in 0 .. Word - 1
    BY <1>2, <1>4
  <2>2. CASE now = limiter.last + since
    <3>1. now - limiter.last = since
      BY <2>1, <2>2, <1>2
    <3> QED
      BY <2>1, <3>1, ModWord
  <2>3. CASE now = limiter.last + since - Word
    <3>1. /\ now - limiter.last \in Int /\ -Word <= now - limiter.last
          /\ now - limiter.last < 0 /\ (now - limiter.last) + Word = since
      BY <2>1, <2>3, <1>2, <1>3
    <3>2. CASE now - limiter.last = -Word
      BY <2>1, <3>1, <3>2, ServicesAssumption
    <3>3. CASE -Word < now - limiter.last
      BY <3>1, <3>3, ModWord
    <3> QED
      BY <1>2, <3>1, <3>2, <3>3
  <2> QED
    BY <1>5, <2>2, <2>3
<1>7. CASE Allows(now)
  <2>1. since >= Interval
    BY <1>2, <1>4, <1>6, <1>7 DEF Allows
  <2>2. limiter' = [now |-> now, last |-> now, since |-> 0, gap |-> since, refused |-> FALSE]
    BY <1>1, <1>7
  <2>3. /\ limiter'.now = now /\ limiter'.last = now /\ limiter'.since = 0
        /\ limiter'.gap = since /\ limiter'.refused = FALSE
        /\ limiter' \in [now : 0 .. Word - 1, last : 0 .. Word - 1, since : 0 .. Word,
                         gap : 0 .. Word, refused : BOOLEAN]
    BY <2>2, <1>2, <1>3, <1>4
  <2> QED
    BY <2>1, <2>3, <1>2, <1>3 DEF LimiterInv, LimiterExact
<1>8. CASE ~Allows(now)
  <2>1. since < Word => since < Interval
    BY <1>2, <1>4, <1>6, <1>8 DEF Allows
  <2>2. limiter' = [limiter EXCEPT !.now = now, !.since = since, !.refused = TRUE]
    BY <1>1, <1>8
  <2>3. limiter \in [now : 0 .. Word - 1, last : 0 .. Word - 1, since : 0 .. Word,
                     gap : 0 .. Word, refused : BOOLEAN]
    BY DEF LimiterInv
  <2>4. /\ limiter'.now = now /\ limiter'.last = limiter.last /\ limiter'.since = since
        /\ limiter'.gap = limiter.gap /\ limiter'.refused = TRUE
        /\ limiter' \in [now : 0 .. Word - 1, last : 0 .. Word - 1, since : 0 .. Word,
                         gap : 0 .. Word, refused : BOOLEAN]
    BY <2>2, <2>3, <1>3, <1>4
  <2>5. LimiterExact'
    BY <2>1, <2>4, <1>2, <1>4 DEF LimiterInv, LimiterExact
  <2> QED
    BY <2>4, <2>5, <1>5 DEF LimiterInv
<1> QED
  BY <1>7, <1>8

-----------------------------------------------------------------------------
(* Faults.  A type that was raised is counted, or a task that raised it is  *)
(* on its way to count it, and likewise for the total.                      *)

Stages == {"away", "count", "total", "add", "publish", "clear"}

Traced ==
  ~raised.cleared =>
    /\ \A t \in Tasks :
          /\ raiser[t].at # "clear"
          /\ raiser[t].at = "count" => raiser[t].seen < raised.count[raiser[t].type]
    /\ \A f \in Faults :
          /\ faults.count[f] <= raised.count[f]
          /\ raised.count[f] > 0 =>
                /\ \/ faults.count[f] > 0
                   \/ \E t \in Tasks : raiser[t].at = "count" /\ raiser[t].type = f
                /\ faults.total > 0 \/ \E t \in Tasks : raiser[t].at \in {"count", "total", "add"}

Told ==
  \A t \in Tasks :
    /\ Len(told[t].to) <= handlers.count
    /\ \A i \in 1 .. Len(told[t].to) : told[t].to[i] = handlers.slot[i]
    /\ Len(told[t].found) <= handlers.count
    /\ raiser[t].at \in {"count", "total", "add"} => raiser[t].next = 1
    /\ raiser[t].at = "publish" => raiser[t].next = Len(told[t].to) + 1
    /\ raiser[t].at \in {"away", "clear"} /\ told[t].found # <<>> =>
          Len(told[t].to) >= Len(told[t].found)

EventTypes ==
  /\ handlers \in [slot : Seq(Handlers), count : Nat]
  /\ handlers.count <= Len(handlers.slot) /\ Len(handlers.slot) <= MaxSubscribers
  /\ faults \in [count : [Faults -> Nat], total : Nat]
  /\ raised \in [count : [Faults -> Nat], cleared : BOOLEAN]
  /\ raiser \in [Tasks -> [at : Stages, type : Faults \cup {"none"}, seen : Nat, next : Nat]]
  /\ \A t \in Tasks : raiser[t].at = "count" => raiser[t].type \in Faults
  /\ told \in [Tasks -> [to : Seq(Handlers), found : Seq(Handlers)]]

EventInv == EventTypes /\ Traced /\ Told

RestInv ==
  /\ store \in [type : [0 .. Indexes - 1 -> {"null", "int", "bool"}], count : 0 .. Indexes]
  /\ \A i \in 0 .. Indexes - 1 : store.type[i] # "null" => i < store.count
  /\ mqtt \in [client : {"none", "started", "connected"}, connected : BOOLEAN]
  /\ mqtt.connected => mqtt.client = "connected"

ServicesInv == LimiterInv /\ EventInv /\ RestInv

LEMMA Subscribed ==
  ASSUME EventInv, CountSlot \/ \E h \in Handlers : FillSlot(h)
  PROVE  EventInv'
<1>1. CASE CountSlot
  <2>1. /\ handlers' = [handlers EXCEPT !.count = @ + 1] /\ Len(handlers.slot) > handlers.count
        /\ UNCHANGED <<faults, raiser, raised, told>>
    BY <1>1 DEF CountSlot
  <2>2. handlers \in [slot : Seq(Handlers), count : Nat] /\ Len(handlers.slot) \in Nat
    BY DEF EventInv, EventTypes
  <2>3. /\ handlers' \in [slot : Seq(Handlers), count : Nat]
        /\ handlers'.slot = handlers.slot /\ handlers'.count = handlers.count + 1
        /\ handlers'.count <= Len(handlers.slot)
    BY <2>1, <2>2
  <2>4. EventTypes'
    BY <2>1, <2>3 DEF EventInv, EventTypes
  <2>5. Traced'
    BY <2>1 DEF EventInv, Traced
  <2>6. Told'
    <3> SUFFICES ASSUME NEW t \in Tasks
                 PROVE  /\ Len(told[t].to) <= handlers.count + 1
                        /\ Len(told[t].found) <= handlers.count + 1
      BY <2>1, <2>3 DEF EventInv, Told
    <3>1. Len(told[t].to) \in Nat /\ Len(told[t].found) \in Nat
      BY DEF EventInv, EventTypes
    <3> QED
      BY <2>2, <3>1 DEF EventInv, Told
  <2> QED
    BY <2>4, <2>5, <2>6 DEF EventInv
<1>2. ASSUME NEW h \in Handlers, FillSlot(h) PROVE EventInv'
  <2>1. /\ handlers' = [handlers EXCEPT !.slot = Append(@, h)]
        /\ handlers.count < MaxSubscribers /\ Len(handlers.slot) = handlers.count
        /\ UNCHANGED <<faults, raiser, raised, told>>
    BY <1>2 DEF FillSlot
  <2>2. handlers \in [slot : Seq(Handlers), count : Nat] /\ Len(handlers.slot) \in Nat
    BY DEF EventInv, EventTypes
  <2>3. /\ handlers' \in [slot : Seq(Handlers), count : Nat]
        /\ handlers'.slot = Append(handlers.slot, h) /\ handlers'.count = handlers.count
        /\ Len(handlers'.slot) = handlers.count + 1
        /\ \A i \in 1 .. handlers.count : handlers'.slot[i] = handlers.slot[i]
    <3>1. handlers'.slot = Append(handlers.slot, h) /\ handlers'.count = handlers.count
      BY <2>1, <2>2
    <3>2. /\ Append(handlers.slot, h) \in Seq(Handlers)
          /\ Len(Append(handlers.slot, h)) = handlers.count + 1
          /\ \A i \in 1 .. handlers.count : Append(handlers.slot, h)[i] = handlers.slot[i]
      BY <2>1, <2>2
    <3>3. handlers' \in [slot : Seq(Handlers), count : Nat]
      BY <2>1, <2>2, <3>2
    <3> QED
      BY <3>1, <3>2, <3>3
  <2>4. EventTypes'
    BY <2>1, <2>2, <2>3 DEF EventInv, EventTypes, MaxSubscribers
  <2>5. Traced'
    BY <2>1 DEF EventInv, Traced
  <2>6. Told'
    <3> SUFFICES ASSUME NEW t \in Tasks, NEW i \in 1 .. Len(told[t].to)
                 PROVE  told[t].to[i] = handlers'.slot[i]
      BY <2>1, <2>3 DEF EventInv, Told
    <3>1. Len(told[t].to) \in Nat /\ Len(told[t].to) <= handlers.count
      BY DEF EventInv, EventTypes, Told
    <3>2. i \in 1 .. handlers.count
      BY <2>2, <3>1
    <3> QED
      BY <2>3, <3>2 DEF EventInv, Told
  <2> QED
    BY <2>4, <2>5, <2>6 DEF EventInv
<1> QED
  BY <1>1, <1>2

\* The record of task t, when it changes.
LEMMA RaiserTypes ==
  ASSUME EventInv, NEW t \in Tasks
  PROVE  /\ raiser \in [Tasks -> [at : Stages, type : Faults \cup {"none"}, seen : Nat, next : Nat]]
         /\ raiser[t].at \in Stages /\ raiser[t].seen \in Nat /\ raiser[t].next \in Nat
         /\ raiser[t].type \in Faults \cup {"none"}
         /\ faults.count \in [Faults -> Nat] /\ faults.total \in Nat
         /\ raised.count \in [Faults -> Nat] /\ raised.cleared \in BOOLEAN
         /\ told[t].to \in Seq(Handlers) /\ told[t].found \in Seq(Handlers)
         /\ handlers.slot \in Seq(Handlers) /\ handlers.count \in Nat /\ Len(handlers.slot) \in Nat
BY SMTT(20) DEF EventInv, EventTypes

LEMMA RaiseKeeps ==
  ASSUME EventInv, NEW t \in Tasks, NEW f \in Faults, Raise(t, f)
  PROVE  EventInv'
<1> DEFINE n == [at |-> "count", type |-> f, seen |-> faults.count[f], next |-> 1]
<1>1. /\ raiser[t].at = "away" /\ raiser' = [raiser EXCEPT ![t] = n]
      /\ raised' = [raised EXCEPT !.count[f] = @ + 1]
      /\ UNCHANGED <<handlers, faults, told>>
  BY DEF Raise
<1>2. /\ raiser'[t] = n /\ \A u \in Tasks : u # t => raiser'[u] = raiser[u]
      /\ faults.count[f] \in Nat
  BY <1>1, RaiserTypes
<1>3. /\ raised'.cleared = raised.cleared /\ raised'.count[f] = raised.count[f] + 1
      /\ \A g \in Faults : g # f => raised'.count[g] = raised.count[g]
      /\ raised' \in [count : [Faults -> Nat], cleared : BOOLEAN]
  <2>1. raised \in [count : [Faults -> Nat], cleared : BOOLEAN]
    BY DEF EventInv, EventTypes
  <2> QED
    BY <1>1, <2>1
<1>4. EventTypes'
  <2>1. raiser' \in [Tasks -> [at : Stages, type : Faults \cup {"none"}, seen : Nat, next : Nat]]
    BY <1>1, <1>2, RaiserTypes DEF Stages
  <2>2. ASSUME NEW u \in Tasks, raiser'[u].at = "count" PROVE raiser'[u].type \in Faults
    <3>1. CASE u = t
      BY <3>1, <1>2
    <3>2. CASE u # t
      BY <2>2, <3>2, <1>2 DEF EventInv, EventTypes
    <3> QED
      BY <3>1, <3>2
  <2> QED
    BY <1>1, <1>3, <2>1, <2>2 DEF EventInv, EventTypes
<1>5. Traced'
  <2> SUFFICES ASSUME ~raised'.cleared PROVE Traced'
    BY DEF Traced
  <2>1. /\ \A u \in Tasks :
             /\ raiser[u].at # "clear"
             /\ raiser[u].at = "count" => raiser[u].seen < raised.count[raiser[u].type]
        /\ \A g \in Faults :
             /\ faults.count[g] <= raised.count[g]
             /\ raised.count[g] > 0 =>
                   /\ \/ faults.count[g] > 0
                      \/ \E u \in Tasks : raiser[u].at = "count" /\ raiser[u].type = g
                   /\ faults.total > 0 \/ \E u \in Tasks : raiser[u].at \in {"count", "total", "add"}
    BY <1>3 DEF EventInv, Traced
  <2>2. ASSUME NEW g \in Faults
        PROVE  raised.count[g] \in Nat /\ raised'.count[g] \in Nat /\ raised'.count[g] >= raised.count[g]
    <3>1. raised.count[g] \in Nat
      BY RaiserTypes
    <3>2. CASE g = f
      BY <3>1, <3>2, <1>3
    <3>3. CASE g # f
      BY <3>1, <3>3, <1>3
    <3> QED
      BY <3>1, <3>2, <3>3
  <2>3. ASSUME NEW u \in Tasks
        PROVE  /\ raiser'[u].at # "clear"
               /\ raiser'[u].at = "count" => raiser'[u].seen < raised'.count[raiser'[u].type]
    <3>1. CASE u = t
      <4>1. faults.count[f] < raised.count[f] + 1
        BY <2>1, <1>2, <2>2
      <4> QED
        BY <3>1, <1>2, <1>3, <4>1
    <3>2. CASE u # t
      <4>1. raiser'[u] = raiser[u]
        BY <3>2, <1>2
      <4>2. ASSUME raiser[u].at = "count" PROVE raiser[u].seen < raised'.count[raiser[u].type]
        <5>1. raiser[u].type \in Faults /\ raiser[u].seen \in Nat
          BY <4>2 DEF EventInv, EventTypes
        <5>2. raiser[u].seen < raised.count[raiser[u].type]
          BY <4>2, <2>1
        <5> QED
          BY <5>1, <5>2, <2>2
      <4> QED
        BY <4>1, <4>2, <2>1
    <3> QED
      BY <3>1, <3>2
  <2>4. ASSUME NEW g \in Faults
        PROVE  /\ faults.count[g] <= raised'.count[g]
               /\ raised'.count[g] > 0 =>
                   /\ \/ faults.count[g] > 0
                      \/ \E u \in Tasks : raiser'[u].at = "count" /\ raiser'[u].type = g
                   /\ faults.total > 0 \/ \E u \in Tasks : raiser'[u].at \in {"count", "total", "add"}
    <3>1. faults.count[g] <= raised'.count[g]
      BY <2>1, <2>2, RaiserTypes, <1>3
    <3>2. \E u \in Tasks : raiser'[u].at \in {"count", "total", "add"}
      BY <1>2
    <3>3. CASE g = f
      BY <3>1, <3>2, <3>3, <1>2
    <3>4. CASE g # f
      <4>1. raised'.count[g] = raised.count[g]
        BY <1>3, <3>4
      <4>2. ASSUME NEW u \in Tasks, raiser[u].at = "count" PROVE raiser'[u] = raiser[u]
        BY <1>1, <1>2, <4>2
      <4> QED
        BY <2>1, <3>1, <3>2, <4>1, <4>2
    <3> QED
      BY <3>3, <3>4
  <2> QED
    BY <1>1, <2>3, <2>4 DEF Traced
<1>6. Told'
  BY <1>1, <1>2 DEF EventInv, Told
<1> QED
  BY <1>4, <1>5, <1>6 DEF EventInv

\* A task that goes on and leaves a trace behind.
LEMMA TracedMoves ==
  ASSUME EventInv, NEW t \in Tasks, NEW n, raiser' = [raiser EXCEPT ![t] = n],
         n.at \notin {"count", "clear"}, raised' = raised,
         ~raised.cleared => \A f \in Faults :
            faults'.count[f] <= raised.count[f] /\ (faults.count[f] > 0 => faults'.count[f] > 0),
         ~raised.cleared /\ raiser[t].at = "count" => faults'.count[raiser[t].type] > 0,
         \/ faults'.total > 0
         \/ /\ faults'.total = faults.total
            /\ raiser[t].at \in {"count", "total", "add"} => n.at \in {"total", "add"}
  PROVE  Traced'
<1> SUFFICES ASSUME ~raised.cleared PROVE Traced'
  BY DEF Traced
<1>1. raiser'[t] = n /\ \A u \in Tasks : u # t => raiser'[u] = raiser[u]
  BY RaiserTypes
<1>2. ASSUME NEW u \in Tasks
      PROVE  /\ raiser'[u].at # "clear"
             /\ raiser'[u].at = "count" => raiser'[u].seen < raised.count[raiser'[u].type]
  BY <1>1 DEF EventInv, Traced
<1>3. ASSUME NEW f \in Faults, raised.count[f] > 0
      PROVE  faults'.count[f] > 0 \/ \E u \in Tasks : raiser'[u].at = "count" /\ raiser'[u].type = f
  <2>1. CASE faults.count[f] > 0
    BY <2>1
  <2>2. ASSUME NEW u \in Tasks, raiser[u].at = "count", raiser[u].type = f
        PROVE  faults'.count[f] > 0 \/ \E v \in Tasks : raiser'[v].at = "count" /\ raiser'[v].type = f
    <3>1. CASE u = t
      BY <2>2, <3>1
    <3>2. CASE u # t
      BY <2>2, <3>2, <1>1
    <3> QED
      BY <3>1, <3>2
  <2> QED
    BY <1>3, <2>1, <2>2 DEF EventInv, Traced
<1>4. ASSUME NEW f \in Faults, raised.count[f] > 0
      PROVE  faults'.total > 0 \/ \E u \in Tasks : raiser'[u].at \in {"count", "total", "add"}
  <2>1. CASE faults.total > 0
    BY <2>1
  <2>2. ASSUME NEW u \in Tasks, raiser[u].at \in {"count", "total", "add"}
        PROVE  faults'.total > 0 \/ \E v \in Tasks : raiser'[v].at \in {"count", "total", "add"}
    <3>1. CASE u = t
      BY <2>2, <3>1, <1>1
    <3>2. CASE u # t
      BY <2>2, <3>2, <1>1
    <3> QED
      BY <3>1, <3>2
  <2> QED
    BY <1>4, <2>1, <2>2 DEF EventInv, Traced
<1> QED
  BY <1>2, <1>3, <1>4 DEF Traced

\* The types, when a task goes on.
LEMMA TypesMove ==
  ASSUME EventInv, NEW t \in Tasks, NEW n, raiser' = [raiser EXCEPT ![t] = n],
         n \in [at : Stages, type : Faults \cup {"none"}, seen : Nat, next : Nat], n.at # "count",
         UNCHANGED handlers, faults' \in [count : [Faults -> Nat], total : Nat],
         raised' \in [count : [Faults -> Nat], cleared : BOOLEAN],
         told' \in [Tasks -> [to : Seq(Handlers), found : Seq(Handlers)]]
  PROVE  EventTypes'
<1>1. raiser'[t] = n /\ \A u \in Tasks : u # t => raiser'[u] = raiser[u]
  BY RaiserTypes
<1>2. raiser' \in [Tasks -> [at : Stages, type : Faults \cup {"none"}, seen : Nat, next : Nat]]
  BY RaiserTypes
<1>3. ASSUME NEW u \in Tasks, raiser'[u].at = "count" PROVE raiser'[u].type \in Faults
  BY <1>1, <1>3 DEF EventInv, EventTypes
<1> QED
  BY <1>2, <1>3 DEF EventInv, EventTypes

\* What a publication has told, when a task goes on without telling anybody.
LEMMA ToldMoves ==
  ASSUME EventInv, NEW t \in Tasks, NEW n, raiser' = [raiser EXCEPT ![t] = n],
         UNCHANGED <<handlers, told>>,
         n.at \in {"count", "total", "add"} => n.next = 1,
         n.at = "publish" => n.next = Len(told[t].to) + 1,
         n.at \in {"away", "clear"} /\ told[t].found # <<>> => Len(told[t].to) >= Len(told[t].found)
  PROVE  Told'
<1>1. raiser'[t] = n /\ \A u \in Tasks : u # t => raiser'[u] = raiser[u]
  BY RaiserTypes
<1> SUFFICES ASSUME NEW u \in Tasks
             PROVE  /\ raiser'[u].at \in {"count", "total", "add"} => raiser'[u].next = 1
                    /\ raiser'[u].at = "publish" => raiser'[u].next = Len(told[u].to) + 1
                    /\ raiser'[u].at \in {"away", "clear"} /\ told[u].found # <<>> =>
                          Len(told[u].to) >= Len(told[u].found)
  BY DEF EventInv, Told
<1>2. CASE u = t
  BY <1>1, <1>2
<1>3. CASE u # t
  BY <1>1, <1>3 DEF EventInv, Told
<1> QED
  BY <1>2, <1>3

LEMMA CountKeeps ==
  ASSUME EventInv, NEW t \in Tasks, CountFault(t) \/ ReadTotal(t)
  PROVE  EventInv'
<1>1. CASE CountFault(t)
  <2> DEFINE n == [raiser[t] EXCEPT !.at = "total", !.seen = 0]
             f == raiser[t].type
  <2>1. /\ raiser[t].at = "count" /\ raiser' = [raiser EXCEPT ![t] = n]
        /\ faults' = [faults EXCEPT !.count[f] = raiser[t].seen + 1]
        /\ UNCHANGED <<handlers, raised, told>>
    BY <1>1, RaiserTypes DEF CountFault, Moves
  <2>2. /\ n \in [at : Stages, type : Faults \cup {"none"}, seen : Nat, next : Nat]
        /\ n.at = "total" /\ n.next = raiser[t].next
    BY RaiserTypes DEF Stages
  <2>3. f \in Faults /\ raiser[t].seen \in Nat
    BY <2>1, RaiserTypes DEF EventInv, EventTypes
  <2>4. /\ faults' \in [count : [Faults -> Nat], total : Nat] /\ faults'.total = faults.total
        /\ faults'.count[f] = raiser[t].seen + 1
        /\ \A g \in Faults : g # f => faults'.count[g] = faults.count[g]
    <3>1. faults \in [count : [Faults -> Nat], total : Nat]
      BY DEF EventInv, EventTypes
    <3>2. raiser[t].seen + 1 \in Nat
      BY <2>3
    <3> QED
      BY <2>1, <2>3, <3>1, <3>2
  <2>5. ASSUME ~raised.cleared, NEW g \in Faults
        PROVE  faults'.count[g] <= raised.count[g] /\ (faults.count[g] > 0 => faults'.count[g] > 0)
    <3>1. CASE g = f
      <4>1. raiser[t].seen < raised.count[f] /\ raised.count[f] \in Nat
        BY <2>1, <2>3, <2>5, RaiserTypes DEF EventInv, Traced
      <4> QED
        BY <3>1, <4>1, <2>3, <2>4
    <3>2. CASE g # f
      BY <2>4, <2>5, <3>2 DEF EventInv, Traced
    <3> QED
      BY <3>1, <3>2
  <2>6. faults'.count[f] > 0
    BY <2>3, <2>4
  <2>7. raiser[t].next = 1
    BY <2>1 DEF EventInv, Told
  <2> HIDE DEF n, f
  <2>8. EventTypes'
    BY <2>1, <2>2, <2>4, TypesMove DEF EventInv, EventTypes
  <2>9. Traced'
    BY <2>1, <2>2, <2>4, <2>5, <2>6, TracedMoves DEF f
  <2>10. Told'
    BY <2>1, <2>2, <2>7, ToldMoves
  <2> QED
    BY <2>8, <2>9, <2>10 DEF EventInv
<1>2. CASE ReadTotal(t)
  <2> DEFINE n == [raiser[t] EXCEPT !.at = "add", !.seen = faults.total]
  <2>1. /\ raiser[t].at = "total" /\ raiser' = [raiser EXCEPT ![t] = n]
        /\ UNCHANGED <<handlers, faults, raised, told>>
    BY <1>2, RaiserTypes DEF ReadTotal, Moves
  <2>2. /\ n \in [at : Stages, type : Faults \cup {"none"}, seen : Nat, next : Nat]
        /\ n.at = "add" /\ n.next = raiser[t].next
    BY RaiserTypes DEF Stages
  <2>3. ~raised.cleared => \A f \in Faults :
           faults'.count[f] <= raised.count[f] /\ (faults.count[f] > 0 => faults'.count[f] > 0)
    BY <2>1 DEF EventInv, Traced
  <2>4. raiser[t].next = 1
    BY <2>1 DEF EventInv, Told
  <2> HIDE DEF n
  <2>5. EventTypes'
    BY <2>1, <2>2, TypesMove DEF EventInv, EventTypes
  <2>6. Traced'
    BY <2>1, <2>2, <2>3, TracedMoves
  <2>7. Told'
    BY <2>1, <2>2, <2>4, ToldMoves
  <2> QED
    BY <2>5, <2>6, <2>7 DEF EventInv
<1> QED
  BY <1>1, <1>2

LEMMA PublishStarts ==
  ASSUME EventInv, NEW t \in Tasks, CountTotal(t)
  PROVE  EventInv'
<1> DEFINE n == [raiser[t] EXCEPT !.at = "publish", !.seen = 0]
           found == SubSeq(handlers.slot, 1, handlers.count)
           m == [to |-> <<>>, found |-> found]
<1>1. /\ raiser[t].at = "add" /\ raiser' = [raiser EXCEPT ![t] = n]
      /\ faults' = [faults EXCEPT !.total = raiser[t].seen + 1]
      /\ told' = [told EXCEPT ![t] = m]
      /\ UNCHANGED <<handlers, raised>>
  BY RaiserTypes DEF CountTotal, Moves
<1>2. /\ n \in [at : Stages, type : Faults \cup {"none"}, seen : Nat, next : Nat]
      /\ n.at = "publish" /\ n.next = raiser[t].next
  BY RaiserTypes DEF Stages
<1>3. raiser[t].next = 1
  BY <1>1 DEF EventInv, Told
<1>4. found \in Seq(Handlers) /\ Len(found) = handlers.count
  <2>1. /\ handlers.slot \in Seq(Handlers) /\ handlers.count \in Nat
        /\ handlers.count <= Len(handlers.slot) /\ Len(handlers.slot) \in Nat
    BY RaiserTypes DEF EventInv, EventTypes
  <2>2. \A i \in 1 .. handlers.count : handlers.slot[i] \in Handlers
    BY <2>1
  <2> QED
    BY <2>1, <2>2, SubSeqProperties
<1>5. /\ faults' \in [count : [Faults -> Nat], total : Nat] /\ faults'.total > 0
      /\ faults'.count = faults.count
  <2>1. faults \in [count : [Faults -> Nat], total : Nat] /\ raiser[t].seen \in Nat
    BY RaiserTypes DEF EventInv, EventTypes
  <2> DEFINE total == raiser[t].seen + 1
  <2>2. total \in Nat /\ total > 0
    BY <2>1
  <2>3. faults' = [faults EXCEPT !.total = total]
    BY <1>1
  <2> HIDE DEF total
  <2> QED
    BY <2>1, <2>2, <2>3
<1> HIDE DEF n, found
<1>6. m \in [to : Seq(Handlers), found : Seq(Handlers)] /\ m.to = <<>> /\ m.found = found
  BY <1>4
<1> HIDE DEF m
<1>7. /\ told' \in [Tasks -> [to : Seq(Handlers), found : Seq(Handlers)]]
      /\ told'[t] = m /\ \A u \in Tasks : u # t => told'[u] = told[u]
  BY <1>1, <1>6 DEF EventInv, EventTypes
<1>8. EventTypes'
  BY <1>1, <1>2, <1>5, <1>7, TypesMove DEF EventInv, EventTypes
<1>9. Traced'
  <2>1. ~raised.cleared => \A f \in Faults :
           faults'.count[f] <= raised.count[f] /\ (faults.count[f] > 0 => faults'.count[f] > 0)
    BY <1>5 DEF EventInv, Traced
  <2> QED
    BY <1>1, <1>2, <1>5, <2>1, TracedMoves
<1>10. Told'
  <2>1. raiser'[t] = n /\ \A u \in Tasks : u # t => raiser'[u] = raiser[u]
    BY <1>1, RaiserTypes
  <2>2. handlers.count \in Nat
    BY RaiserTypes
  <2> SUFFICES ASSUME NEW u \in Tasks
               PROVE  /\ Len(told'[u].to) <= handlers.count
                      /\ \A i \in 1 .. Len(told'[u].to) : told'[u].to[i] = handlers.slot[i]
                      /\ Len(told'[u].found) <= handlers.count
                      /\ raiser'[u].at \in {"count", "total", "add"} => raiser'[u].next = 1
                      /\ raiser'[u].at = "publish" => raiser'[u].next = Len(told'[u].to) + 1
                      /\ raiser'[u].at \in {"away", "clear"} /\ told'[u].found # <<>> =>
                            Len(told'[u].to) >= Len(told'[u].found)
    BY <1>1 DEF Told
  <2>3. CASE u = t
    <3>1. Len(told'[u].to) = 0 /\ Len(told'[u].found) = handlers.count
      BY <2>3, <1>4, <1>6, <1>7
    <3>2. raiser'[u].at = "publish" /\ raiser'[u].next = 1
      BY <2>1, <2>3, <1>2, <1>3
    <3> QED
      BY <2>2, <3>1, <3>2
  <2>4. CASE u # t
    BY <2>1, <2>4, <1>7 DEF EventInv, Told
  <2> QED
    BY <2>3, <2>4
<1> QED
  BY <1>8, <1>9, <1>10 DEF EventInv

LEMMA DeliverKeeps ==
  ASSUME EventInv, NEW t \in Tasks, Deliver(t)
  PROVE  EventInv'
<1> DEFINE k == raiser[t].next
           n == [raiser[t] EXCEPT !.next = k + 1]
           to == Append(told[t].to, handlers.slot[k])
           m == [told[t] EXCEPT !.to = to]
<1>1. /\ raiser[t].at = "publish" /\ k <= handlers.count
      /\ raiser' = [raiser EXCEPT ![t] = n] /\ told' = [told EXCEPT ![t] = m]
      /\ UNCHANGED <<handlers, faults, raised>>
  BY RaiserTypes DEF Deliver
<1>2. k \in Nat /\ handlers.count \in Nat
  BY RaiserTypes
<1>3. /\ n \in [at : Stages, type : Faults \cup {"none"}, seen : Nat, next : Nat]
      /\ n.at = "publish" /\ n.next = k + 1
  <2>1. k + 1 \in Nat
    BY <1>2
  <2> HIDE DEF k
  <2> QED
    BY <1>1, <2>1, RaiserTypes
<1>4. k = Len(told[t].to) + 1 /\ Len(told[t].to) \in Nat
  BY <1>1, RaiserTypes DEF EventInv, Told
<1>5. handlers.slot[k] \in Handlers
  <2>1. k \in 1 .. Len(handlers.slot)
    BY <1>1, <1>2, <1>4, RaiserTypes, SMTT(20) DEF EventInv, EventTypes
  <2> QED
    BY <2>1, RaiserTypes
<1>6. /\ to \in Seq(Handlers) /\ Len(to) = k /\ to[k] = handlers.slot[k]
      /\ \A i \in 1 .. k - 1 : to[i] = told[t].to[i]
  <2>1. told[t].to \in Seq(Handlers)
    BY RaiserTypes
  <2> HIDE DEF k
  <2> QED
    BY <1>4, <1>5, <2>1
<1> HIDE DEF k, n, to
<1>7. m \in [to : Seq(Handlers), found : Seq(Handlers)] /\ m.to = to /\ m.found = told[t].found
  <2>1. told[t] \in [to : Seq(Handlers), found : Seq(Handlers)]
    BY DEF EventInv, EventTypes
  <2> QED
    BY <1>6, <2>1
<1> HIDE DEF m
<1>8. /\ told' \in [Tasks -> [to : Seq(Handlers), found : Seq(Handlers)]]
      /\ told'[t] = m /\ \A u \in Tasks : u # t => told'[u] = told[u]
  BY <1>1, <1>7 DEF EventInv, EventTypes
<1>9. EventTypes'
  BY <1>1, <1>3, <1>8, TypesMove DEF EventInv, EventTypes
<1>10. Traced'
  <2>1. ~raised.cleared => \A f \in Faults :
           faults'.count[f] <= raised.count[f] /\ (faults.count[f] > 0 => faults'.count[f] > 0)
    BY <1>1 DEF EventInv, Traced
  <2> QED
    BY <1>1, <1>3, <2>1, TracedMoves
<1>11. Told'
  <2>1. raiser'[t] = n /\ \A u \in Tasks : u # t => raiser'[u] = raiser[u]
    BY <1>1, RaiserTypes
  <2> SUFFICES ASSUME NEW u \in Tasks
               PROVE  /\ Len(told'[u].to) <= handlers.count
                      /\ \A i \in 1 .. Len(told'[u].to) : told'[u].to[i] = handlers.slot[i]
                      /\ Len(told'[u].found) <= handlers.count
                      /\ raiser'[u].at \in {"count", "total", "add"} => raiser'[u].next = 1
                      /\ raiser'[u].at = "publish" => raiser'[u].next = Len(told'[u].to) + 1
                      /\ raiser'[u].at \in {"away", "clear"} /\ told'[u].found # <<>> =>
                            Len(told'[u].to) >= Len(told'[u].found)
    BY <1>1 DEF Told
  <2>2. CASE u = t
    <3>1. Len(told'[u].to) = k /\ told'[u].to = to /\ told'[u].found = told[t].found
      BY <2>2, <1>6, <1>7, <1>8
    <3>2. ASSUME NEW i \in 1 .. k PROVE to[i] = handlers.slot[i]
      <4>1. CASE i = k
        BY <4>1, <1>6
      <4>2. CASE i # k
        <5>1. i \in 1 .. k - 1 /\ i \in 1 .. Len(told[t].to)
          BY <4>2, <1>2, <1>4
        <5> QED
          BY <5>1, <1>6 DEF EventInv, Told
      <4> QED
        BY <4>1, <4>2
    <3>3. raiser'[u].at = "publish" /\ raiser'[u].next = k + 1
      BY <2>1, <2>2, <1>3
    <3> QED
      BY <3>1, <3>2, <3>3, <1>1 DEF EventInv, Told
  <2>3. CASE u # t
    BY <2>1, <2>3, <1>8 DEF EventInv, Told
  <2> QED
    BY <2>2, <2>3
<1> QED
  BY <1>9, <1>10, <1>11 DEF EventInv

LEMMA EndKeeps ==
  ASSUME EventInv, NEW t \in Tasks, EndRaise(t)
  PROVE  EventInv'
<1>1. /\ raiser[t].at = "publish" /\ raiser[t].next > handlers.count
      /\ raiser' = [raiser EXCEPT ![t] = Away]
      /\ UNCHANGED <<handlers, faults, raised, told>>
  BY DEF EndRaise
<1>2. /\ Away \in [at : Stages, type : Faults \cup {"none"}, seen : Nat, next : Nat]
      /\ Away.at = "away"
  BY DEF Away, Stages
<1>3. Len(told[t].to) >= Len(told[t].found)
  <2>1. /\ Len(told[t].to) \in Nat /\ Len(told[t].found) \in Nat /\ handlers.count \in Nat
        /\ raiser[t].next = Len(told[t].to) + 1 /\ Len(told[t].found) <= handlers.count
    BY <1>1, RaiserTypes DEF EventInv, Told
  <2> QED
    BY <1>1, <2>1
<1>4. EventTypes'
  BY <1>1, <1>2, TypesMove DEF EventInv, EventTypes
<1>5. Traced'
  <2>1. ~raised.cleared => \A f \in Faults :
           faults'.count[f] <= raised.count[f] /\ (faults.count[f] > 0 => faults'.count[f] > 0)
    BY <1>1 DEF EventInv, Traced
  <2> QED
    BY <1>1, <1>2, <2>1, TracedMoves
<1>6. Told'
  BY <1>1, <1>2, <1>3, ToldMoves
<1> QED
  BY <1>4, <1>5, <1>6 DEF EventInv

LEMMA ClearKeeps ==
  ASSUME EventInv, NEW t \in Tasks, ClearCounts(t) \/ ClearTotal(t)
  PROVE  EventInv'
<1>1. CASE ClearCounts(t)
  <2> DEFINE n == [raiser[t] EXCEPT !.at = "clear", !.seen = 0]
  <2>1. /\ raiser[t].at = "away" /\ raiser' = [raiser EXCEPT ![t] = n]
        /\ faults' = [faults EXCEPT !.count = [f \in Faults |-> 0]]
        /\ raised' = [raised EXCEPT !.cleared = TRUE]
        /\ UNCHANGED <<handlers, told>>
    BY <1>1, RaiserTypes DEF ClearCounts, Moves
  <2>2. /\ n \in [at : Stages, type : Faults \cup {"none"}, seen : Nat, next : Nat]
        /\ n.at = "clear"
    BY RaiserTypes DEF Stages
  <2>3. /\ faults' \in [count : [Faults -> Nat], total : Nat]
        /\ raised' \in [count : [Faults -> Nat], cleared : BOOLEAN] /\ raised'.cleared
    <3>1. /\ faults \in [count : [Faults -> Nat], total : Nat]
          /\ raised \in [count : [Faults -> Nat], cleared : BOOLEAN]
          /\ [f \in Faults |-> 0] \in [Faults -> Nat]
      BY DEF EventInv, EventTypes
    <3> QED
      BY <2>1, <3>1
  <2>4. told[t].found # <<>> => Len(told[t].to) >= Len(told[t].found)
    BY <2>1 DEF EventInv, Told
  <2> HIDE DEF n
  <2>5. EventTypes'
    BY <2>1, <2>2, <2>3, TypesMove DEF EventInv, EventTypes
  <2>6. Traced'
    BY <2>3 DEF Traced
  <2>7. Told'
    BY <2>1, <2>2, <2>4, ToldMoves
  <2> QED
    BY <2>5, <2>6, <2>7 DEF EventInv
<1>2. CASE ClearTotal(t)
  <2>1. /\ raiser[t].at = "clear" /\ raiser' = [raiser EXCEPT ![t] = Away]
        /\ faults' = [faults EXCEPT !.total = 0]
        /\ UNCHANGED <<handlers, raised, told>>
    BY <1>2 DEF ClearTotal
  <2>2. /\ Away \in [at : Stages, type : Faults \cup {"none"}, seen : Nat, next : Nat]
        /\ Away.at = "away"
    BY DEF Away, Stages
  <2>3. faults' \in [count : [Faults -> Nat], total : Nat]
    BY <2>1 DEF EventInv, EventTypes
  <2>4. raised.cleared
    BY <2>1 DEF EventInv, Traced
  <2>5. told[t].found # <<>> => Len(told[t].to) >= Len(told[t].found)
    BY <2>1 DEF EventInv, Told
  <2>6. EventTypes'
    BY <2>1, <2>2, <2>3, TypesMove DEF EventInv, EventTypes
  <2>7. Traced'
    BY <2>1, <2>4 DEF Traced
  <2>8. Told'
    BY <2>1, <2>2, <2>5, ToldMoves
  <2> QED
    BY <2>6, <2>7, <2>8 DEF EventInv
<1> QED
  BY <1>1, <1>2

LEMMA EventStep == EventInv /\ EventsNext => EventInv'
BY Subscribed, RaiseKeeps, CountKeeps, PublishStarts, DeliverKeeps, EndKeeps, ClearKeeps
   DEF EventsNext

\* Every handler of the publication in the order of the slots.
LEMMA ToldInOrder == EventInv => FaultsPublished
<1> SUFFICES ASSUME EventInv, NEW t \in Tasks
             PROVE  LET to == told[t].to
                        all == SubSeq(handlers.slot, 1, handlers.count)
                    IN  /\ to = SubSeq(all, 1, Len(to))
                        /\ raiser[t].at \in {"away", "clear"} /\ told[t].found # <<>> =>
                              Len(to) >= Len(told[t].found)
  BY DEF FaultsPublished
<1> DEFINE to == told[t].to
           all == SubSeq(handlers.slot, 1, handlers.count)
           part == SubSeq(all, 1, Len(to))
<1>1. /\ handlers.slot \in Seq(Handlers) /\ handlers.count \in Nat
      /\ handlers.count <= Len(handlers.slot) /\ Len(handlers.slot) \in Nat
      /\ to \in Seq(Handlers) /\ Len(to) \in Nat /\ Len(to) <= handlers.count
  BY RaiserTypes DEF EventInv, EventTypes, Told
<1>2. \A i \in 1 .. handlers.count : handlers.slot[i] \in Handlers
  BY <1>1
<1>3. /\ all \in Seq(Handlers) /\ Len(all) = handlers.count
      /\ \A i \in 1 .. handlers.count : all[i] = handlers.slot[i]
  <2>1. handlers.count - 1 + 1 = handlers.count
    BY <1>1
  <2>2. \A i \in 1 .. handlers.count : 1 + i - 1 = i
    OBVIOUS
  <2>3. /\ all \in Seq(Handlers)
        /\ Len(all) = IF 1 <= handlers.count THEN handlers.count - 1 + 1 ELSE 0
        /\ \A i \in 1 .. handlers.count - 1 + 1 : all[i] = handlers.slot[1 + i - 1]
    BY <1>1, <1>2, SubSeqProperties
  <2> HIDE DEF all
  <2> QED
    BY <1>1, <2>1, <2>2, <2>3
<1> HIDE DEF all
<1>4. /\ part \in Seq(Handlers) /\ Len(part) = Len(to)
      /\ \A i \in 1 .. Len(to) : part[i] = all[i]
  <2>1. Len(to) - 1 + 1 = Len(to)
    BY <1>1
  <2>2. \A i \in 1 .. Len(to) : 1 + i - 1 = i /\ all[i] \in Handlers
    BY <1>1, <1>2, <1>3
  <2>3. /\ part \in Seq(Handlers)
        /\ Len(part) = IF 1 <= Len(to) THEN Len(to) - 1 + 1 ELSE 0
        /\ \A i \in 1 .. Len(to) - 1 + 1 : part[i] = all[1 + i - 1]
    BY <1>1, <2>2, SubSeqProperties
  <2> HIDE DEF part, to
  <2> QED
    BY <1>1, <2>1, <2>2, <2>3
<1>5. \A i \in 1 .. Len(to) : to[i] = part[i]
  BY <1>1, <1>3, <1>4 DEF EventInv, Told
<1>6. to = part
  <2> HIDE DEF to, part
  <2> QED
    BY <1>1, <1>4, <1>5, SeqEqual
<1> QED
  BY <1>6 DEF EventInv, Told, all

-----------------------------------------------------------------------------
(* All services together.                                                   *)

LEMMA RestStep == RestInv /\ (StoreNext \/ MqttNext) => RestInv'
<1> SUFFICES ASSUME RestInv, StoreNext \/ MqttNext PROVE RestInv'
  OBVIOUS
<1>1. ASSUME NEW i \in 0 .. Indexes, NEW type \in {"int", "bool"}, StoreSet(i, type) PROVE RestInv'
  <2>1. /\ i \in 0 .. Indexes - 1 /\ mqtt' = mqtt
        /\ store' = [type |-> [store.type EXCEPT ![i] = type],
                     count |-> IF i >= store.count THEN i + 1 ELSE store.count]
    BY <1>1, ServicesAssumption DEF StoreSet
  <2>2. store.type \in [0 .. Indexes - 1 -> {"null", "int", "bool"}] /\ store.count \in 0 .. Indexes
    BY DEF RestInv
  <2>3. /\ store'.type = [store.type EXCEPT ![i] = type]
        /\ store'.count = IF i >= store.count THEN i + 1 ELSE store.count
    BY <2>1
  <2>4. /\ store'.count \in 0 .. Indexes /\ store'.count >= store.count /\ store'.count > i
    BY <2>1, <2>2, <2>3, ServicesAssumption
  <2>5. store'.type \in [0 .. Indexes - 1 -> {"null", "int", "bool"}]
    BY <2>1, <2>2, <2>3
  <2>6. store' \in [type : [0 .. Indexes - 1 -> {"null", "int", "bool"}], count : 0 .. Indexes]
    BY <2>1, <2>3, <2>4, <2>5
  <2>7. ASSUME NEW j \in 0 .. Indexes - 1, store'.type[j] # "null" PROVE j < store'.count
    <3>1. CASE j = i
      BY <2>4, <3>1
    <3>2. CASE j # i
      <4>1. j < store.count
        BY <2>2, <2>3, <2>7, <3>2 DEF RestInv
      <4> QED
        BY <2>2, <2>4, <4>1
    <3> QED
      BY <3>1, <3>2
  <2> QED
    BY <2>1, <2>6, <2>7 DEF RestInv
<1>2. CASE StoreReset
  <2>1. /\ mqtt' = mqtt
        /\ store' = [type |-> [i \in 0 .. Indexes - 1 |-> "null"], count |-> 0]
    BY <1>2 DEF StoreReset
  <2> QED
    BY <2>1, ServicesAssumption DEF RestInv
<1>3. CASE MqttNext
  <2>1. mqtt \in [client : {"none", "started", "connected"}, connected : BOOLEAN] /\ store' = store
    BY <1>3 DEF MqttNext, MqttInit, MqttConnected, MqttDisconnected, RestInv
  <2>2. CASE MqttConnected \/ MqttDisconnected
    <3>1. \/ mqtt' = [client |-> "connected", connected |-> TRUE]
          \/ mqtt' = [client |-> "started", connected |-> FALSE]
      BY <2>2 DEF MqttConnected, MqttDisconnected
    <3>2. /\ mqtt' \in [client : {"none", "started", "connected"}, connected : BOOLEAN]
          /\ mqtt'.connected => mqtt'.client = "connected"
      <4>1. CASE mqtt' = [client |-> "connected", connected |-> TRUE]
        BY <4>1
      <4>2. CASE mqtt' = [client |-> "started", connected |-> FALSE]
        <5>1. mqtt'.connected = FALSE
          BY <4>2
        <5>2. mqtt' \in [client : {"none", "started", "connected"}, connected : BOOLEAN]
          BY <4>2
        <5> QED
          BY <5>1, <5>2
      <4> QED
        BY <3>1, <4>1, <4>2
    <3> QED
      BY <2>1, <3>2 DEF RestInv
  <2>3. ASSUME NEW ok \in BOOLEAN, MqttInit(ok) PROVE RestInv'
    <3>1. /\ mqtt.connected = FALSE
          /\ \/ mqtt' = [mqtt EXCEPT !.client = "started"]
             \/ mqtt' = [mqtt EXCEPT !.client = "none"]
      BY <2>1, <2>3 DEF MqttInit, RestInv
    <3>2. /\ mqtt' \in [client : {"none", "started", "connected"}, connected : BOOLEAN]
          /\ mqtt'.connected = FALSE
      BY <2>1, <3>1
    <3> QED
      BY <2>1, <3>2 DEF RestInv
  <2> QED
    BY <1>3, <2>2, <2>3 DEF MqttNext
<1> QED
  BY <1>1, <1>2, <1>3 DEF StoreNext

LEMMA ServicesStart == ServicesInit => ServicesInv
<1> SUFFICES ASSUME ServicesInit PROVE ServicesInv
  OBVIOUS
<1>1. LimiterInv
  <2>1. PICK now \in 0 .. Word - 1 :
          limiter = [now |-> now, last |-> 0, since |-> Word, gap |-> Word, refused |-> FALSE]
    BY DEF ServicesInit
  <2> QED
    BY <2>1, ServicesAssumption DEF LimiterInv, LimiterExact
<1>2. EventInv
  <2>1. /\ handlers = [slot |-> <<>>, count |-> 0]
        /\ faults = [count |-> [f \in Faults |-> 0], total |-> 0]
        /\ raiser = [t \in Tasks |-> Away]
        /\ raised = [count |-> [f \in Faults |-> 0], cleared |-> FALSE]
        /\ told = [t \in Tasks |-> [to |-> <<>>, found |-> <<>>]]
    BY DEF ServicesInit
  <2>2. EventTypes
    <3>1. <<>> \in Seq(Handlers) /\ Len(<<>>) = 0
      OBVIOUS
    <3> QED
      BY <2>1, <3>1 DEF EventTypes, Away, Stages, MaxSubscribers
  <2>3. Traced
    BY <2>1 DEF Traced, Away
  <2>4. Told
    BY <2>1 DEF Told, Away
  <2> QED
    BY <2>2, <2>3, <2>4 DEF EventInv
<1>3. RestInv
  BY ServicesAssumption DEF ServicesInit, RestInv
<1> QED
  BY <1>1, <1>2, <1>3 DEF ServicesInv

LEMMA ServicesStep == ServicesInv /\ [ServicesNext]_serviceVars => ServicesInv'
<1> SUFFICES ASSUME ServicesInv, [ServicesNext]_serviceVars PROVE ServicesInv'
  OBVIOUS
<1>1. UNCHANGED limiterVars => LimiterInv'
  BY DEF ServicesInv, LimiterInv, LimiterExact, limiterVars
<1>2. UNCHANGED eventVars => EventInv'
  BY DEF ServicesInv, EventInv, EventTypes, Traced, Told, eventVars
<1>3. UNCHANGED <<store, mqtt>> => RestInv'
  BY DEF ServicesInv, RestInv
<1>4. CASE LimiterNext
  <2>1. PICK pause \in 0 .. Word : LimiterCheck(pause)
    BY <1>4 DEF LimiterNext
  <2>2. UNCHANGED <<eventVars, store, mqtt>>
    BY <2>1 DEF LimiterCheck
  <2> QED
    BY <2>1, <2>2, <1>2, <1>3, LimiterStep DEF ServicesInv
<1>5. CASE EventsNext
  <2>1. UNCHANGED <<limiterVars, store, mqtt>>
    BY <1>5 DEF EventsNext, CountSlot, FillSlot, Raise, CountFault, ReadTotal, CountTotal,
                Deliver, EndRaise, ClearCounts, ClearTotal
  <2> QED
    BY <2>1, <1>1, <1>3, <1>5, EventStep DEF ServicesInv
<1>6. CASE StoreNext \/ MqttNext
  <2>1. UNCHANGED <<limiterVars, eventVars>>
    BY <1>6 DEF StoreNext, StoreSet, StoreReset, MqttNext, MqttInit, MqttConnected, MqttDisconnected
  <2> QED
    BY <2>1, <1>1, <1>2, <1>6, RestStep DEF ServicesInv
<1>7. CASE UNCHANGED serviceVars
  BY <1>1, <1>2, <1>3, <1>7 DEF serviceVars, ServicesInv
<1> QED
  BY <1>4, <1>5, <1>6, <1>7 DEF ServicesNext

\* Granted calls of a driver are an interval apart, also when the clock wraps, and
\* no others are refused; a fault leaves a trace though tasks count without a lock,
\* and each handler is told it once, in order (rate_limiter.c:21-37,
\* fault_handler.c:28-62, event_bus.c:17-61).
THEOREM ServicesAreSound == ServicesSpec => []ServicesSound
<1>1. ServicesInv => ServicesSound
  <2> SUFFICES ASSUME ServicesInv PROVE ServicesSound
    OBVIOUS
  <2>1. ServicesTypeOK
    <3>1. /\ limiter.now \in 0 .. Word - 1 /\ limiter.last \in 0 .. Word - 1
          /\ limiter.since \in 0 .. Word
      BY DEF ServicesInv, LimiterInv
    <3>2. /\ handlers.slot \in Seq(Handlers) /\ Len(handlers.slot) <= MaxSubscribers
          /\ faults.count \in [Faults -> Nat] /\ faults.total \in Nat
      BY DEF ServicesInv, EventInv, EventTypes
    <3>3. /\ store.count \in 0 .. Indexes
          /\ \A i \in DOMAIN store.type : store.type[i] # "null" => i < store.count
          /\ mqtt.connected => mqtt.client = "connected"
      BY DEF ServicesInv, RestInv
    <3> QED
      BY <3>1, <3>2, <3>3 DEF ServicesTypeOK
  <2>2. LimiterExact
    BY DEF ServicesInv, LimiterInv
  <2>3. FaultsTraced
    <3> SUFFICES ASSUME ~raised.cleared, NEW f \in Faults
                 PROVE  /\ faults.count[f] <= raised.count[f]
                        /\ raised.count[f] > 0 /\ (\A t \in Tasks : raiser[t].at = "away") =>
                              faults.count[f] > 0 /\ faults.total > 0
      BY DEF FaultsTraced
    <3> QED
      BY DEF ServicesInv, EventInv, Traced
  <2>4. FaultsPublished
    BY ToldInOrder DEF ServicesInv
  <2> QED
    BY <2>1, <2>2, <2>3, <2>4 DEF ServicesSound
<1> QED
  BY ServicesStart, ServicesStep, <1>1, PTL DEF ServicesSpec
=============================================================================
