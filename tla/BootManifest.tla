----------------------------- MODULE BootManifest ------------------------------
(***************************************************************************)
(* The hardware manifest (boot_manifest.c): at boot the I2C bus is scanned *)
(* address by address, what answers is looked up in a table, the list is   *)
(* written as JSON into a buffer of fixed size, entry by entry, and saved  *)
(* in NVS.  Of the texts only the lengths are kept.                        *)
(***************************************************************************)
EXTENDS Integers, Sequences, FiniteSets

CONSTANTS
    Buses,  \* what may be wired up: sets of addresses that answer
    None    \* no manifest

MaxDevices == 16    \* MANIFEST_MAX_DEVICES
JsonMax == 2048     \* MANIFEST_JSON_MAX
Addresses == 8 .. 119

ASSUME BusAssumption == Buses \subseteq SUBSET Addresses /\ None \notin Seq(Addresses \X (0 .. 28))

VARIABLES
    bus,    \* what is wired up
    scan,   \* the addresses asked are those below next; the devices found: s_detected
    json,   \* the entries written, and the offset behind them
    saved   \* the manifest in NVS

manifestVars == <<bus, scan, json, saved>>

Device(address, text) == [address |-> address, text |-> text]

\* KNOWN_DEVICES: addresses, and the length of name, driver and type together.
KnownDevices ==
    <<Device(118, 29), Device(119, 35), Device(104, 24), Device(105, 30), Device(68, 20),
      Device(35, 22), Device(56, 20), Device(87, 26), Device(64, 22), Device(83, 24),
      Device(57, 34), Device(41, 24), Device(92, 24), Device(24, 31), Device(90, 31),
      Device(82, 22), Device(88, 20), Device(72, 26), Device(98, 20), Device(40, 24),
      Device(95, 22), Device(60, 35), Device(61, 41), Device(39, 35), Device(63, 31),
      Device(21, 23), Device(56, 21), Device(104, 19)>>

\* lookup_device: the first row with the address, or 0.
Lookup(a) ==
    LET rows == {i \in 1 .. 28 : KnownDevices[i].address = a}
    IN  IF rows = {} THEN 0 ELSE CHOOSE i \in rows : \A j \in rows : i <= j

\* "unknown", "none" and "unknown".
TextOf(row) == IF row = 0 THEN 18 ELSE KnownDevices[row].text

Header == 54
EntryText == 47
Trailer == 13

\* What an entry takes, with the comma before all but the first.
EntrySize(i, row) == EntryText + TextOf(row) + (IF i = 1 THEN 0 ELSE 1)

NoScan == [next |-> 8, found |-> <<>>]
NoJson == [written |-> 0, offset |-> Header]

ManifestInit == bus \in Buses /\ scan = NoScan /\ json = NoJson /\ saved = None

\* Mutated form of Scanning: the list has no end.
ScanningOn == \E a \in bus : a >= scan.next

Scanning == (\E a \in bus : a >= scan.next) /\ Len(scan.found) < MaxDevices

\* boot_manifest_scan, up to the next address that answers.
Probe ==
    \E a \in bus :
        /\ Scanning /\ a >= scan.next
        /\ \A b \in bus : b >= scan.next => a <= b
        /\ scan' = [next |-> a + 1, found |-> Append(scan.found, <<a, Lookup(a)>>)]
        /\ UNCHANGED <<bus, json, saved>>

Writing == json.written < Len(scan.found)

\* boot_manifest_to_json, one entry.
WriteEntry ==
    LET i == json.written + 1 IN
    /\ ~Scanning /\ Writing
    /\ json' = [written |-> i, offset |-> json.offset + EntrySize(i, scan.found[i][2])]
    /\ UNCHANGED <<bus, scan, saved>>

\* boot_manifest_save, if anything was found and there is room in NVS.
SaveManifest(written) ==
    /\ ~Scanning /\ ~Writing
    /\ saved' = IF written /\ scan.found # <<>> THEN scan.found ELSE saved
    /\ UNCHANGED <<bus, scan, json>>

\* RAM is lost, and devices are plugged in and out.
ManifestRestart ==
    /\ bus' \in Buses
    /\ scan' = NoScan /\ json' = NoJson

(***************************************************************************)
(* Properties                                                              *)
(***************************************************************************)

ManifestTypeOK ==
    /\ bus \in Buses
    /\ scan \in [next : 8 .. 120, found : Seq(Addresses \X (0 .. 28))]
    /\ json \in [written : Nat, offset : Nat]
    /\ saved \in Seq(Addresses \X (0 .. 28)) \cup {None}

\* The list never holds more than it has room for, and whatever answers on the bus the
\* manifest and its trailer end inside the buffer: the offset never passes the size, where
\* the room that is left would be computed as a huge number.
ManifestFits ==
    /\ Len(scan.found) <= MaxDevices
    /\ json.written <= Len(scan.found)
    /\ json.offset + Trailer < JsonMax

Before(a, b) == Cardinality({x \in b : x < a})

\* The manifest of a bus: its first sixteen addresses in order, each with the first row
\* of the table that has it.
Describes(manifest, b) ==
    /\ Len(manifest) = (IF Cardinality(b) > MaxDevices THEN MaxDevices ELSE Cardinality(b))
    /\ \A i \in 1 .. Len(manifest) :
          LET a == manifest[i][1] IN
          /\ a \in b /\ Before(a, b) = i - 1
          /\ \A j \in 1 .. 28 :
                KnownDevices[j].address = a => manifest[i][2] \in 1 .. j

\* What NVS holds is the whole manifest of one bus, whatever power losses, lists cut short
\* and refused writes came between.
SavedDescribes == saved # None => \E b \in Buses : b # {} /\ Describes(saved, b)

\* The text of the manifest fits its buffer, and the manifest that is saved
\* is that of a scan.
ManifestSound == ManifestFits /\ SavedDescribes

=============================================================================
