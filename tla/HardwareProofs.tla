---------------------------- MODULE HardwareProofs ----------------------------
(***************************************************************************)
(* Proofs about what the firmware drives devices with, for any boards,     *)
(* drivers and platforms.  The parts share no state, so each has an        *)
(* inductive invariant of its own.                                         *)
(***************************************************************************)
EXTENDS Hardware, TLAPS, SequenceTheorems, WellFoundedInduction

-----------------------------------------------------------------------------
(* The ports of the platforms.                                              *)

Here(p) == [power |-> Power(p), clock |-> Clock(p)]

\* Another port is driven by the same unit.
Twin(p) == \E q \in Ports \ {p} : Power(q) = Power(p)

\* The entry of a table that no init has filled: the port is not in use.
ByTable(p) ==
  row.zeroed /\ slot[p] = [power |-> 0, clock |-> 0] /\ (row.honest => user[p] = Unset)

\* A port in use is driven by its own unit.
SlotsFilled ==
  \A p \in Ports : slot[p] = Here(p) \/ ByTable(p)

\* A port in use has its flag, and its unit is on.
UsedIsOn ==
  row.honest /\ row.init \notin {"changed", "handle"} =>
    \A p \in Ports : user[p] # Unset /\ ~Twin(p) => p \in flag /\ Power(p) \in on

\* The flag that init looks at.
FlagIsOn ==
  row.honest /\ row.init \in {"kept", "install"} =>
    \A p \in Ports : (p \in flag => Power(p) \in on) /\ (row.close = "off" /\ Power(p) \in on => p \in flag)

PortsInv == PortsTypeOK /\ SlotsFilled /\ UsedIsOn /\ FlagIsOn /\ SettingInForce

LEMMA RowFacts ==
  ASSUME row \in Rows
  PROVE  /\ \A p \in Ports : Power(p) \in Units /\ Clock(p) \in Units
         /\ row.init \in {"kept", "install"} =>
              ~row.boot /\ ~row.zeroed /\ \A p \in Ports : ~Twin(p)
         /\ row.zeroed => row.init = "always" /\ \A p \in Ports : Power(p) = 0 => Twin(p)
         /\ row.tune = "stored" => row.init = "handle"
<1>1. /\ row.power \in [row.ports -> Units] /\ row.clock \in [row.ports -> Units]
      /\ row.init \in {"kept", "install"} =>
           ~row.boot /\ \A p \in row.ports : \A q \in row.ports \ {p} : row.power[q] # row.power[p]
      /\ row.zeroed => /\ row.init = "always"
                       /\ \A p \in row.ports : row.power[p] = 0 => \E q \in row.ports \ {p} : row.power[q] = 0
      /\ row.tune = "stored" => row.init = "handle"
  BY RowsAssumption
<1>2. \A p \in Ports : Power(p) \in Units /\ Clock(p) \in Units
  BY <1>1 DEF Ports, Power, Clock
<1>3. row.init \in {"kept", "install"} => ~row.boot /\ \A p \in Ports : ~Twin(p)
  BY <1>1 DEF Ports, Power, Twin
<1>4. row.zeroed => \A p \in Ports : Power(p) = 0 => Twin(p)
  BY <1>1 DEF Ports, Power, Twin
<1> QED
  BY <1>1, <1>2, <1>3, <1>4

LEMMA SlotFacts ==
  ASSUME PortsTypeOK, SlotsFilled, NEW p \in Ports
  PROVE  /\ slot[p].clock \in Units
         /\ slot[p].power = Power(p) \/ (row.zeroed /\ slot[p].power = 0)
         /\ row.honest /\ user[p] # Unset => slot[p].power = Power(p) /\ slot[p].clock = Clock(p)
<1>1. PICK r : r = slot[p]
  OBVIOUS
<1>2. r = Here(p) => r.power = Power(p) /\ r.clock = Clock(p)
  BY SMT DEF Here
<1>3. r = [power |-> 0, clock |-> 0] => r.power = 0
  BY SMT
<1>4. r \in [power : Units, clock : Units]
  BY <1>1 DEF PortsTypeOK
<1>5. r.clock \in Units
  BY <1>4
<1>6. r = Here(p) \/ (row.zeroed /\ r = [power |-> 0, clock |-> 0] /\ (row.honest => user[p] = Unset))
  BY <1>1, Zenon DEF SlotsFilled, ByTable
<1>7. /\ r.power = Power(p) \/ (row.zeroed /\ r.power = 0)
      /\ row.honest /\ user[p] # Unset => r.power = Power(p) /\ r.clock = Clock(p)
  BY <1>2, <1>3, <1>6, Zenon
<1> QED
  BY <1>1, <1>5, <1>7, Zenon

LEMMA PortsStart == PortsInit => PortsInv
<1> SUFFICES ASSUME PortsInit PROVE PortsInv
  OBVIOUS
<1>1. /\ row \in Rows /\ flag = {} /\ user = [p \in Ports |-> Unset]
      /\ latest = [u \in Units |-> Unset]
      /\ on = IF row.boot THEN Units ELSE {}
      /\ slot = [p \in Ports |-> IF row.zeroed THEN [power |-> 0, clock |-> 0] ELSE Here(p)]
  BY DEF PortsInit, Here
<1>2. PICK s \in Settings : speed = [u \in Units |-> IF row.boot THEN s ELSE Unset]
  BY DEF PortsInit
<1>3. 0 \in Units /\ \A p \in Ports : Power(p) \in Units /\ Clock(p) \in Units
  BY <1>1, RowFacts DEF Units
<1>4. \A p \in Ports : slot[p] = IF row.zeroed THEN [power |-> 0, clock |-> 0] ELSE Here(p)
  BY <1>1
<1>5. slot \in [Ports -> [power : Units, clock : Units]]
  <2>1. \A p \in Ports : Here(p) \in [power : Units, clock : Units]
    BY <1>3 DEF Here
  <2>2. [power |-> 0, clock |-> 0] \in [power : Units, clock : Units]
    BY <1>3
  <2> QED
    BY <1>1, <2>1, <2>2
<1>6. PortsTypeOK
  BY <1>1, <1>2, <1>5 DEF PortsTypeOK
<1>7. SlotsFilled
  BY <1>1, <1>4 DEF SlotsFilled, ByTable
<1>8. FlagIsOn
  BY <1>1, RowFacts DEF FlagIsOn
<1>9. UsedIsOn /\ SettingInForce
  BY <1>1 DEF UsedIsOn, SettingInForce
<1> QED
  BY <1>6, <1>7, <1>8, <1>9 DEF PortsInv

\* The steps leave the row alone, and with it what a row says of its ports.
LEMMA RowStays ==
  ASSUME row' = row
  PROVE  /\ Ports' = Ports
         /\ \A p : Power(p)' = Power(p) /\ Clock(p)' = Clock(p) /\ Here(p)' = Here(p) /\ Twin(p)' = Twin(p)
  BY DEF Ports, Power, Clock, Here, Twin

LEMMA OpenKeeps ==
  ASSUME PortsInv, NEW p \in Ports, NEW s \in Settings, Open(p, s)
  PROVE  PortsInv'
<1>1. /\ row' = row /\ flag' = flag \cup {p} /\ user' = [user EXCEPT ![p] = s]
      /\ row.init # "absent" /\ ~(row.init = "install" /\ p \in flag)
      /\ IF Skips(p, s) THEN UNCHANGED <<slot, on, speed, latest>> ELSE Configured(p, s)
  BY DEF Open
<1>2. PortsTypeOK /\ SlotsFilled /\ UsedIsOn /\ FlagIsOn /\ SettingInForce
  BY DEF PortsInv
<1>3. /\ \A q \in Ports : Power(q) \in Units /\ Clock(q) \in Units
      /\ row.init \in {"kept", "install"} => ~row.zeroed /\ \A q \in Ports : ~Twin(q)
      /\ row.zeroed => row.init = "always"
  BY <1>2, RowFacts DEF PortsTypeOK
<1>4. s # Unset
  BY UnsetAssumption
<1>5. /\ user \in [Ports -> Settings \cup {Unset}] /\ user'[p] = s
      /\ \A q \in Ports : q # p => user'[q] = user[q]
  BY <1>1, <1>2 DEF PortsTypeOK
<1>6. /\ Ports' = Ports
      /\ \A q : Power(q)' = Power(q) /\ Clock(q)' = Clock(q) /\ Here(q)' = Here(q) /\ Twin(q)' = Twin(q)
  BY <1>1, RowStays
<1>7. CASE Skips(p, s)
  <2>1. UNCHANGED <<slot, on, speed, latest>>
    BY <1>1, <1>7
  <2>2. ~row.zeroed
    BY <1>3, <1>7 DEF Skips
  <2>3. PortsTypeOK'
    BY <1>1, <1>2, <1>5, <1>6, <2>1 DEF PortsTypeOK
  <2>4. SlotsFilled'
    BY <1>1, <1>2, <1>6, <2>1, <2>2 DEF SlotsFilled, ByTable
  <2>5. UsedIsOn'
    <3> SUFFICES ASSUME row.honest, row.init \notin {"changed", "handle"},
                        NEW q \in Ports, user'[q] # Unset, ~Twin(q)
                 PROVE  q \in flag' /\ Power(q) \in on'
      BY <1>1, <1>6 DEF UsedIsOn
    <3>1. CASE q = p
      <4>1. row.init = "kept" /\ p \in flag
        BY <1>7 DEF Skips
      <4> QED
        BY <1>1, <1>2, <2>1, <3>1, <4>1 DEF FlagIsOn
    <3>2. CASE q # p
      BY <1>1, <1>2, <1>5, <2>1, <3>2 DEF UsedIsOn
    <3> QED
      BY <3>1, <3>2
  <2>6. FlagIsOn'
    <3>1. row.honest /\ row.init \in {"kept", "install"} => p \in flag
      BY <1>7 DEF Skips
    <3>2. row.honest /\ row.init \in {"kept", "install"} => flag' = flag
      BY <1>1, <3>1
    <3> QED
      BY <1>1, <1>2, <1>6, <2>1, <3>2 DEF FlagIsOn
  <2>7. SettingInForce'
    <3> SUFFICES ASSUME row.init \in {"always", "changed", "install"}, row.honest,
                        NEW q \in Ports, user'[q] # Unset, latest'[Clock(q)] = q
                 PROVE  speed'[Clock(q)] = user'[q]
      BY <1>1, <1>6 DEF SettingInForce
    <3>1. speed[Clock(p)] = s
      BY <1>7 DEF Skips
    <3> QED
      BY <1>2, <1>5, <2>1, <3>1 DEF SettingInForce
  <2> QED
    BY <2>3, <2>4, <2>5, <2>6, <2>7 DEF PortsInv
<1>8. CASE ~Skips(p, s)
  <2>1. /\ on' = on \cup {Power(p)}
        /\ speed' = [speed EXCEPT ![Clock(p)] = s]
        /\ latest' = [latest EXCEPT ![Clock(p)] = p]
        /\ slot' = [slot EXCEPT ![p] = Here(p)]
    BY <1>1, <1>8 DEF Configured, Here
  <2>2. /\ Here(p) \in [power : Units, clock : Units]
        /\ slot'[p] = Here(p) /\ \A q \in Ports : q # p => slot'[q] = slot[q]
        /\ speed'[Clock(p)] = s /\ latest'[Clock(p)] = p
        /\ \A u \in Units : u # Clock(p) => speed'[u] = speed[u] /\ latest'[u] = latest[u]
    BY <1>2, <1>3, <2>1 DEF PortsTypeOK, Here
  <2>3. PortsTypeOK'
    BY <1>1, <1>2, <1>3, <1>5, <1>6, <2>1, <2>2 DEF PortsTypeOK
  <2>4. SlotsFilled'
    <3>1. \A q \in Ports : q # p /\ ByTable(q) => ByTable(q)'
      BY <1>1, <1>5, <2>2 DEF ByTable
    <3> QED
      BY <1>2, <1>6, <2>2, <3>1 DEF SlotsFilled
  <2>5. UsedIsOn'
    BY <1>1, <1>2, <1>5, <1>6, <2>1 DEF UsedIsOn
  <2>6. FlagIsOn'
    <3> SUFFICES ASSUME row.honest, row.init \in {"kept", "install"}, NEW q \in Ports
                 PROVE  (q \in flag' => Power(q) \in on') /\ (row.close = "off" /\ Power(q) \in on' => q \in flag')
      BY <1>1, <1>6 DEF FlagIsOn
    <3>1. q # p => Power(q) # Power(p)
      BY <1>3 DEF Twin
    <3> QED
      BY <1>1, <1>2, <2>1, <3>1 DEF FlagIsOn
  <2>7. SettingInForce'
    <3> SUFFICES ASSUME row.init \in {"always", "changed", "install"}, row.honest,
                        NEW q \in Ports, user'[q] # Unset, latest'[Clock(q)] = q
                 PROVE  speed'[Clock(q)] = user'[q]
      BY <1>1, <1>6 DEF SettingInForce
    <3>1. CASE q = p
      BY <1>5, <2>2, <3>1
    <3>2. CASE q # p
      <4>1. Clock(q) # Clock(p)
        BY <2>2, <3>2
      <4> QED
        BY <1>2, <1>3, <1>5, <2>2, <3>2, <4>1 DEF SettingInForce
    <3> QED
      BY <3>1, <3>2
  <2> QED
    BY <2>3, <2>4, <2>5, <2>6, <2>7 DEF PortsInv
<1> QED
  BY <1>7, <1>8

LEMMA OpenFailsKeeps ==
  ASSUME PortsInv, NEW p \in Ports, NEW s \in Settings, OpenFails(p, s)
  PROVE  PortsInv'
<1>1. /\ row' = row /\ slot' = slot
      /\ user' = [user EXCEPT ![p] = IF row.honest THEN Unset ELSE s]
      /\ ~Skips(p, s) /\ ~(row.init = "install" /\ p \in flag)
      /\ on' \in {on, on \ {Power(p)}}
      /\ \/ speed' = [speed EXCEPT ![Clock(p)] = s] /\ latest' = [latest EXCEPT ![Clock(p)] = p]
         \/ UNCHANGED <<speed, latest>>
      /\ flag' \in {flag, flag \cup {p}} /\ (row.honest /\ row.init # "changed" => flag' = flag)
  BY DEF OpenFails
<1>2. PortsTypeOK /\ SlotsFilled /\ UsedIsOn /\ FlagIsOn /\ SettingInForce
  BY DEF PortsInv
<1>3. /\ \A q \in Ports : Power(q) \in Units /\ Clock(q) \in Units
      /\ row.init \in {"kept", "install"} => ~row.zeroed /\ \A q \in Ports : ~Twin(q)
      /\ row.zeroed => row.init = "always"
  BY <1>2, RowFacts DEF PortsTypeOK
<1>5. /\ user \in [Ports -> Settings \cup {Unset}] /\ user'[p] = IF row.honest THEN Unset ELSE s
      /\ \A q \in Ports : q # p => user'[q] = user[q]
  BY <1>1, <1>2 DEF PortsTypeOK
<1>6. /\ Ports' = Ports
      /\ \A q : Power(q)' = Power(q) /\ Clock(q)' = Clock(q) /\ Here(q)' = Here(q) /\ Twin(q)' = Twin(q)
  BY <1>1, RowStays
<1>7. PortsTypeOK'
  <2>1. flag' \subseteq Ports /\ on' \subseteq Units /\ user' \in [Ports -> Settings \cup {Unset}]
    BY <1>1, <1>2 DEF PortsTypeOK
  <2>2. speed' \in [Units -> Settings \cup {Unset}] /\ latest' \in [Units -> Ports \cup {Unset}]
    BY <1>1, <1>2, <1>3 DEF PortsTypeOK
  <2> QED
    BY <1>1, <1>2, <1>6, <2>1, <2>2 DEF PortsTypeOK
<1>8. SlotsFilled'
  <2>1. \A q \in Ports : ByTable(q) => ByTable(q)'
    BY <1>1, <1>5 DEF ByTable
  <2> QED
    BY <1>1, <1>2, <1>6, <2>1 DEF SlotsFilled
<1>9. UsedIsOn'
  <2> SUFFICES ASSUME row.honest, row.init \notin {"changed", "handle"},
                      NEW q \in Ports, user'[q] # Unset, ~Twin(q)
               PROVE  q \in flag' /\ Power(q) \in on'
    BY <1>1, <1>6 DEF UsedIsOn
  <2>1. q # p
    BY <1>5
  <2>2. Power(q) # Power(p)
    BY <2>1 DEF Twin
  <2> QED
    BY <1>1, <1>2, <1>5, <2>1, <2>2 DEF UsedIsOn
<1>10. FlagIsOn'
  <2> SUFFICES ASSUME row.honest, row.init \in {"kept", "install"}, NEW q \in Ports
               PROVE  (q \in flag' => Power(q) \in on') /\ (row.close = "off" /\ Power(q) \in on' => q \in flag')
    BY <1>1, <1>6 DEF FlagIsOn
  <2>1. q # p => Power(q) # Power(p)
    BY <1>3 DEF Twin
  <2>2. p \notin flag /\ flag' = flag
    BY <1>1 DEF Skips
  <2> QED
    BY <1>1, <1>2, <2>1, <2>2 DEF FlagIsOn
<1>11. SettingInForce'
  <2> SUFFICES ASSUME row.init \in {"always", "changed", "install"}, row.honest,
                      NEW q \in Ports, user'[q] # Unset, latest'[Clock(q)] = q
               PROVE  speed'[Clock(q)] = user'[q]
    BY <1>1, <1>6 DEF SettingInForce
  <2>1. q # p
    BY <1>5
  <2>2. CASE speed' = [speed EXCEPT ![Clock(p)] = s] /\ latest' = [latest EXCEPT ![Clock(p)] = p]
    <3>1. Clock(q) # Clock(p)
      BY <1>2, <1>3, <2>1, <2>2 DEF PortsTypeOK
    <3>2. speed'[Clock(q)] = speed[Clock(q)] /\ latest'[Clock(q)] = latest[Clock(q)]
      BY <1>2, <1>3, <2>2, <3>1 DEF PortsTypeOK
    <3> QED
      BY <1>2, <1>5, <2>1, <3>2 DEF SettingInForce
  <2>3. CASE UNCHANGED <<speed, latest>>
    BY <1>2, <1>5, <2>1, <2>3 DEF SettingInForce
  <2> QED
    BY <1>1, <2>2, <2>3
<1> QED
  BY <1>7, <1>8, <1>9, <1>10, <1>11 DEF PortsInv

LEMMA CloseKeeps ==
  ASSUME PortsInv, NEW p \in Ports, Close(p)
  PROVE  PortsInv'
<1>1. /\ row' = row /\ slot' = slot /\ speed' = speed /\ latest' = latest
      /\ flag' = flag \ {p} /\ user' = [user EXCEPT ![p] = Unset]
      /\ on' = IF row.close = "off" THEN on \ {slot[p].power} ELSE on
  BY DEF Close
<1>2. PortsTypeOK /\ SlotsFilled /\ UsedIsOn /\ FlagIsOn /\ SettingInForce
  BY DEF PortsInv
<1>3. /\ \A q \in Ports : Power(q) \in Units /\ Clock(q) \in Units
      /\ row.init \in {"kept", "install"} => ~row.zeroed /\ \A q \in Ports : ~Twin(q)
      /\ row.zeroed => \A q \in Ports : Power(q) = 0 => Twin(q)
  BY <1>2, RowFacts DEF PortsTypeOK
<1>4. slot[p].power = Power(p) \/ (row.zeroed /\ slot[p].power = 0)
  BY <1>2, SlotFacts
<1>5. /\ user \in [Ports -> Settings \cup {Unset}] /\ user'[p] = Unset
      /\ \A q \in Ports : q # p => user'[q] = user[q]
  BY <1>1, <1>2 DEF PortsTypeOK
<1>6. /\ Ports' = Ports
      /\ \A q : Power(q)' = Power(q) /\ Clock(q)' = Clock(q) /\ Here(q)' = Here(q) /\ Twin(q)' = Twin(q)
  BY <1>1, RowStays
\* What a close switches off is the unit of no other port that has one to itself.
<1>7. \A q \in Ports : q # p /\ ~Twin(q) => slot[p].power # Power(q)
  BY <1>3, <1>4 DEF Twin
<1>8. PortsTypeOK'
  <2>1. flag' \subseteq Ports /\ on' \subseteq Units /\ user' \in [Ports -> Settings \cup {Unset}]
    BY <1>1, <1>2 DEF PortsTypeOK
  <2> QED
    BY <1>1, <1>2, <1>6, <2>1 DEF PortsTypeOK
<1>9. SlotsFilled'
  <2>1. \A q \in Ports : ByTable(q) => ByTable(q)'
    BY <1>1, <1>5 DEF ByTable
  <2> QED
    BY <1>1, <1>2, <1>6, <2>1 DEF SlotsFilled
<1>10. UsedIsOn'
  <2> SUFFICES ASSUME row.honest, row.init \notin {"changed", "handle"},
                      NEW q \in Ports, user'[q] # Unset, ~Twin(q)
               PROVE  q \in flag' /\ Power(q) \in on'
    BY <1>1, <1>6 DEF UsedIsOn
  <2>1. q # p
    BY <1>5
  <2> QED
    BY <1>1, <1>2, <1>5, <1>7, <2>1 DEF UsedIsOn
<1>11. FlagIsOn'
  <2> SUFFICES ASSUME row.honest, row.init \in {"kept", "install"}, NEW q \in Ports
               PROVE  (q \in flag' => Power(q) \in on') /\ (row.close = "off" /\ Power(q) \in on' => q \in flag')
    BY <1>1, <1>6 DEF FlagIsOn
  <2>1. q # p => slot[p].power # Power(q)
    BY <1>3, <1>7
  <2>2. slot[p].power = Power(p)
    BY <1>3, <1>4
  <2> QED
    BY <1>1, <1>2, <2>1, <2>2 DEF FlagIsOn
<1>12. SettingInForce'
  BY <1>1, <1>2, <1>5, <1>6 DEF SettingInForce
<1> QED
  BY <1>8, <1>9, <1>10, <1>11, <1>12 DEF PortsInv

LEMMA TuneKeeps ==
  ASSUME PortsInv, NEW p \in Ports, NEW s \in Settings, Tune(p, s)
  PROVE  PortsInv'
<1>1. /\ row' = row /\ slot' = slot /\ flag' = flag /\ on' = on
      /\ user' = [user EXCEPT ![p] = IF user[p] = Unset THEN Unset ELSE s]
      /\ IF row.tune = "stored" THEN UNCHANGED <<speed, latest>>
         ELSE /\ speed' = [speed EXCEPT ![slot[p].clock] = s]
              /\ latest' = [latest EXCEPT ![slot[p].clock] = p]
  BY DEF Tune
<1>2. PortsTypeOK /\ SlotsFilled /\ UsedIsOn /\ FlagIsOn /\ SettingInForce
  BY DEF PortsInv
<1>3. /\ \A q \in Ports : Power(q) \in Units /\ Clock(q) \in Units
      /\ row.tune = "stored" => row.init = "handle"
  BY <1>2, RowFacts DEF PortsTypeOK
<1>4. /\ slot[p].clock \in Units
      /\ row.honest /\ user[p] # Unset => slot[p].clock = Clock(p)
  BY <1>2, SlotFacts
<1>5. /\ user \in [Ports -> Settings \cup {Unset}]
      /\ user'[p] = IF user[p] = Unset THEN Unset ELSE s
      /\ \A q \in Ports : q # p => user'[q] = user[q]
  BY <1>1, <1>2 DEF PortsTypeOK
<1>6. /\ Ports' = Ports
      /\ \A q : Power(q)' = Power(q) /\ Clock(q)' = Clock(q) /\ Here(q)' = Here(q) /\ Twin(q)' = Twin(q)
  BY <1>1, RowStays
<1>7. \A q \in Ports : user'[q] # Unset => user[q] # Unset
  BY <1>5
<1>8. PortsTypeOK'
  <2>1. user' \in [Ports -> Settings \cup {Unset}]
    BY <1>1, <1>2 DEF PortsTypeOK
  <2>2. speed' \in [Units -> Settings \cup {Unset}] /\ latest' \in [Units -> Ports \cup {Unset}]
    BY <1>1, <1>2, <1>4 DEF PortsTypeOK
  <2> QED
    BY <1>1, <1>2, <1>6, <2>1, <2>2 DEF PortsTypeOK
<1>9. SlotsFilled'
  <2>1. \A q \in Ports : ByTable(q) => ByTable(q)'
    BY <1>1, <1>7 DEF ByTable
  <2> QED
    BY <1>1, <1>2, <1>6, <2>1 DEF SlotsFilled
<1>10. UsedIsOn'
  BY <1>1, <1>2, <1>6, <1>7 DEF UsedIsOn
<1>11. FlagIsOn'
  BY <1>1, <1>2, <1>6 DEF FlagIsOn
<1>12. SettingInForce'
  <2> SUFFICES ASSUME row.init \in {"always", "changed", "install"}, row.honest,
                      NEW q \in Ports, user'[q] # Unset, latest'[Clock(q)] = q
               PROVE  speed'[Clock(q)] = user'[q]
    BY <1>1, <1>6 DEF SettingInForce
  <2>1. /\ speed' = [speed EXCEPT ![slot[p].clock] = s]
        /\ latest' = [latest EXCEPT ![slot[p].clock] = p]
    BY <1>1, <1>3
  <2>2. CASE q = p
    <3>1. user[p] # Unset /\ slot[p].clock = Clock(p)
      BY <1>4, <1>7, <2>2
    <3> QED
      BY <1>2, <1>3, <1>5, <2>1, <2>2, <3>1 DEF PortsTypeOK
  <2>3. CASE q # p
    <3>1. Clock(q) # slot[p].clock
      BY <1>2, <1>4, <2>1, <2>3 DEF PortsTypeOK
    <3>2. speed'[Clock(q)] = speed[Clock(q)] /\ latest'[Clock(q)] = latest[Clock(q)]
      BY <1>2, <1>3, <2>1, <3>1 DEF PortsTypeOK
    <3> QED
      BY <1>2, <1>5, <2>3, <3>2 DEF SettingInForce
  <2> QED
    BY <2>2, <2>3
<1> QED
  BY <1>8, <1>9, <1>10, <1>11, <1>12 DEF PortsInv

LEMMA PortsStep == PortsInv /\ (PortsNext \/ UNCHANGED portVars) => PortsInv'
<1> SUFFICES ASSUME PortsInv, PortsNext \/ UNCHANGED portVars PROVE PortsInv'
  OBVIOUS
<1>1. CASE UNCHANGED portVars
  BY <1>1 DEF portVars, PortsInv, PortsTypeOK, SlotsFilled, ByTable, UsedIsOn, FlagIsOn, SettingInForce,
              Twin, Here, Ports, Power, Clock
<1>2. ASSUME NEW p \in Ports, Close(p) PROVE PortsInv'
  BY <1>2, CloseKeeps
<1>3. ASSUME NEW p \in Ports, NEW s \in Settings, Open(p, s) \/ OpenFails(p, s) \/ Tune(p, s)
      PROVE  PortsInv'
  BY <1>3, OpenKeeps, OpenFailsKeeps, TuneKeeps
<1> QED
  BY <1>1, <1>2, <1>3 DEF PortsNext

LEMMA PortsServed == PortsInv => PortsServe
<1> SUFFICES ASSUME PortsInv PROVE PortsServe
  OBVIOUS
<1>1. PortsTypeOK /\ SlotsFilled /\ UsedIsOn /\ FlagIsOn /\ SettingInForce
  BY DEF PortsInv
<1>2. OpenServes
  <2> SUFFICES ASSUME NEW p \in Ports, user[p] # Unset, ~Shared(p),
                      row.init \notin {"changed", "handle"}, row.honest
               PROVE  Outcome(p) = "done"
    BY DEF OpenServes
  <2>1. ~Twin(p)
    BY DEF Shared, Twin
  <2>2. slot[p].power = Power(p)
    BY <1>1, SlotFacts
  <2>3. p \in flag /\ slot[p].power \in on
    BY <1>1, <2>1, <2>2 DEF UsedIsOn
  <2> QED
    BY <2>3 DEF Outcome
<1>3. FlagTellsDriver
  BY <1>1 DEF FlagTellsDriver, FlagIsOn
<1> QED
  BY <1>1, <1>2, <1>3 DEF PortsServe

(* For any platforms whose rows are as the assumption says: a port that was opened serves
   its user with the setting that was asked for, and its flag tells whether its driver is
   there, whatever was opened, closed, tuned or failed before. *)
THEOREM OpenPortsServe == HardwareSpec => []PortsServe
<1>1. HardwareInit => PortsInv
  BY PortsStart DEF HardwareInit
<1>2. PortsInv /\ [HardwareNext]_hardwareVars => PortsInv'
  BY PortsStep DEF HardwareNext, hardwareVars, palVars, portVars
<1> QED
  BY <1>1, <1>2, PortsServed, PTL DEF HardwareSpec

-----------------------------------------------------------------------------
(* The interrupts of the pins.                                              *)

\* A pin that alone has its line, where lines are shared.
OwnLine(p) == plat = "stm32" => ~LineShared(p)

\* A wrapper's slot is used by the pin whose interrupt the wrapper is called for.
SlotsMatch == plat = "arduino" => \A a \in armed : slots[a.slot] = a.pin

\* A pin whose interrupt was asked for raises it, and has its function in the table.
AskedIsArmed ==
  plat # "rp2040" =>
    \A p \in asked : OwnLine(p) => Raised(p) /\ (plat # "arduino" => p \in cbs)

PinsInv == PinsTypeOK /\ SlotsMatch /\ AskedIsArmed

LEMMA Least ==
  ASSUME NEW T \in SUBSET Nat, T # {}
  PROVE  \E x \in T : \A y \in T : x =< y
<1> DEFINE R == OpToRel(<, Nat)
<1>1. IsWellFoundedOn(R, Nat)
  BY NatLessThanWellFounded
<1>2. ASSUME NEW x \in Nat, NEW y \in Nat, y < x PROVE <<y, x>> \in R
  BY <1>2 DEF OpToRel
<1> HIDE DEF R
<1>3. PICK x \in T : \A y \in T : ~(<<y, x>> \in R)
  BY <1>1, WFMin
<1>4. ASSUME NEW y \in T PROVE x =< y
  <2>1. ~(<<y, x>> \in R)
    BY <1>3
  <2>2. ~(y < x)
    BY <2>1, <1>2
  <2> QED
    BY <2>2
<1> QED
  BY <1>4

LEMMA MinIsThere ==
  ASSUME NEW T \in SUBSET Nat, T # {}
  PROVE  Min(T) \in T
BY Least DEF Min

LEMMA SlotForFits ==
  ASSUME NEW p, Mine(p) \cup Vacant # {}
  PROVE  SlotFor(p) \in IsrSlots /\ slots[SlotFor(p)] \in {p, NoPin}
<1>1. IsrSlots \subseteq Nat
  BY PinsAssumption DEF IsrSlots
<1>2. Mine(p) \in SUBSET Nat /\ Vacant \in SUBSET Nat
  BY <1>1 DEF Mine, Vacant
<1>3. CASE Mine(p) # {}
  <2>1. SlotFor(p) \in Mine(p)
    BY <1>2, <1>3, MinIsThere DEF SlotFor
  <2> QED
    BY <2>1 DEF Mine
<1>4. CASE Mine(p) = {}
  <2>1. SlotFor(p) \in Vacant
    BY <1>2, <1>4, MinIsThere DEF SlotFor
  <2> QED
    BY <2>1 DEF Vacant
<1> QED
  BY <1>3, <1>4

LEMMA PinsStart == PinsInit => PinsInv
BY DEF PinsInit, PinsInv, PinsTypeOK, SlotsMatch, AskedIsArmed

LEMMA InstallKeeps ==
  ASSUME PinsInv, NEW p \in Pins, SetInterrupt(p)
  PROVE  PinsInv'
<1>1. PinsTypeOK /\ SlotsMatch /\ AskedIsArmed /\ plat' = plat /\ 0 \in IsrSlots
  BY PinsAssumption DEF PinsInv, SetInterrupt, IsrSlots
<1>2. \A i \in IsrSlots : /\ Raise(p, i) \in [pin : Pins, slot : IsrSlots]
                          /\ Raise(p, i).pin = p /\ Raise(p, i).slot = i
  BY DEF Raise
<1>3. p # NoPin
  BY PinsAssumption
<1>4. CASE plat \in {"esp32s3", "rp2040"}
  <2>1. /\ cbs' = cbs \cup {p} /\ asked' = asked \cup {p} /\ slots' = slots
        /\ armed \subseteq armed' /\ armed' \subseteq armed \cup {Raise(p, 0)}
        /\ plat = "esp32s3" => Raise(p, 0) \in armed'
    BY <1>4 DEF SetInterrupt, InstallEsp32s3, InstallRp2040
  <2>2. PinsTypeOK'
    BY <1>1, <1>2, <2>1 DEF PinsTypeOK, IsrSlots
  <2>3. AskedIsArmed'
    BY <1>1, <1>2, <1>4, <2>1 DEF AskedIsArmed, OwnLine, LineShared, Line, Raised
  <2> QED
    BY <1>1, <1>4, <2>2, <2>3 DEF PinsInv, SlotsMatch
<1>5. CASE plat = "stm32"
  <2>1. /\ cbs' = cbs \cup {p} /\ asked' = asked \cup {p} /\ slots' = slots
        /\ armed' = {a \in armed : Line(a.pin) # Line(p)} \cup {Raise(p, 0)}
    BY <1>5 DEF SetInterrupt, InstallStm32
  <2>2. PinsTypeOK'
    BY <1>1, <1>2, <2>1 DEF PinsTypeOK, IsrSlots
  <2>3. AskedIsArmed'
    <3> SUFFICES ASSUME NEW q \in asked', ~LineShared(q)
                 PROVE  Raised(q)' /\ q \in cbs'
      BY <1>1, <1>5 DEF AskedIsArmed, OwnLine, LineShared, Line
    <3>1. CASE q = p
      BY <1>1, <1>2, <2>1, <3>1 DEF Raised
    <3>2. CASE q # p
      <4>1. q \in asked /\ q \in Pins /\ Line(q) # Line(p)
        BY <1>1, <2>1, <3>2 DEF PinsTypeOK, LineShared
      <4>2. PICK a \in armed : a.pin = q
        BY <1>1, <1>5, <4>1 DEF AskedIsArmed, OwnLine, Raised
      <4>3. a \in armed' /\ q \in cbs
        BY <1>1, <1>5, <2>1, <4>1, <4>2 DEF AskedIsArmed, OwnLine
      <4> QED
        BY <2>1, <4>2, <4>3 DEF Raised
    <3> QED
      BY <3>1, <3>2
  <2> QED
    BY <1>1, <1>5, <2>2, <2>3 DEF PinsInv, SlotsMatch
<1>6. CASE plat = "arduino"
  <2>1. PICK i : i = SlotFor(p)
    OBVIOUS
  <2>2. /\ Mine(p) \cup Vacant # {} /\ slots' = [slots EXCEPT ![i] = p] /\ cbs' = cbs
        /\ \/ armed' = Silent(p) \cup {Raise(p, i)} /\ asked' = asked \cup {p}
           \/ UNCHANGED <<armed, asked>>
    BY <1>6, <2>1 DEF SetInterrupt, InstallArduino
  <2>3. i \in IsrSlots /\ slots[i] \in {p, NoPin}
    BY <2>1, <2>2, SlotForFits
  <2>4. PinsTypeOK'
    <3>1. slots' \in [IsrSlots -> Pins \cup {NoPin}]
      BY <1>1, <2>2 DEF PinsTypeOK
    <3>2. armed' \subseteq [pin : Pins, slot : IsrSlots]
      BY <1>1, <1>2, <2>2, <2>3 DEF PinsTypeOK, Silent
    <3> QED
      BY <1>1, <2>2, <3>1, <3>2 DEF PinsTypeOK, IsrSlots
  <2>5. SlotsMatch'
    <3> SUFFICES ASSUME NEW a \in armed' PROVE slots'[a.slot] = a.pin
      BY DEF SlotsMatch
    <3>1. CASE a \in armed
      <4>1. a.pin \in Pins /\ a.slot \in IsrSlots /\ slots[a.slot] = a.pin
        BY <1>1, <1>6, <3>1 DEF PinsTypeOK, SlotsMatch
      <4>2. a.slot = i => a.pin = p
        BY <2>3, <4>1, PinsAssumption
      <4> QED
        BY <1>1, <2>2, <4>1, <4>2 DEF PinsTypeOK
    <3>2. CASE a = Raise(p, i)
      BY <1>1, <1>2, <2>2, <2>3, <3>2 DEF PinsTypeOK
    <3> QED
      BY <2>2, <3>1, <3>2 DEF Silent
  <2>6. AskedIsArmed'
    <3> SUFFICES ASSUME NEW q \in asked' PROVE Raised(q)'
      BY <1>1, <1>6 DEF AskedIsArmed
    <3>1. CASE armed' = Silent(p) \cup {Raise(p, i)} /\ asked' = asked \cup {p}
      BY <1>1, <1>2, <1>6, <2>3, <3>1 DEF AskedIsArmed, OwnLine, Raised, Silent
    <3>2. CASE UNCHANGED <<armed, asked>>
      BY <1>1, <1>6, <3>2 DEF AskedIsArmed, OwnLine, Raised
    <3> QED
      BY <2>2, <3>1, <3>2
  <2> QED
    BY <2>4, <2>5, <2>6 DEF PinsInv
<1> QED
  BY <1>1, <1>4, <1>5, <1>6, PinsAssumption DEF PinsTypeOK

LEMMA SilenceKeeps ==
  ASSUME PinsInv, NEW p \in Pins, RemoveInterrupt(p) \/ SetDirection(p)
  PROVE  PinsInv'
<1>1. PinsTypeOK /\ SlotsMatch /\ AskedIsArmed
  BY DEF PinsInv
<1>2. /\ plat' = plat /\ armed' = Silent(p) /\ asked' = asked \ {p}
      /\ cbs' \subseteq cbs /\ cbs \ {p} \subseteq cbs'
      /\ \/ slots' = [i \in IsrSlots |-> IF slots[i] = p THEN NoPin ELSE slots[i]]
         \/ slots' = slots
  BY DEF RemoveInterrupt, SetDirection
<1>3. \A a \in armed' : a \in armed /\ a.pin # p /\ a.slot \in IsrSlots
  BY <1>1, <1>2 DEF Silent, PinsTypeOK
<1>4. PinsTypeOK'
  <2>1. slots' \in [IsrSlots -> Pins \cup {NoPin}]
    BY <1>1, <1>2 DEF PinsTypeOK
  <2>2. armed' \subseteq armed
    BY <1>3
  <2> QED
    BY <1>1, <1>2, <2>1, <2>2 DEF PinsTypeOK, IsrSlots
<1>5. SlotsMatch'
  BY <1>1, <1>2, <1>3 DEF SlotsMatch
<1>6. AskedIsArmed'
  <2> SUFFICES ASSUME plat # "rp2040", NEW q \in asked, q # p, OwnLine(q)
               PROVE  Raised(q)' /\ (plat # "arduino" => q \in cbs')
    BY <1>2 DEF AskedIsArmed, OwnLine, LineShared, Line
  <2>1. PICK a \in armed : a.pin = q
    BY <1>1 DEF AskedIsArmed, Raised
  <2>2. a \in armed'
    BY <1>2, <2>1 DEF Silent
  <2> QED
    BY <1>1, <1>2, <2>1, <2>2 DEF AskedIsArmed, Raised
<1> QED
  BY <1>4, <1>5, <1>6 DEF PinsInv

LEMMA PinsStep == PinsInv /\ (PinsNext \/ UNCHANGED pinVars) => PinsInv'
<1> SUFFICES ASSUME PinsInv, PinsNext \/ UNCHANGED pinVars PROVE PinsInv'
  OBVIOUS
<1>1. CASE UNCHANGED pinVars
  BY <1>1 DEF pinVars, PinsInv, PinsTypeOK, SlotsMatch, AskedIsArmed, OwnLine, LineShared, Line, Raised, IsrSlots
<1>2. CASE PinsNext
  BY <1>2, InstallKeeps, SilenceKeeps DEF PinsNext
<1> QED
  BY <1>1, <1>2

LEMMA PinsServed == PinsInv => PinsServe
<1> SUFFICES ASSUME PinsInv PROVE PinsServe
  OBVIOUS
<1>1. PinsTypeOK /\ SlotsMatch /\ AskedIsArmed
  BY DEF PinsInv
<1>2. ASSUME NEW p \in Pins, OwnLine(p)
      PROVE  /\ Called(p) \subseteq {p}
             /\ p \in asked /\ plat # "rp2040" => Called(p) = {p}
  <2>1. p \in asked /\ plat # "rp2040" => Raised(p) /\ (plat # "arduino" => p \in cbs)
    BY <1>1, <1>2 DEF AskedIsArmed
  <2>2. CASE ~Raised(p)
    BY <2>1, <2>2 DEF Called
  <2>3. CASE Raised(p) /\ plat \in {"esp32s3", "rp2040"}
    BY <2>1, <2>3 DEF Called
  <2>4. CASE Raised(p) /\ plat = "stm32"
    <3> DEFINE S == {q \in cbs : Line(q) = Line(p)}
    <3>1. S \subseteq {p} /\ (p \in cbs => S = {p})
      BY <1>1, <1>2, <2>4 DEF PinsTypeOK, OwnLine, LineShared
    <3>2. S # {} => Min(S) = p
      BY <3>1, MinIsThere, PinsAssumption
    <3>3. Called(p) = IF S = {} THEN {} ELSE {Min(S)}
      BY <2>4 DEF Called
    <3> QED
      BY <2>1, <2>4, <3>1, <3>2, <3>3
  <2>5. CASE Raised(p) /\ plat = "arduino"
    <3>1. Called(p) = {slots[a.slot] : a \in {b \in armed : b.pin = p}} \ {NoPin}
      BY <2>5 DEF Called
    <3>2. \A a \in {b \in armed : b.pin = p} : slots[a.slot] = p
      BY <1>1, <2>5 DEF SlotsMatch
    <3>3. {b \in armed : b.pin = p} # {}
      BY <2>5 DEF Raised
    <3>4. Called(p) = {p}
      BY <3>1, <3>2, <3>3, PinsAssumption
    <3> QED
      BY <3>4
  <2> QED
    BY <1>1, <2>2, <2>3, <2>4, <2>5, PinsAssumption DEF PinsTypeOK
<1>3. OwnCallback
  BY <1>2 DEF OwnCallback, OwnLine
<1> QED
  BY <1>1, <1>3 DEF PinsServe

(* For any pins, lines and slots: an interrupt runs the function installed for its pin and
   no other, and a pin whose interrupt was asked for and not taken away has it, however the
   slots were reused. *)
THEOREM PinsAreServed == HardwareSpec => []PinsServe
<1>1. HardwareInit => PinsInv
  BY PinsStart DEF HardwareInit
<1>2. PinsInv /\ [HardwareNext]_hardwareVars => PinsInv'
  BY PinsStep DEF HardwareNext, hardwareVars, palVars, pinVars
<1> QED
  BY <1>1, <1>2, PinsServed, PTL DEF HardwareSpec

-----------------------------------------------------------------------------
(* The registry and its drivers.                                            *)

\* A slot of a board as the drivers expect it: the devices of its driver come first, and
\* came up in one pass.
Regular(i) == board[i] # NoDriver /\ Leading(i) /\ Smooth(i) /\ D(i).index # "single"

\* The only device of a driver that folds.
Single(i) == board[i] # NoDriver /\ Sole(i) /\ Smooth(i) /\ D(i).index = "fold"

\* The passes go over a board that is registered.
OnBoard ==
  \A i \in Slots : /\ reg[i] # "absent" => board[i] # NoDriver
                   /\ pass.kind # "idle" /\ board[i] # NoDriver => reg[i] # "absent"

NotBegun ==
  begun = 0 => /\ pass.kind # "init"
               /\ \A t \in Types : inst[t] = <<>>
               /\ \A i \in Slots : reg[i] # "up"

\* A pass of deinit leaves no slot up behind it.
DownBehind == pass.kind = "deinit" => \A j \in Slots : j < pass.pos => reg[j] # "up"

\* The instances of a driver are devices of the driver; a slot that is up has seen one made.
Placed ==
  /\ \A t \in Types : \A k \in 1 .. Len(inst[t]) : board[inst[t][k].dev] = t
  /\ \A i \in Slots : reg[i] = "up" => Own(i) # <<>>

\* Ready(i, x): instance x serves slot i.
Ready(i, x) == x.live /\ ("isr" \in D(i).needs => x.wired)

\* On a regular board the instances stand in the order of the slots, and a pass of init has
\* made one for every slot behind it.
InRow ==
  \A i \in Slots : Regular(i) =>
    /\ \A k \in 1 .. Len(Own(i)) : Own(i)[k].dev = k - 1
    /\ pass.kind = "init" /\ pass.pos =< i => Len(Own(i)) = pass.pos
    /\ reg[i] = "up" => i < Len(Own(i)) /\ Ready(i, Own(i)[i + 1])

Alone ==
  \A i \in Slots : Single(i) =>
    /\ Len(Own(i)) =< 1
    /\ pass.kind = "init" /\ pass.pos =< i => Len(Own(i)) = 0
    /\ reg[i] = "up" => Ready(i, Own(i)[1])

Replied == OwnDevice /\ (reply.kind # "error" => board[reply.dev] = board[reply.slot])

Claimed ==
  \A t \in Types :
    /\ inst[t] # <<>> => ("adc" \in Drv[t].needs => adc = t) /\ (Drv[t].timer[2] # 0 => t \in timed)
    /\ t \in timed /\ Drv[t].timer[2] # 0 /\ Agreed(t) => rate[Drv[t].timer[1]] = Drv[t].timer[2]

\* In the first life of the drivers a channel is open until the slot with its number is down.
Channels ==
  begun =< 1 =>
    /\ ~misuse
    /\ \A t \in Types : Drv[t].frees =>
         /\ pass.kind = "init" => \A k \in 1 .. Len(inst[t]) : inst[t][k].open
         /\ \A i \in Slots : board[i] = t /\ reg[i] = "up" /\ i < Len(inst[t]) => inst[t][i + 1].open

DriversInv ==
  /\ TypeOK
  /\ OnBoard /\ NotBegun /\ DownBehind
  /\ Placed /\ InRow /\ Alone
  /\ Replied /\ Claimed
  /\ OffWhenDown /\ Channels

LEMMA BoardFacts ==
  ASSUME TypeOK, NEW i \in Slots, board[i] # NoDriver
  PROVE  /\ board[i] \in Types /\ i \in Nat /\ i < NumSlots
         /\ D(i).max \in Nat \ {0} /\ D(i).index \in {"fold", "reject", "single"}
         /\ D(i).installs \in BOOLEAN /\ D(i).off \in BOOLEAN /\ D(i).frees \in BOOLEAN
         /\ D(i).timer[1] \in 0 .. 3 /\ D(i).timer[2] \in Nat
         /\ D(i).deinit \in {"counted", "live", "first", "always"}
         /\ Own(i) \in Seq(Instance) /\ Len(Own(i)) \in Nat
         /\ D(i).off \/ D(i).frees => D(i).index # "single" /\ D(i).deinit \in {"counted", "live"}
<1>1. board[i] \in Types /\ i \in Nat /\ i < NumSlots
  BY BoardsAssumption, NumSlotsAssumption DEF TypeOK, Slots
<1>2. Drv[board[i]] \in
        [max : Nat \ {0}, index : {"fold", "reject", "single"},
         needs : SUBSET {"hw", "isr", "adc"}, wants : SUBSET {"isr"},
         installs : BOOLEAN, timer : (0 .. 3) \X Nat,
         reads : {"device", "paced", "kept", "none"},
         onFail : SUBSET {"error", "stale", "madeup"}, checked : BOOLEAN,
         accepts : SUBSET {"write", "pwm", "text", "value"},
         deinit : {"counted", "live", "first", "always"},
         off : BOOLEAN, frees : BOOLEAN]
  BY <1>1, DrvAssumption
<1>3. /\ D(i).max \in Nat \ {0} /\ D(i).index \in {"fold", "reject", "single"}
      /\ D(i).installs \in BOOLEAN /\ D(i).off \in BOOLEAN /\ D(i).frees \in BOOLEAN
      /\ D(i).timer \in (0 .. 3) \X Nat
      /\ D(i).deinit \in {"counted", "live", "first", "always"}
  BY <1>2 DEF D
<1>4. D(i).timer[1] \in 0 .. 3 /\ D(i).timer[2] \in Nat
  BY <1>3
<1>5. Own(i) \in Seq(Instance) /\ Len(Own(i)) \in Nat
  BY <1>1 DEF TypeOK, Own
<1>6. D(i).off \/ D(i).frees => D(i).index # "single" /\ D(i).deinit \in {"counted", "live"}
  BY <1>1, DeinitAssumption DEF D
<1> QED
  BY <1>1, <1>3, <1>4, <1>5, <1>6

LEMMA DriversStart == Init => DriversInv
<1> SUFFICES ASSUME Init PROVE DriversInv
  OBVIOUS
<1>1. 0 \in Slots /\ 0 \in 0 .. NumSlots /\ 0 \in 0 .. MaxPasses
  BY NumSlotsAssumption DEF Slots
<1>2. TypeOK
  BY <1>1 DEF Init, TypeOK, Kinds
<1>3. \A t \in Types : inst[t] = <<>>
  BY DEF Init
<1>4. OnBoard /\ NotBegun /\ DownBehind
  BY <1>3 DEF Init, OnBoard, NotBegun, DownBehind
<1>5. \A i \in Slots : reg[i] # "up" /\ ~out[i]
  BY DEF Init
<1>6. Placed
  BY <1>3, <1>5 DEF Placed
<1>7. InRow /\ Alone
  <2>1. \A i \in Slots : board[i] # NoDriver => Own(i) = <<>>
    BY <1>2, <1>3, BoardFacts DEF Own
  <2> QED
    BY <1>5, <2>1 DEF InRow, Alone, Regular, Single, Init
<1>8. Replied /\ OffWhenDown
  BY <1>5 DEF Init, Replied, OwnDevice, OffWhenDown
<1>9. Claimed
  BY <1>3 DEF Init, Claimed
<1>10. Channels
  BY <1>3, <1>5 DEF Init, Channels
<1> QED
  BY <1>2, <1>4, <1>6, <1>7, <1>8, <1>9, <1>10 DEF DriversInv

LEMMA NextSlotFacts ==
  ASSUME TypeOK, NextSlot, pass.pos \in Slots
  PROVE  /\ pass' \in [kind : {"idle", "init", "deinit"}, pos : 0 .. NumSlots]
         /\ pass'.kind = pass.kind /\ pass'.pos = pass.pos + 1
         /\ pass.pos \in Nat
<1>1. pass \in [kind : {"idle", "init", "deinit"}, pos : 0 .. NumSlots]
  BY DEF TypeOK
<1>2. pass' = [pass EXCEPT !.pos = pass.pos + 1]
  BY DEF NextSlot
<1>3. pass.pos \in Nat /\ pass.pos + 1 \in 0 .. NumSlots
  BY NumSlotsAssumption DEF Slots
<1> QED
  BY <1>1, <1>2, <1>3

\* The steps that make no device work and end none.
LEMMA CalmStep ==
  ASSUME DriversInv, TypeOK', OnBoard', DownBehind',
         UNCHANGED <<board, begun, failed, inst, adc, rate, timed, out, reply, misuse>>,
         \A i \in Slots : reg'[i] = "up" <=> reg[i] = "up",
         pass'.kind = "init" =>
            /\ pass.kind = "init"
            /\ \/ pass'.pos = pass.pos
               \/ pass'.pos = pass.pos + 1 /\ board[pass.pos] = NoDriver
  PROVE  DriversInv'
<1>1. TypeOK /\ NotBegun /\ Placed /\ InRow /\ Alone /\ Replied /\ Claimed /\ OffWhenDown /\ Channels
  BY DEF DriversInv
<1>2. /\ pass.pos \in Nat /\ \A i \in Slots : i \in Nat
  BY <1>1, NumSlotsAssumption DEF TypeOK, Slots
<1>3. /\ \A i : D(i)' = D(i) /\ Own(i)' = Own(i)
      /\ \A i : Sole(i)' = Sole(i) /\ Leading(i)' = Leading(i) /\ Smooth(i)' = Smooth(i)
      /\ \A t : Agreed(t)' = Agreed(t)
  BY DEF D, Own, Sole, Leading, Smooth, Agreed
<1>4. \A i : Regular(i)' = Regular(i) /\ Single(i)' = Single(i) /\ \A x : Ready(i, x)' = Ready(i, x)
  BY <1>3 DEF Regular, Single, Ready
<1>5. NotBegun'
  BY <1>1 DEF NotBegun
<1>6. Placed'
  BY <1>1, <1>3 DEF Placed
\* The pass goes over a slot that no device of the driver uses.
<1>7. ASSUME NEW i \in Slots, pass'.kind = "init", pass'.pos =< i
      PROVE  /\ pass.kind = "init" /\ pass.pos =< i
             /\ Regular(i) => pass'.pos = pass.pos
  <2>1. pass.pos =< i
    BY <1>2, <1>7
  <2>2. CASE pass'.pos = pass.pos + 1 /\ board[pass.pos] = NoDriver
    <3>1. pass.pos \in 0 .. i
      BY <1>2, <2>1
    <3>2. Leading(i) => board[pass.pos] = board[i]
      BY <3>1 DEF Leading
    <3> QED
      BY <1>7, <2>1, <2>2, <3>2 DEF Regular
  <2> QED
    BY <1>7, <2>1, <2>2
<1>8. InRow'
  BY <1>1, <1>3, <1>4, <1>7 DEF InRow
<1>9. Alone'
  BY <1>1, <1>3, <1>4, <1>7 DEF Alone
<1>10. Replied'
  BY <1>1, <1>3 DEF Replied, OwnDevice
<1>11. Claimed'
  BY <1>1, <1>3 DEF Claimed
<1>12. OffWhenDown'
  BY <1>1, <1>3 DEF OffWhenDown
<1>13. Channels'
  BY <1>1 DEF Channels
<1> QED
  BY <1>5, <1>6, <1>8, <1>9, <1>10, <1>11, <1>12, <1>13 DEF DriversInv

LEMMA RegisterKeeps ==
  ASSUME DriversInv, NEW i \in Slots, Register(i)
  PROVE  DriversInv'
<1>1. TypeOK /\ OnBoard /\ pass.kind = "idle" /\ pass' = pass
  BY DEF DriversInv, Register
<1>2. reg' \in [Slots -> {"absent", "known", "up"}] /\ reg'[i] = "known" /\ reg[i] = "absent"
      /\ \A j \in Slots : j # i => reg'[j] = reg[j]
  BY <1>1 DEF TypeOK, Register
<1>3. TypeOK'
  BY <1>1, <1>2 DEF TypeOK, Register
<1>4. OnBoard' /\ DownBehind'
  BY <1>1, <1>2 DEF OnBoard, DownBehind, Register
<1>5. \A j \in Slots : reg'[j] = "up" <=> reg[j] = "up"
  BY <1>2
<1>6. UNCHANGED <<board, begun, failed, inst, adc, rate, timed, out, reply, misuse>>
  BY DEF Register
<1> QED
  BY <1>1, <1>3, <1>4, <1>5, <1>6, CalmStep

LEMMA SkipKeeps ==
  ASSUME DriversInv, NEW i \in Slots, SkipSlot(i)
  PROVE  DriversInv'
<1>1. TypeOK /\ OnBoard /\ DownBehind /\ NextSlot /\ pass.pos = i /\ pass.kind # "idle"
      /\ (reg[i] = "absent" \/ (pass.kind = "deinit" /\ reg[i] # "up"))
  BY DEF DriversInv, SkipSlot
<1>2. /\ pass' \in [kind : {"idle", "init", "deinit"}, pos : 0 .. NumSlots]
      /\ pass'.kind = pass.kind /\ pass'.pos = i + 1 /\ i \in Nat
  BY <1>1, NextSlotFacts
<1>3. UNCHANGED <<board, reg, begun, failed, inst, adc, isr, rate, timed, faulty, out, reply, misuse>>
  BY DEF SkipSlot
<1>4. TypeOK'
  BY <1>1, <1>2, <1>3 DEF TypeOK
<1>5. OnBoard'
  BY <1>1, <1>2, <1>3 DEF OnBoard
<1>6. DownBehind'
  <2>1. \A j \in Slots : j < i + 1 => j < i \/ j = i
    BY <1>2, NumSlotsAssumption DEF Slots
  <2> QED
    BY <1>1, <1>2, <1>3, <2>1 DEF DownBehind
<1>7. pass'.kind = "init" => board[pass.pos] = NoDriver
  BY <1>1, <1>2 DEF OnBoard
<1> QED
  BY <1>1, <1>2, <1>3, <1>4, <1>5, <1>6, <1>7, CalmStep

LEMMA EndPassKeeps ==
  ASSUME DriversInv, EndPass
  PROVE  DriversInv'
<1>1. TypeOK /\ OnBoard /\ pass' = [kind |-> "idle", pos |-> 0]
      /\ UNCHANGED <<board, reg, begun, failed, inst, adc, isr, rate, timed, faulty, out, reply, misuse>>
  BY DEF DriversInv, EndPass
<1>2. TypeOK'
  BY <1>1, NumSlotsAssumption DEF TypeOK
<1>3. OnBoard' /\ DownBehind'
  BY <1>1 DEF OnBoard, DownBehind
<1>4. pass'.kind # "init"
  BY <1>1
<1> QED
  BY <1>1, <1>2, <1>3, <1>4, CalmStep

LEMMA FaultKeeps ==
  ASSUME DriversInv, NEW i \in Slots, Fault(i)
  PROVE  DriversInv'
<1>1. TypeOK /\ OnBoard /\ DownBehind
  BY DEF DriversInv
<1>2. UNCHANGED <<board, reg, pass, begun, failed, inst, adc, isr, rate, timed, out, reply, misuse>>
      /\ faulty' = IF i \in faulty THEN faulty \ {i} ELSE faulty \cup {i}
  BY DEF Fault
<1>3. TypeOK'
  BY <1>1, <1>2 DEF TypeOK
<1>4. OnBoard' /\ DownBehind'
  BY <1>1, <1>2 DEF OnBoard, DownBehind
<1> QED
  BY <1>2, <1>3, <1>4, CalmStep

LEMMA BeginKeeps ==
  ASSUME DriversInv, NEW kind \in {"init", "deinit"}, BeginPass(kind)
  PROVE  DriversInv'
<1>1. TypeOK /\ OnBoard /\ NotBegun /\ Placed /\ InRow /\ Alone /\ Replied /\ Claimed /\ OffWhenDown /\ Channels
  BY DEF DriversInv
<1>2. /\ pass.kind = "idle" /\ \A i \in Slots : board[i] # NoDriver => reg[i] # "absent"
      /\ pass' = [kind |-> kind, pos |-> 0]
      /\ kind = "init" => begun < MaxPasses
      /\ begun' = IF kind = "init" THEN begun + 1 ELSE begun
      /\ UNCHANGED <<board, reg, failed, inst, adc, isr, rate, timed, faulty, out, reply, misuse>>
  BY DEF BeginPass
<1>3. begun \in Nat /\ \A i \in Slots : i \in Nat
  BY <1>1, NumSlotsAssumption DEF TypeOK, Slots
<1>4. TypeOK'
  <2>1. begun' \in 0 .. MaxPasses
    BY <1>1, <1>2, NumSlotsAssumption DEF TypeOK
  <2>2. pass' \in [kind : {"idle", "init", "deinit"}, pos : 0 .. NumSlots]
    BY <1>2, NumSlotsAssumption
  <2> QED
    BY <1>1, <1>2, <2>1, <2>2 DEF TypeOK
<1>5. OnBoard' /\ DownBehind'
  BY <1>1, <1>2, <1>3 DEF OnBoard, DownBehind
<1>6. CASE kind = "deinit"
  BY <1>2, <1>4, <1>5, <1>6, CalmStep
<1>7. CASE kind = "init"
  <2>1. pass'.pos = 0 /\ pass'.kind = "init" /\ begun' = begun + 1
    BY <1>2, <1>7
  <2>2. /\ \A i : D(i)' = D(i) /\ Own(i)' = Own(i)
        /\ \A i : Sole(i)' = Sole(i) /\ Leading(i)' = Leading(i)
        /\ \A t : Agreed(t)' = Agreed(t)
    BY <1>2 DEF D, Own, Sole, Leading, Agreed
  <2>3. begun' =< 1 => begun = 0
    BY <1>3, <2>1
  <2>4. \A i : Smooth(i)' => begun = 0 /\ Smooth(i)
    BY <1>2, <1>3, <2>3 DEF Smooth
  <2>5. \A i \in Slots : Regular(i)' \/ Single(i)' => Own(i)' = <<>> /\ reg'[i] # "up"
    <3> TAKE i \in Slots
    <3>1. board[i] # NoDriver => board[i] \in Types
      BY <1>1, BoardFacts
    <3> QED
      BY <1>1, <1>2, <2>4, <3>1 DEF Regular, Single, NotBegun, Own
  <2>6. NotBegun'
    BY <1>3, <2>1 DEF NotBegun
  <2>7. Placed'
    BY <1>1, <1>2, <2>2 DEF Placed
  <2>8. InRow' /\ Alone'
    <3>1. InRow'
      BY <1>3, <2>1, <2>5 DEF InRow
    <3>2. Alone'
      BY <2>5 DEF Alone
    <3> QED
      BY <3>1, <3>2
  <2>9. Replied' /\ OffWhenDown'
    <3>1. Replied'
      BY <1>1, <1>2, <2>2, <2>4 DEF Replied, OwnDevice
    <3>2. OffWhenDown'
      BY <1>1, <1>2, <2>2, <2>4 DEF OffWhenDown
    <3> QED
      BY <3>1, <3>2
  <2>10. Claimed'
    BY <1>1, <1>2, <2>2 DEF Claimed
  <2>11. Channels'
    BY <1>1, <1>2, <2>3 DEF Channels, NotBegun
  <2> QED
    BY <1>4, <1>5, <2>6, <2>7, <2>8, <2>9, <2>10, <2>11 DEF DriversInv
<1> QED
  BY <1>6, <1>7

\* What init claims keeps what others have claimed.
LEMMA ClaimFacts ==
  ASSUME TypeOK, Claimed, NEW i \in Slots, board[i] # NoDriver, ~Missing(i), Claim(i)
  PROVE  /\ adc' \in Types \cup {NoDriver} /\ isr' \in BOOLEAN
         /\ rate' \in [0 .. 3 -> Nat] /\ timed' \subseteq Types /\ timed \subseteq timed'
         /\ \A t \in Types : "adc" \in Drv[t].needs /\ adc = t => adc' = t
         /\ "adc" \in D(i).needs => adc' = board[i]
         /\ D(i).timer[2] # 0 => board[i] \in timed'
         /\ \A t \in timed' : Drv[t].timer[2] # 0 /\ Agreed(t) => rate'[Drv[t].timer[1]] = Drv[t].timer[2]
         /\ "isr" \in D(i).needs => isr'
<1>1. /\ board[i] \in Types /\ D(i).installs \in BOOLEAN
      /\ D(i).timer[1] \in 0 .. 3 /\ D(i).timer[2] \in Nat
  BY BoardFacts
<1>2. /\ adc \in Types \cup {NoDriver} /\ isr \in BOOLEAN /\ rate \in [0 .. 3 -> Nat] /\ timed \subseteq Types
  BY DEF TypeOK
<1>3. /\ adc' = IF "adc" \in D(i).needs THEN board[i] ELSE adc
      /\ isr' = (isr \/ D(i).installs)
      /\ IF D(i).timer[2] = 0 \/ board[i] \in timed
         THEN UNCHANGED <<rate, timed>>
         ELSE /\ rate' = [rate EXCEPT ![D(i).timer[1]] = D(i).timer[2]]
              /\ timed' = timed \cup {board[i]}
  BY DEF Claim
<1>4. "adc" \in D(i).needs => adc \in {NoDriver, board[i]}
  BY DEF Missing
<1>5. \A t \in Types : "adc" \in Drv[t].needs /\ adc = t => adc' = t
  BY <1>3, <1>4, NoDriverAssumption
<1>6. "isr" \in D(i).needs => isr'
  BY <1>3 DEF Missing
<1>7. /\ adc' \in Types \cup {NoDriver} /\ isr' \in BOOLEAN
      /\ rate' \in [0 .. 3 -> Nat] /\ timed' \subseteq Types /\ timed \subseteq timed'
      /\ D(i).timer[2] # 0 => board[i] \in timed'
  BY <1>1, <1>2, <1>3
<1>8. ASSUME NEW t \in timed', Drv[t].timer[2] # 0, Agreed(t)
      PROVE  rate'[Drv[t].timer[1]] = Drv[t].timer[2]
  <2>1. CASE D(i).timer[2] = 0 \/ board[i] \in timed
    BY <1>2, <1>3, <1>8, <2>1 DEF Claimed
  <2>2. CASE ~(D(i).timer[2] = 0 \/ board[i] \in timed)
    <3>1. rate' = [rate EXCEPT ![D(i).timer[1]] = D(i).timer[2]] /\ timed' = timed \cup {board[i]}
      BY <1>3, <2>2
    <3>2. CASE Drv[t].timer[1] = D(i).timer[1]
      <4>1. D(i).timer = Drv[t].timer
        BY <1>8, <2>2, <3>2 DEF Agreed
      <4> QED
        BY <1>1, <1>2, <3>1, <4>1
    <3>3. CASE Drv[t].timer[1] # D(i).timer[1]
      <4>1. t \in timed
        BY <3>1, <3>3 DEF D
      <4>2. rate[Drv[t].timer[1]] = Drv[t].timer[2]
        BY <1>2, <1>8, <4>1 DEF Claimed
      <4>3. Drv[t].timer[1] \in 0 .. 3
        BY <1>2, <4>1, DrvAssumption
      <4> QED
        BY <1>1, <1>2, <3>1, <3>3, <4>2, <4>3
    <3> QED
      BY <3>2, <3>3
  <2> QED
    BY <2>1, <2>2
<1> QED
  BY <1>3, <1>5, <1>6, <1>7, <1>8

LEMMA InitFailsKeeps ==
  ASSUME DriversInv, NEW i \in Slots, InitFails(i)
  PROVE  DriversInv'
<1>1. /\ TypeOK /\ OnBoard /\ NotBegun /\ DownBehind /\ Placed /\ InRow /\ Alone
      /\ Replied /\ Claimed /\ OffWhenDown /\ Channels
  BY DEF DriversInv
<1>2. /\ pass.kind = "init" /\ pass.pos = i /\ reg[i] # "absent" /\ NextSlot
      /\ failed' = failed \cup {board[i]}
      /\ \/ UNCHANGED <<adc, isr, rate, timed>>
         \/ ~Missing(i) /\ Claim(i)
      /\ UNCHANGED <<board, reg, begun, inst, faulty, out, reply, misuse>>
  BY DEF InitFails
<1>3. /\ pass' \in [kind : {"idle", "init", "deinit"}, pos : 0 .. NumSlots]
      /\ pass'.kind = "init" /\ pass'.pos = i + 1
  BY <1>1, <1>2, NextSlotFacts
<1>4. board[i] # NoDriver /\ board[i] \in Types
  BY <1>1, <1>2, BoardFacts DEF OnBoard
<1>5. \A j \in Slots : j \in Nat /\ (i + 1 =< j => i \in 0 .. j /\ i =< j)
  BY NumSlotsAssumption DEF Slots
<1>6. /\ \A j : D(j)' = D(j) /\ Own(j)' = Own(j)
      /\ \A j : Sole(j)' = Sole(j) /\ Leading(j)' = Leading(j)
      /\ \A j : Smooth(j)' => Smooth(j) /\ board[j] # board[i]
      /\ \A t : Agreed(t)' = Agreed(t)
  BY <1>2 DEF D, Own, Sole, Leading, Smooth, Agreed
<1>7. \A j : /\ (Regular(j)' => Regular(j) /\ board[j] # board[i]) /\ (Single(j)' => Single(j))
             /\ \A x : Ready(j, x)' = Ready(j, x)
  BY <1>2, <1>6 DEF Regular, Single, Ready
<1>8. /\ adc' \in Types \cup {NoDriver} /\ isr' \in BOOLEAN /\ rate' \in [0 .. 3 -> Nat] /\ timed' \subseteq Types
      /\ Claimed'
  <2>1. CASE UNCHANGED <<adc, isr, rate, timed>>
    BY <1>1, <1>2, <1>6, <2>1 DEF TypeOK, Claimed
  <2>2. CASE ~Missing(i) /\ Claim(i)
    <3>1. /\ adc' \in Types \cup {NoDriver} /\ isr' \in BOOLEAN
          /\ rate' \in [0 .. 3 -> Nat] /\ timed' \subseteq Types /\ timed \subseteq timed'
          /\ \A t \in Types : "adc" \in Drv[t].needs /\ adc = t => adc' = t
          /\ \A t \in timed' : Drv[t].timer[2] # 0 /\ Agreed(t) => rate'[Drv[t].timer[1]] = Drv[t].timer[2]
      BY <1>1, <1>4, <2>2, ClaimFacts
    <3> QED
      BY <1>1, <1>2, <1>6, <3>1 DEF Claimed
  <2> QED
    BY <1>2, <2>1, <2>2
<1>9. TypeOK'
  BY <1>1, <1>2, <1>3, <1>4, <1>8 DEF TypeOK
<1>10. OnBoard' /\ NotBegun' /\ DownBehind'
  BY <1>1, <1>2, <1>3 DEF OnBoard, NotBegun, DownBehind
<1>11. Placed'
  BY <1>1, <1>2, <1>6 DEF Placed
<1>12. InRow'
  <2> SUFFICES ASSUME NEW j \in Slots, Regular(j), board[j] # board[i]
               PROVE  /\ \A k \in 1 .. Len(Own(j)) : Own(j)[k].dev = k - 1
                      /\ ~(i + 1 =< j)
                      /\ reg[j] = "up" => j < Len(Own(j)) /\ Ready(j, Own(j)[j + 1])
    BY <1>2, <1>3, <1>6, <1>7 DEF InRow
  <2>1. ~(i + 1 =< j)
    BY <1>5 DEF Regular, Leading
  <2> QED
    BY <1>1, <2>1 DEF InRow
<1>13. Alone'
  BY <1>1, <1>2, <1>3, <1>5, <1>6, <1>7 DEF Alone
<1>14. Replied'
  BY <1>1, <1>2, <1>6 DEF Replied, OwnDevice
<1>15. OffWhenDown'
  BY <1>1, <1>2, <1>6 DEF OffWhenDown
<1>16. Channels'
  BY <1>1, <1>2, <1>3 DEF Channels
<1> QED
  BY <1>8, <1>9, <1>10, <1>11, <1>12, <1>13, <1>14, <1>15, <1>16 DEF DriversInv

\* Devices of one driver are regular together.
LEMMA SameDriver ==
  ASSUME NEW i \in Slots, NEW j \in Slots, board[i] = board[j], Regular(j)
  PROVE  Regular(i)
BY DEF Regular, Leading, Smooth, D

\* The instance that init makes.
LEMMA InitMakes ==
  ASSUME TypeOK, NEW i \in Slots, board[i] # NoDriver, ~Missing(i), Claim(i), InitOk(i)
  PROVE  \E new \in Instance :
           /\ new.dev = i /\ Ready(i, new) /\ new.open = D(i).frees
           /\ inst' = [inst EXCEPT ![board[i]] =
                         IF D(i).index = "single" THEN <<new>> ELSE Append(inst[board[i]], new)]
<1>1. PICK new : /\ new = [dev |-> i, live |-> TRUE, held |-> FALSE,
                           wired |-> ("isr" \in D(i).needs \cup D(i).wants => isr'), open |-> D(i).frees]
                 /\ inst' = [inst EXCEPT ![board[i]] =
                               IF D(i).index = "single" THEN <<new>> ELSE Append(inst[board[i]], new)]
  BY Zenon DEF InitOk
<1>2. D(i).frees \in BOOLEAN
  BY BoardFacts
<1>3. "isr" \in D(i).needs => isr'
  BY DEF Claim, Missing
<1>4. new \in Instance /\ new.dev = i /\ new.live /\ new.open = D(i).frees
  BY <1>1, <1>2 DEF Instance
<1>5. "isr" \in D(i).needs => new.wired
  BY <1>1, <1>3
<1> QED
  BY <1>1, <1>4, <1>5 DEF Ready

LEMMA InitOkKeeps ==
  ASSUME DriversInv, NEW i \in Slots, InitOk(i)
  PROVE  DriversInv'
<1>1. /\ TypeOK /\ OnBoard /\ NotBegun /\ DownBehind /\ Placed /\ InRow /\ Alone
      /\ Replied /\ Claimed /\ OffWhenDown /\ Channels
  BY DEF DriversInv
<1>2. /\ pass.kind = "init" /\ pass.pos = i /\ reg[i] # "absent" /\ NextSlot
      /\ ~Missing(i) /\ Claim(i)
      /\ out' = [out EXCEPT ![i] = FALSE] /\ reg' = [reg EXCEPT ![i] = "up"]
      /\ UNCHANGED <<board, begun, failed, faulty, reply, misuse>>
  BY DEF InitOk
<1>3. /\ pass' \in [kind : {"idle", "init", "deinit"}, pos : 0 .. NumSlots]
      /\ pass'.kind = "init" /\ pass'.pos = i + 1
  BY <1>1, <1>2, NextSlotFacts
<1>4. board[i] # NoDriver /\ board[i] \in Types /\ Own(i) \in Seq(Instance) /\ Len(Own(i)) \in Nat
  BY <1>1, <1>2, BoardFacts DEF OnBoard
<1>5. PICK new \in Instance :
        /\ new.dev = i /\ Ready(i, new) /\ new.open = D(i).frees
        /\ inst' = [inst EXCEPT ![board[i]] =
                      IF D(i).index = "single" THEN <<new>> ELSE Append(inst[board[i]], new)]
  BY <1>1, <1>2, <1>4, InitMakes
<1>6. \A j \in Slots : j \in Nat /\ (i + 1 =< j => i \in 0 .. j /\ i =< j)
  BY NumSlotsAssumption DEF Slots
<1>7. /\ \A j : D(j)' = D(j) /\ Sole(j)' = Sole(j) /\ Leading(j)' = Leading(j) /\ Smooth(j)' = Smooth(j)
      /\ \A t : Agreed(t)' = Agreed(t)
  BY <1>2 DEF D, Sole, Leading, Smooth, Agreed
<1>8. \A j : /\ Regular(j)' = Regular(j) /\ Single(j)' = Single(j)
             /\ \A x : Ready(j, x)' = Ready(j, x)
  BY <1>2, <1>7 DEF Regular, Single, Ready
<1>9. /\ reg' \in [Slots -> {"absent", "known", "up"}] /\ reg'[i] = "up"
      /\ out' \in [Slots -> BOOLEAN] /\ ~out'[i]
      /\ \A j \in Slots : j # i => reg'[j] = reg[j] /\ out'[j] = out[j]
  BY <1>1, <1>2 DEF TypeOK
\* What becomes of the instances.
<1>10. /\ inst \in [Types -> Seq(Instance)]
       /\ \A t \in Types : t # board[i] => inst'[t] = inst[t]
       /\ inst'[board[i]] = IF D(i).index = "single" THEN <<new>> ELSE Append(Own(i), new)
       /\ DOMAIN inst' = Types
  BY <1>1, <1>4, <1>5 DEF TypeOK, Own
<1>11. /\ inst'[board[i]] \in Seq(Instance) /\ inst'[board[i]] # <<>>
       /\ D(i).index # "single" =>
            /\ Len(inst'[board[i]]) = Len(Own(i)) + 1
            /\ \A k \in 1 .. Len(Own(i)) : inst'[board[i]][k] = Own(i)[k]
            /\ inst'[board[i]][Len(Own(i)) + 1] = new
       /\ \A k \in 1 .. Len(inst'[board[i]]) :
            inst'[board[i]][k] = new \/ (k \in 1 .. Len(Own(i)) /\ inst'[board[i]][k] = Own(i)[k])
  <2>1. CASE D(i).index = "single"
    <3>1. /\ inst'[board[i]] = <<new>> /\ <<new>> \in Seq(Instance)
          /\ Len(<<new>>) = 1 /\ <<new>>[1] = new /\ <<new>> # <<>>
      BY <1>10, <2>1
    <3> QED
      BY <2>1, <3>1
  <2>2. CASE D(i).index # "single"
    <3>1. inst'[board[i]] = Append(Own(i), new)
      BY <1>10, <2>2
    <3>2. /\ Append(Own(i), new) \in Seq(Instance) /\ Append(Own(i), new) # <<>>
          /\ Len(Append(Own(i), new)) = Len(Own(i)) + 1
          /\ \A k \in 1 .. Len(Own(i)) : Append(Own(i), new)[k] = Own(i)[k]
          /\ Append(Own(i), new)[Len(Own(i)) + 1] = new
      BY <1>4, AppendProperties
    <3>3. \A k \in 1 .. Len(Own(i)) + 1 : k \in 1 .. Len(Own(i)) \/ k = Len(Own(i)) + 1
      BY <1>4
    <3> QED
      BY <2>2, <3>1, <3>2, <3>3
  <2> QED
    BY <2>1, <2>2
<1>12. \A j \in Slots : /\ Own(j)' = inst'[board[j]]
                        /\ board[j] # NoDriver /\ board[j] # board[i] => Own(j)' = Own(j)
  <2>1. \A j \in Slots : board[j] # NoDriver => board[j] \in Types
    BY <1>1, BoardFacts
  <2> QED
    BY <1>2, <1>10, <2>1 DEF Own
<1>13. /\ adc' \in Types \cup {NoDriver} /\ isr' \in BOOLEAN
       /\ rate' \in [0 .. 3 -> Nat] /\ timed' \subseteq Types /\ timed \subseteq timed'
       /\ \A t \in Types : "adc" \in Drv[t].needs /\ adc = t => adc' = t
       /\ "adc" \in D(i).needs => adc' = board[i]
       /\ D(i).timer[2] # 0 => board[i] \in timed'
       /\ \A t \in timed' : Drv[t].timer[2] # 0 /\ Agreed(t) => rate'[Drv[t].timer[1]] = Drv[t].timer[2]
  BY <1>1, <1>2, <1>4, ClaimFacts
<1>14. TypeOK'
  <2>1. inst' \in [Types -> Seq(Instance)]
    BY <1>5, <1>10, <1>11
  <2> QED
    BY <1>1, <1>2, <1>3, <1>9, <1>13, <2>1 DEF TypeOK
<1>15. OnBoard' /\ NotBegun' /\ DownBehind'
  BY <1>1, <1>2, <1>3, <1>4, <1>9 DEF OnBoard, NotBegun, DownBehind
<1>16. Placed'
  <2>1. ASSUME NEW t \in Types, NEW k \in 1 .. Len(inst'[t]) PROVE board[inst'[t][k].dev] = t
    BY <1>1, <1>5, <1>10, <1>11 DEF Placed, Own
  <2>2. ASSUME NEW j \in Slots, reg'[j] = "up" PROVE Own(j)' # <<>>
    <3>1. CASE board[j] = board[i]
      BY <1>11, <1>12, <3>1
    <3>2. CASE board[j] # board[i]
      <4>1. j # i
        BY <3>2
      <4>2. reg[j] = "up"
        BY <1>9, <2>2, <4>1
      <4>3. board[j] # NoDriver /\ Own(j) # <<>>
        BY <1>1, <4>2 DEF OnBoard, Placed
      <4> QED
        BY <1>12, <3>2, <4>3
    <3> QED
      BY <3>1, <3>2
  <2> QED
    BY <1>2, <2>1, <2>2 DEF Placed
<1>17. InRow'
  <2> SUFFICES ASSUME NEW j \in Slots, Regular(j)
               PROVE  /\ \A k \in 1 .. Len(Own(j)') : Own(j)'[k].dev = k - 1
                      /\ i + 1 =< j => Len(Own(j)') = i + 1
                      /\ reg'[j] = "up" => j < Len(Own(j)') /\ Ready(j, Own(j)'[j + 1])
    BY <1>3, <1>8 DEF InRow
  <2>1. CASE board[j] # board[i]
    <3>1. Own(j)' = Own(j) /\ reg'[j] = reg[j]
      BY <1>9, <1>12, <2>1 DEF Regular
    <3>2. ~(i + 1 =< j)
      BY <1>6, <2>1 DEF Regular, Leading
    <3> QED
      BY <1>1, <3>1, <3>2 DEF InRow
  <2>2. CASE board[j] = board[i]
    <3>1. Regular(i) /\ D(i).index # "single" /\ D(j) = D(i) /\ Own(j) = Own(i)
      BY <2>2, SameDriver DEF Regular, D, Own
    <3>2. i \in Nat /\ Len(Own(i)) = i /\ \A k \in 1 .. i : Own(i)[k].dev = k - 1
      BY <1>1, <1>2, <1>6, <3>1 DEF InRow
    <3>3. PICK s : s = Own(j)'
      OBVIOUS
    <3>4. s = inst'[board[i]]
      BY <1>12, <2>2, <3>3
    <3>5. Len(s) = i + 1 /\ s[i + 1] = new /\ \A k \in 1 .. i : s[k] = Own(i)[k]
      BY <1>11, <3>1, <3>2, <3>4
    <3>6. \A k \in 1 .. Len(s) : s[k].dev = k - 1
      <4>1. \A k \in 1 .. i + 1 : k \in 1 .. i \/ k = i + 1
        BY <3>2
      <4>2. i = (i + 1) - 1
        BY <3>2
      <4> QED
        BY <1>5, <3>2, <3>5, <4>1, <4>2
    <3>7. reg'[j] = "up" => j < Len(s) /\ Ready(j, s[j + 1])
      <4>1. CASE j = i
        BY <1>5, <3>2, <3>5, <4>1
      <4>2. CASE j # i
        <5>1. reg'[j] = "up" => j \in Nat /\ j < i /\ Ready(j, Own(i)[j + 1])
          BY <1>1, <1>6, <1>9, <3>1, <3>2, <4>2 DEF InRow
        <5>2. j \in Nat /\ j < i => j + 1 \in 1 .. i /\ j < i + 1
          BY <3>2
        <5> QED
          BY <3>5, <5>1, <5>2
      <4> QED
        BY <4>1, <4>2
    <3> QED
      BY <3>3, <3>5, <3>6, <3>7
  <2> QED
    BY <2>1, <2>2
<1>18. Alone'
  <2> SUFFICES ASSUME NEW j \in Slots, Single(j)
               PROVE  /\ Len(Own(j)') =< 1
                      /\ i + 1 =< j => Len(Own(j)') = 0
                      /\ reg'[j] = "up" => Ready(j, Own(j)'[1])
    BY <1>3, <1>8 DEF Alone
  <2>1. CASE j # i
    <3>1. board[j] # board[i]
      BY <2>1 DEF Single, Sole
    <3>2. Own(j)' = Own(j) /\ reg'[j] = reg[j]
      BY <1>9, <1>12, <2>1, <3>1 DEF Single
    <3> QED
      BY <1>1, <1>2, <1>6, <3>2 DEF Alone
  <2>2. CASE j = i
    <3>1. i \in Nat /\ Len(Own(i)) = 0 /\ D(i).index # "single"
      BY <1>1, <1>2, <1>6, <2>2 DEF Alone, Single
    <3>2. PICK s : s = Own(j)'
      OBVIOUS
    <3>3. s = inst'[board[i]]
      BY <1>12, <2>2, <3>2
    <3>4. Len(s) = 1 /\ s[1] = new
      BY <1>11, <3>1, <3>3
    <3> QED
      BY <1>5, <2>2, <3>1, <3>2, <3>4
  <2> QED
    BY <2>1, <2>2
<1>19. Replied'
  BY <1>1, <1>2, <1>7 DEF Replied, OwnDevice
<1>20. Claimed'
  <2>1. ASSUME NEW t \in Types, inst'[t] # <<>>
        PROVE  ("adc" \in Drv[t].needs => adc' = t) /\ (Drv[t].timer[2] # 0 => t \in timed')
    <3>1. CASE t = board[i]
      BY <1>13, <3>1 DEF D
    <3>2. CASE t # board[i]
      BY <1>1, <1>10, <1>13, <2>1, <3>2 DEF Claimed
    <3> QED
      BY <3>1, <3>2
  <2> QED
    BY <1>7, <1>13, <2>1 DEF Claimed
<1>21. OffWhenDown'
  BY <1>1, <1>2, <1>7, <1>9 DEF OffWhenDown
<1>22. Channels'
  <2> SUFFICES ASSUME begun =< 1, NEW t \in Types, Drv[t].frees
               PROVE  /\ \A k \in 1 .. Len(inst'[t]) : inst'[t][k].open
                      /\ \A j \in Slots : j < Len(inst'[t]) => inst'[t][j + 1].open
    BY <1>1, <1>2, <1>3 DEF Channels
  <2>1. \A k \in 1 .. Len(inst[t]) : inst[t][k].open
    BY <1>1, <1>2 DEF Channels
  <2>2. \A k \in 1 .. Len(inst'[t]) : inst'[t][k].open
    <3>1. CASE t = board[i]
      BY <1>5, <1>11, <2>1, <3>1 DEF D, Own
    <3>2. CASE t # board[i]
      BY <1>10, <2>1, <3>2
    <3> QED
      BY <3>1, <3>2
  <2>3. Len(inst'[t]) \in Nat
    BY <1>14 DEF TypeOK
  <2>4. \A j \in Slots : j < Len(inst'[t]) => j + 1 \in 1 .. Len(inst'[t])
    BY <1>6, <2>3
  <2> QED
    BY <2>2, <2>4
<1> QED
  BY <1>14, <1>15, <1>16, <1>17, <1>18, <1>19, <1>20, <1>21, <1>22 DEF DriversInv

\* One instance of one driver changes.
Changes(t, e, y) == inst' = [inst EXCEPT ![t][e] = y]

LEMMA OneInstance ==
  ASSUME TypeOK, NEW t \in Types, NEW e \in 1 .. Len(inst[t]), NEW y \in Instance, Changes(t, e, y)
  PROVE  /\ inst' \in [Types -> Seq(Instance)]
         /\ \A u \in Types : /\ Len(inst'[u]) = Len(inst[u])
                             /\ \A k \in 1 .. Len(inst[u]) :
                                  inst'[u][k] = IF u = t /\ k = e THEN y ELSE inst[u][k]
<1>1. inst \in [Types -> Seq(Instance)]
  BY DEF TypeOK
<1>2. PICK s \in Seq(Instance) : s = inst[t]
  BY <1>1
<1>3. PICK r : r = [s EXCEPT ![e] = y]
  OBVIOUS
<1>4. r \in Seq(Instance) /\ Len(r) = Len(s) /\ \A k \in 1 .. Len(s) : r[k] = IF k = e THEN y ELSE s[k]
  BY <1>2, <1>3, ExceptSeq
<1>5. inst' = [inst EXCEPT ![t] = r]
  BY <1>2, <1>3 DEF Changes
<1>6. inst'[t] = r /\ \A u \in Types : u # t => inst'[u] = inst[u]
  BY <1>1, <1>5
<1> QED
  BY <1>1, <1>2, <1>4, <1>5, <1>6

LEMMA Selected ==
  ASSUME TypeOK, OnBoard, Placed, InRow, NEW i \in Slots, reg[i] = "up"
  PROVE  /\ board[i] # NoDriver /\ board[i] \in Types
         /\ Serves(i) # 0 => Serves(i) \in 1 .. Len(Own(i))
         /\ Ends(i) # 0 => Ends(i) \in 1 .. Len(Own(i)) /\ Ends(i) \in {1, i + 1}
         /\ Regular(i) => Serves(i) = i + 1
         /\ D(i).deinit \in {"counted", "live"} /\ Ends(i) # 0 => Ends(i) = i + 1
         /\ Regular(i) /\ D(i).deinit \in {"counted", "live"} => Ends(i) = i + 1
<1>1. board[i] # NoDriver /\ Own(i) # <<>>
  BY DEF OnBoard, Placed
<1>2. /\ board[i] \in Types /\ i \in Nat /\ Own(i) \in Seq(Instance) /\ Len(Own(i)) \in Nat
      /\ D(i).deinit \in {"counted", "live", "first", "always"}
  BY <1>1, BoardFacts
<1>3. Len(Own(i)) >= 1
  BY <1>1, <1>2
<1>4. Serves(i) # 0 => Serves(i) \in 1 .. Len(Own(i))
  BY <1>2, <1>3 DEF Serves
<1>5. /\ Ends(i) # 0 => Ends(i) \in 1 .. Len(Own(i)) /\ Ends(i) \in {1, i + 1}
      /\ D(i).deinit \in {"counted", "live"} /\ Ends(i) # 0 => Ends(i) = i + 1
  BY <1>2, <1>3 DEF Ends
<1>6. Regular(i) => i < Len(Own(i)) /\ Own(i)[i + 1].live /\ D(i).index # "single"
  BY DEF InRow, Ready, Regular
<1>7. Regular(i) => Serves(i) = i + 1
  BY <1>6 DEF Serves
<1>8. Regular(i) /\ D(i).deinit \in {"counted", "live"} => Ends(i) = i + 1
  <2>1. Regular(i) => ~(i >= Len(Own(i)))
    BY <1>2, <1>6
  <2> QED
    BY <1>6, <2>1, Zenon DEF Ends
<1> QED
  BY <1>1, <1>2, <1>4, <1>5, <1>7, <1>8

LEMMA WriteKeeps ==
  ASSUME DriversInv, NEW i \in Slots, NEW command, NEW level \in BOOLEAN, Write(i, command, level)
  PROVE  DriversInv'
<1>1. /\ TypeOK /\ OnBoard /\ NotBegun /\ DownBehind /\ Placed /\ InRow /\ Alone
      /\ Replied /\ Claimed /\ OffWhenDown /\ Channels
  BY DEF DriversInv
<1>2. /\ reg[i] = "up" /\ Serves(i) # 0
      /\ out' = [out EXCEPT ![Own(i)[Serves(i)].dev] = level]
      /\ UNCHANGED <<board, reg, pass, begun, failed, inst, adc, isr, rate, timed, faulty, reply, misuse>>
  BY DEF Write
<1>3. /\ board[i] # NoDriver /\ board[i] \in Types /\ Serves(i) \in 1 .. Len(Own(i))
      /\ Regular(i) => Serves(i) = i + 1
  BY <1>1, <1>2, Selected
<1>4. PICK d : d = Own(i)[Serves(i)].dev
  OBVIOUS
<1>5. d \in Slots /\ board[d] = board[i] /\ (Regular(i) => d = i)
  <2>1. Own(i) \in Seq(Instance) /\ i \in Nat
    BY <1>1, <1>3, BoardFacts
  <2>2. Own(i)[Serves(i)] \in Instance
    BY <1>3, <2>1
  <2>3. d \in Slots
    BY <1>4, <2>2 DEF Instance
  <2>4. board[d] = board[i]
    BY <1>1, <1>3, <1>4 DEF Placed, Own
  <2>5. Regular(i) => d = (i + 1) - 1
    BY <1>1, <1>3, <1>4 DEF InRow
  <2> QED
    BY <2>1, <2>3, <2>4, <2>5
<1>6. /\ \A j : D(j)' = D(j) /\ Own(j)' = Own(j)
      /\ \A j : Sole(j)' = Sole(j) /\ Leading(j)' = Leading(j) /\ Smooth(j)' = Smooth(j)
      /\ \A t : Agreed(t)' = Agreed(t)
  BY <1>2 DEF D, Own, Sole, Leading, Smooth, Agreed
<1>7. \A j : Regular(j)' = Regular(j) /\ Single(j)' = Single(j) /\ \A x : Ready(j, x)' = Ready(j, x)
  BY <1>2, <1>6 DEF Regular, Single, Ready
<1>8. out' \in [Slots -> BOOLEAN] /\ \A j \in Slots : j # d => out'[j] = out[j]
  BY <1>1, <1>2, <1>4, <1>5 DEF TypeOK
<1>9. OffWhenDown'
  <2> SUFFICES ASSUME NEW j \in Slots, out'[j], Leading(j), Smooth(j), D(j).index # "single", D(j).off
               PROVE  reg[j] = "up"
    BY <1>2, <1>6 DEF OffWhenDown
  <2>1. CASE j # d
    BY <1>1, <1>8, <2>1 DEF OffWhenDown
  <2>2. CASE j = d
    <3>1. Regular(j)
      BY <1>3, <1>5, <2>2 DEF Regular
    <3>2. Regular(i)
      BY <1>5, <2>2, <3>1, SameDriver
    <3> QED
      BY <1>2, <1>5, <2>2, <3>2
  <2> QED
    BY <2>1, <2>2
<1>10. TypeOK'
  BY <1>1, <1>2, <1>8 DEF TypeOK
<1>11. OnBoard' /\ NotBegun' /\ DownBehind' /\ Placed'
  BY <1>1, <1>2, <1>6 DEF OnBoard, NotBegun, DownBehind, Placed
<1>12. InRow' /\ Alone'
  BY <1>1, <1>2, <1>6, <1>7 DEF InRow, Alone
<1>13. Replied' /\ Claimed' /\ Channels'
  BY <1>1, <1>2, <1>6 DEF Replied, OwnDevice, Claimed, Channels
<1> QED
  BY <1>9, <1>10, <1>11, <1>12, <1>13 DEF DriversInv

\* What a read may do: answer with an error, or as the instance it selects, which may
\* change only whether it holds a measurement.
LEMMA ReadDoes ==
  ASSUME TypeOK, NEW i \in Slots, Read(i)
  PROVE  \/ reply' = [slot |-> i, dev |-> i, kind |-> "error"] /\ UNCHANGED inst
         \/ /\ Serves(i) # 0
            /\ \E kind \in Kinds : Answer(i, Serves(i), kind)
            /\ UNCHANGED inst \/ \E h \in BOOLEAN : Hold(i, Serves(i), h)
<1>1. PICK k : k = Serves(i)
  OBVIOUS
<1>2. \A x : Held(x) \in Kinds
  BY DEF Held, Kinds
<1>3. CASE k = 0 \/ D(i).reads = "none" \/ (D(i).checked /\ ~ Own(i)[k].live)
  BY <1>1, <1>3 DEF Read
<1>4. CASE ~(k = 0 \/ D(i).reads = "none" \/ (D(i).checked /\ ~ Own(i)[k].live))
  <2>1. \/ Fetch(i, k)
        \/ Answer(i, k, Held(Own(i)[k])) /\ UNCHANGED inst
        \/ /\ Answer(i, k, IF Own(i)[k].live /\ Own(i)[k].wired THEN "measured" ELSE "held")
           /\ UNCHANGED inst
    BY <1>1, <1>4 DEF Read
  <2>2. /\ \E kind \in Kinds : Answer(i, k, kind)
        /\ UNCHANGED inst \/ \E h \in BOOLEAN : Hold(i, k, h)
    <3>1. CASE Fetch(i, k)
      BY <1>2, <3>1 DEF Fetch, Kinds
    <3>2. CASE Answer(i, k, Held(Own(i)[k])) /\ UNCHANGED inst
      BY <1>2, <3>2
    <3>3. CASE Answer(i, k, IF Own(i)[k].live /\ Own(i)[k].wired THEN "measured" ELSE "held") /\ UNCHANGED inst
      BY <3>3 DEF Kinds
    <3> QED
      BY <2>1, <3>1, <3>2, <3>3
  <2> QED
    BY <1>1, <1>4, <2>2
<1> QED
  BY <1>3, <1>4

\* An instance that only holds something else than before is as ready as it was.
AsBefore(x, y) == y.dev = x.dev /\ y.live = x.live /\ y.wired = x.wired /\ y.open = x.open

LEMMA ReadKeeps ==
  ASSUME DriversInv, NEW i \in Slots, Read(i)
  PROVE  DriversInv'
<1>1. /\ TypeOK /\ OnBoard /\ NotBegun /\ DownBehind /\ Placed /\ InRow /\ Alone
      /\ Replied /\ Claimed /\ OffWhenDown /\ Channels
  BY DEF DriversInv
<1>2. /\ reg[i] = "up"
      /\ UNCHANGED <<board, reg, pass, begun, failed, adc, isr, rate, timed, faulty, out, misuse>>
  BY DEF Read
<1>3. PICK k : k = Serves(i)
  OBVIOUS
<1>4. /\ board[i] # NoDriver /\ board[i] \in Types /\ (k # 0 => k \in 1 .. Len(Own(i)))
      /\ Regular(i) => k = i + 1
  BY <1>1, <1>2, <1>3, Selected
<1>5. \/ reply' = [slot |-> i, dev |-> i, kind |-> "error"] /\ UNCHANGED inst
      \/ /\ k # 0
         /\ \E kind \in Kinds : Answer(i, k, kind)
         /\ UNCHANGED inst \/ \E h \in BOOLEAN : Hold(i, k, h)
  BY <1>1, <1>3, ReadDoes
\* Who answers.
<1>6. k # 0 => /\ Own(i)[k] \in Instance /\ Own(i)[k].dev \in Slots /\ board[Own(i)[k].dev] = board[i]
               /\ Regular(i) => Own(i)[k].dev = i
  <2> SUFFICES ASSUME k # 0
               PROVE  /\ Own(i)[k] \in Instance /\ Own(i)[k].dev \in Slots /\ board[Own(i)[k].dev] = board[i]
                      /\ Regular(i) => Own(i)[k].dev = i
    OBVIOUS
  <2>1. Own(i) \in Seq(Instance) /\ i \in Nat
    BY <1>1, <1>4, BoardFacts
  <2>2. Own(i)[k] \in Instance
    BY <1>4, <2>1
  <2>3. Own(i)[k].dev \in Slots
    BY <2>2 DEF Instance
  <2>4. board[Own(i)[k].dev] = board[i]
    BY <1>1, <1>4 DEF Placed, Own
  <2>5. Regular(i) => Own(i)[k].dev = (i + 1) - 1
    BY <1>1, <1>4 DEF InRow
  <2> QED
    BY <2>1, <2>2, <2>3, <2>4, <2>5
<1>7. PICK r : r = reply'
  OBVIOUS
<1>8. /\ r \in [slot : Slots, dev : Slots, kind : Kinds] /\ r.slot = i
      /\ r.kind # "error" => /\ board[r.dev] = board[i]
                             /\ Regular(i) => r.dev = i
  <2>1. CASE reply' = [slot |-> i, dev |-> i, kind |-> "error"]
    BY <1>7, <2>1 DEF Kinds
  <2>2. CASE k # 0 /\ \E kind \in Kinds : Answer(i, k, kind)
    BY <1>6, <1>7, <2>2 DEF Answer
  <2> QED
    BY <1>5, <2>1, <2>2
\* What happens to the instances.
<1>9. /\ inst' \in [Types -> Seq(Instance)]
      /\ \A t \in Types : /\ Len(inst'[t]) = Len(inst[t])
                          /\ \A n \in 1 .. Len(inst[t]) : AsBefore(inst[t][n], inst'[t][n])
  <2>1. CASE UNCHANGED inst
    BY <1>1, <2>1 DEF TypeOK, AsBefore
  <2>2. ASSUME k # 0, NEW h \in BOOLEAN, Hold(i, k, h)
        PROVE  /\ inst' \in [Types -> Seq(Instance)]
               /\ \A t \in Types : /\ Len(inst'[t]) = Len(inst[t])
                                   /\ \A n \in 1 .. Len(inst[t]) : AsBefore(inst[t][n], inst'[t][n])
    <3>1. PICK y : y = [Own(i)[k] EXCEPT !.held = h]
      OBVIOUS
    <3>2. y \in Instance /\ AsBefore(Own(i)[k], y)
      BY <1>6, <2>2, <3>1 DEF Instance, AsBefore
    <3>3. inst' = [inst EXCEPT ![board[i]][k] = y]
      BY <2>2, <3>1 DEF Hold, Own
    <3>4. k \in 1 .. Len(inst[board[i]])
      BY <1>4, <2>2 DEF Own
    <3>5. /\ inst' \in [Types -> Seq(Instance)]
          /\ \A u \in Types : /\ Len(inst'[u]) = Len(inst[u])
                              /\ \A n \in 1 .. Len(inst[u]) :
                                   inst'[u][n] = IF u = board[i] /\ n = k THEN y ELSE inst[u][n]
      <4>1. PICK b : b = board[i]
        OBVIOUS
      <4>2. TypeOK /\ b \in Types /\ k \in 1 .. Len(inst[b]) /\ y \in Instance
            /\ Changes(b, k, y)
        BY <1>1, <1>4, <3>2, <3>3, <3>4, <4>1 DEF Changes
      <4>3. /\ inst' \in [Types -> Seq(Instance)]
            /\ \A u \in Types : /\ Len(inst'[u]) = Len(inst[u])
                                /\ \A n \in 1 .. Len(inst[u]) :
                                     inst'[u][n] = IF u = b /\ n = k THEN y ELSE inst[u][n]
        BY <4>2, OneInstance
      <4> QED
        BY <4>1, <4>3
    <3>6. \A x : AsBefore(x, x)
      BY DEF AsBefore
    <3> QED
      BY <3>2, <3>5, <3>6 DEF Own
  <2> QED
    BY <1>5, <2>1, <2>2
<1>10. /\ \A j : D(j)' = D(j) /\ Sole(j)' = Sole(j) /\ Leading(j)' = Leading(j) /\ Smooth(j)' = Smooth(j)
       /\ \A t : Agreed(t)' = Agreed(t)
  BY <1>2 DEF D, Sole, Leading, Smooth, Agreed
<1>11. \A j : /\ Regular(j)' = Regular(j) /\ Single(j)' = Single(j) /\ \A x : Ready(j, x)' = Ready(j, x)
              /\ \A x, y : AsBefore(x, y) /\ Ready(j, x) => Ready(j, y)
  BY <1>2, <1>10 DEF Regular, Single, Ready, AsBefore
<1>12. \A j \in Slots : board[j] # NoDriver =>
         /\ Len(Own(j)') = Len(Own(j)) /\ Len(Own(j)) \in Nat /\ j \in Nat
         /\ \A n \in 1 .. Len(Own(j)) : AsBefore(Own(j)[n], Own(j)'[n])
  BY <1>1, <1>2, <1>9, BoardFacts DEF Own
<1>13. TypeOK'
  BY <1>1, <1>2, <1>7, <1>8, <1>9 DEF TypeOK
<1>14. OnBoard' /\ DownBehind' /\ OffWhenDown'
  BY <1>1, <1>2, <1>10 DEF OnBoard, DownBehind, OffWhenDown
<1>15. \A t \in Types : inst'[t] = <<>> <=> inst[t] = <<>>
  BY <1>1, <1>9 DEF TypeOK
<1>16. NotBegun' /\ Claimed'
  BY <1>1, <1>2, <1>10, <1>15 DEF NotBegun, Claimed
<1>17. Placed'
  <2>1. \A t \in Types : \A n \in 1 .. Len(inst'[t]) : board[inst'[t][n].dev] = t
    BY <1>1, <1>9 DEF Placed, AsBefore
  <2>2. \A j \in Slots : reg[j] = "up" => Own(j)' # <<>>
    BY <1>1, <1>2, <1>15, BoardFacts DEF Placed, OnBoard, Own
  <2> QED
    BY <1>2, <2>1, <2>2 DEF Placed
<1>18. InRow'
  <2> SUFFICES ASSUME NEW j \in Slots, Regular(j)
               PROVE  /\ \A n \in 1 .. Len(Own(j)') : Own(j)'[n].dev = n - 1
                      /\ pass.kind = "init" /\ pass.pos =< j => Len(Own(j)') = pass.pos
                      /\ reg[j] = "up" => j < Len(Own(j)') /\ Ready(j, Own(j)'[j + 1])
    BY <1>2, <1>11 DEF InRow
  <2>1. board[j] # NoDriver
    BY DEF Regular
  <2>2. j < Len(Own(j)) => j + 1 \in 1 .. Len(Own(j))
    BY <1>12, <2>1
  <2> QED
    BY <1>1, <1>11, <1>12, <2>1, <2>2 DEF InRow, AsBefore
<1>19. Alone'
  <2> SUFFICES ASSUME NEW j \in Slots, Single(j)
               PROVE  /\ Len(Own(j)') =< 1
                      /\ pass.kind = "init" /\ pass.pos =< j => Len(Own(j)') = 0
                      /\ reg[j] = "up" => Ready(j, Own(j)'[1])
    BY <1>2, <1>11 DEF Alone
  <2>1. board[j] # NoDriver
    BY DEF Single
  <2>2. reg[j] = "up" => 1 \in 1 .. Len(Own(j))
    BY <1>1, <1>12, <2>1, BoardFacts DEF Placed
  <2> QED
    BY <1>1, <1>11, <1>12, <2>1, <2>2 DEF Alone
<1>20. Replied'
  <2>1. r.kind # "error" => (Sole(i) \/ (Leading(i) /\ Smooth(i) /\ D(i).index # "single") => r.dev = i)
    BY <1>4, <1>8 DEF Sole, Regular
  <2> QED
    BY <1>2, <1>7, <1>8, <1>10, <2>1 DEF Replied, OwnDevice
<1>21. Channels'
  <2>1. \A t \in Types : \A n \in 1 .. Len(inst[t]) : inst'[t][n].open = inst[t][n].open
    BY <1>9 DEF AsBefore
  <2>2. \A t \in Types : \A j \in Slots : j < Len(inst[t]) => j + 1 \in 1 .. Len(inst[t])
    BY <1>1, NumSlotsAssumption DEF TypeOK, Slots
  <2>3. \A t \in Types : Len(inst'[t]) = Len(inst[t])
    BY <1>9
  <2> SUFFICES ASSUME begun =< 1, NEW t \in Types, Drv[t].frees
               PROVE  /\ pass.kind = "init" => \A n \in 1 .. Len(inst'[t]) : inst'[t][n].open
                      /\ \A j \in Slots : board[j] = t /\ reg[j] = "up" /\ j < Len(inst'[t])
                                        => inst'[t][j + 1].open
    BY <1>1, <1>2 DEF Channels
  <2>4. /\ pass.kind = "init" => \A n \in 1 .. Len(inst[t]) : inst[t][n].open
        /\ \A j \in Slots : board[j] = t /\ reg[j] = "up" /\ j < Len(inst[t]) => inst[t][j + 1].open
    BY <1>1 DEF Channels
  <2> QED
    BY <2>1, <2>2, <2>3, <2>4
<1> QED
  BY <1>13, <1>14, <1>16, <1>17, <1>18, <1>19, <1>20, <1>21 DEF DriversInv

LEMMA DeinitKeeps ==
  ASSUME DriversInv, NEW i \in Slots, Deinit(i)
  PROVE  DriversInv'
<1>1. /\ TypeOK /\ OnBoard /\ NotBegun /\ DownBehind /\ Placed /\ InRow /\ Alone
      /\ Replied /\ Claimed /\ OffWhenDown /\ Channels
  BY DEF DriversInv
<1>2. /\ pass.kind = "deinit" /\ pass.pos = i /\ reg[i] = "up" /\ NextSlot
      /\ reg' = [reg EXCEPT ![i] = "known"]
      /\ UNCHANGED <<board, begun, failed, adc, isr, rate, timed, faulty, reply>>
  BY DEF Deinit
<1>3. PICK e : e = Ends(i)
  OBVIOUS
<1>4. IF e = 0 THEN UNCHANGED <<inst, out, misuse>>
      ELSE /\ inst' = [inst EXCEPT ![board[i]][e] = [@ EXCEPT !.live = FALSE, !.open = FALSE]]
           /\ out' = IF D(i).off THEN [out EXCEPT ![Own(i)[e].dev] = FALSE] ELSE out
           /\ misuse' = (misuse \/ (D(i).frees /\ ~ Own(i)[e].open))
  BY <1>3 DEF Deinit
<1>5. /\ pass' \in [kind : {"idle", "init", "deinit"}, pos : 0 .. NumSlots]
      /\ pass'.kind = "deinit" /\ pass'.pos = i + 1
  BY <1>1, <1>2, NextSlotFacts
<1>6. /\ board[i] # NoDriver /\ board[i] \in Types
      /\ e # 0 => e \in 1 .. Len(Own(i)) /\ e \in {1, i + 1}
      /\ D(i).deinit \in {"counted", "live"} /\ e # 0 => e = i + 1
      /\ Regular(i) /\ D(i).deinit \in {"counted", "live"} => e = i + 1
  BY <1>1, <1>2, <1>3, Selected
<1>7. /\ D(i).frees \in BOOLEAN /\ D(i).off \in BOOLEAN
      /\ D(i).off \/ D(i).frees => D(i).index # "single" /\ D(i).deinit \in {"counted", "live"}
      /\ Own(i) \in Seq(Instance) /\ Len(Own(i)) \in Nat
  BY <1>1, <1>6, BoardFacts
<1>8. \A j \in Slots : j \in Nat /\ (j < i + 1 => j < i \/ j = i)
  BY NumSlotsAssumption DEF Slots
<1>9. /\ reg' \in [Slots -> {"absent", "known", "up"}] /\ reg'[i] = "known"
      /\ \A j \in Slots : j # i => reg'[j] = reg[j]
  BY <1>1, <1>2 DEF TypeOK
\* What happens to the instances: none but e changes, and e stays the same device.
<1>10. /\ inst' \in [Types -> Seq(Instance)]
       /\ \A t \in Types : /\ Len(inst'[t]) = Len(inst[t])
                           /\ \A n \in 1 .. Len(inst[t]) :
                                /\ inst'[t][n].dev = inst[t][n].dev
                                /\ t # board[i] \/ n # e => inst'[t][n] = inst[t][n]
  <2>1. CASE e = 0
    BY <1>1, <1>4, <2>1 DEF TypeOK
  <2>2. CASE e # 0
    <3>1. PICK y : y = [Own(i)[e] EXCEPT !.live = FALSE, !.open = FALSE]
      OBVIOUS
    <3>2. Own(i)[e] \in Instance
      BY <1>6, <1>7, <2>2
    <3>3. y \in Instance /\ y.dev = Own(i)[e].dev
      BY <3>1, <3>2 DEF Instance
    <3>4. PICK b : b = board[i]
      OBVIOUS
    <3>5. TypeOK /\ b \in Types /\ e \in 1 .. Len(inst[b]) /\ y \in Instance
          /\ Changes(b, e, y)
      BY <1>1, <1>4, <1>6, <2>2, <3>1, <3>3, <3>4 DEF Own, Changes
    <3>6. /\ inst' \in [Types -> Seq(Instance)]
          /\ \A u \in Types : /\ Len(inst'[u]) = Len(inst[u])
                              /\ \A n \in 1 .. Len(inst[u]) :
                                   inst'[u][n] = IF u = b /\ n = e THEN y ELSE inst[u][n]
      BY <3>5, OneInstance
    <3>7. y.dev = inst[b][e].dev
      BY <3>3, <3>4 DEF Own
    <3> QED
      BY <3>4, <3>6, <3>7
  <2> QED
    BY <2>1, <2>2
<1>11. /\ \A j : D(j)' = D(j) /\ Sole(j)' = Sole(j) /\ Leading(j)' = Leading(j) /\ Smooth(j)' = Smooth(j)
       /\ \A t : Agreed(t)' = Agreed(t)
  BY <1>2 DEF D, Sole, Leading, Smooth, Agreed
<1>12. \A j : /\ Regular(j)' = Regular(j) /\ Single(j)' = Single(j) /\ \A x : Ready(j, x)' = Ready(j, x)
  BY <1>2, <1>11 DEF Regular, Single, Ready
<1>13. \A j \in Slots : board[j] # NoDriver =>
         /\ Len(Own(j)') = Len(Own(j)) /\ Len(Own(j)) \in Nat
         /\ \A n \in 1 .. Len(Own(j)) :
              /\ Own(j)'[n].dev = Own(j)[n].dev
              /\ board[j] # board[i] \/ n # e => Own(j)'[n] = Own(j)[n]
  BY <1>1, <1>2, <1>10, BoardFacts DEF Own
<1>14. /\ out' \in [Slots -> BOOLEAN] /\ misuse' \in BOOLEAN
       /\ \A j \in Slots : out'[j] => out[j]
       /\ e # 0 /\ D(i).off => ~out'[Own(i)[e].dev]
  <2>1. CASE e = 0
    BY <1>1, <1>4, <2>1 DEF TypeOK
  <2>2. CASE e # 0
    <3>1. Own(i)[e] \in Instance
      BY <1>6, <1>7, <2>2
    <3>2. Own(i)[e].dev \in Slots /\ Own(i)[e].open \in BOOLEAN
      BY <3>1 DEF Instance
    <3> QED
      BY <1>1, <1>4, <1>7, <2>2, <3>2 DEF TypeOK
  <2> QED
    BY <2>1, <2>2
<1>15. TypeOK'
  BY <1>1, <1>2, <1>5, <1>9, <1>10, <1>14 DEF TypeOK
<1>16. OnBoard' /\ DownBehind' /\ NotBegun'
  <2>1. OnBoard'
    BY <1>1, <1>2, <1>5, <1>6, <1>9 DEF OnBoard
  <2>2. DownBehind'
    BY <1>1, <1>2, <1>5, <1>8, <1>9 DEF DownBehind
  <2>3. NotBegun'
    BY <1>1, <1>2 DEF NotBegun
  <2> QED
    BY <2>1, <2>2, <2>3
<1>17. \A t \in Types : inst'[t] = <<>> <=> inst[t] = <<>>
  BY <1>1, <1>10 DEF TypeOK
<1>18. Placed'
  <2>1. \A t \in Types : \A n \in 1 .. Len(inst'[t]) : board[inst'[t][n].dev] = t
    BY <1>1, <1>10 DEF Placed
  <2>2. \A j \in Slots : reg'[j] = "up" => reg[j] = "up"
    BY <1>9
  <2>3. \A j \in Slots : reg[j] = "up" => Own(j)' # <<>>
    BY <1>1, <1>2, <1>17, BoardFacts DEF Placed, OnBoard, Own
  <2> QED
    BY <1>2, <2>1, <2>2, <2>3 DEF Placed
<1>19. InRow'
  <2> SUFFICES ASSUME NEW j \in Slots, Regular(j)
               PROVE  /\ \A n \in 1 .. Len(Own(j)') : Own(j)'[n].dev = n - 1
                      /\ reg'[j] = "up" => j < Len(Own(j)') /\ Ready(j, Own(j)'[j + 1])
    BY <1>5, <1>12 DEF InRow
  <2>1. board[j] # NoDriver
    BY DEF Regular
  <2>2. \A n \in 1 .. Len(Own(j)') : Own(j)'[n].dev = n - 1
    BY <1>1, <1>13, <2>1 DEF InRow
  <2>3. ASSUME reg'[j] = "up" PROVE j < Len(Own(j)') /\ Ready(j, Own(j)'[j + 1])
    <3>1. j # i /\ reg[j] = "up"
      BY <1>9, <2>3
    <3>2. j < Len(Own(j)) /\ Ready(j, Own(j)[j + 1])
      BY <1>1, <3>1 DEF InRow
    <3>3. j + 1 # e
      <4>1. j = 0 => ~(0 < i)
        BY <1>1, <1>2, <3>1 DEF DownBehind
      <4>2. i # 0 => 0 < i
        BY <1>8
      <4> QED
        BY <1>6, <1>8, <3>1, <4>1, <4>2
    <3>4. j + 1 \in 1 .. Len(Own(j))
      BY <1>8, <1>13, <2>1, <3>2
    <3> QED
      BY <1>13, <2>1, <3>2, <3>3, <3>4
  <2> QED
    BY <2>2, <2>3
<1>20. Alone'
  <2> SUFFICES ASSUME NEW j \in Slots, Single(j)
               PROVE  /\ Len(Own(j)') =< 1
                      /\ reg'[j] = "up" => Ready(j, Own(j)'[1])
    BY <1>5, <1>12 DEF Alone
  <2>1. board[j] # NoDriver
    BY DEF Single
  <2>2. ASSUME reg'[j] = "up" PROVE Ready(j, Own(j)'[1])
    <3>1. j # i /\ reg[j] = "up" /\ board[j] # board[i]
      BY <1>9, <2>2 DEF Single, Sole
    <3>2. 1 \in 1 .. Len(Own(j)) /\ Ready(j, Own(j)[1])
      BY <1>1, <2>1, <3>1, BoardFacts DEF Alone, Placed
    <3> QED
      BY <1>13, <2>1, <3>1, <3>2
  <2> QED
    BY <1>1, <1>13, <2>1, <2>2 DEF Alone
<1>21. Replied' /\ Claimed'
  BY <1>1, <1>2, <1>11, <1>17 DEF Replied, OwnDevice, Claimed
<1>22. OffWhenDown'
  <2> SUFFICES ASSUME NEW j \in Slots, out'[j], Leading(j), Smooth(j), D(j).index # "single", D(j).off
               PROVE  reg'[j] = "up"
    BY <1>11 DEF OffWhenDown
  <2>1. reg[j] = "up"
    BY <1>1, <1>14 DEF OffWhenDown
  <2>2. CASE j = i
    <3>1. Regular(i) /\ D(i).off
      BY <1>6, <2>2 DEF Regular
    <3>2. e = i + 1
      BY <1>6, <1>7, <3>1
    <3>3. e # 0 /\ e \in 1 .. Len(Own(i))
      BY <1>6, <1>8, <3>2
    <3>4. Own(i)[e].dev = (i + 1) - 1
      BY <1>1, <3>1, <3>2, <3>3 DEF InRow
    <3>5. Own(i)[e].dev = i
      BY <1>8, <3>4
    <3> QED
      BY <1>14, <2>2, <3>1, <3>3, <3>5
  <2> QED
    BY <1>9, <2>1, <2>2
<1>23. Channels'
  <2> SUFFICES ASSUME begun =< 1
               PROVE  /\ ~misuse'
                      /\ \A t \in Types : Drv[t].frees =>
                           \A j \in Slots : board[j] = t /\ reg'[j] = "up" /\ j < Len(inst'[t])
                                              => inst'[t][j + 1].open
    BY <1>2, <1>5 DEF Channels
  <2>1. \A t \in Types : Drv[t].frees =>
          \A j \in Slots : board[j] = t /\ reg[j] = "up" /\ j < Len(inst[t]) => inst[t][j + 1].open
    BY <1>1 DEF Channels
  <2>2. ~misuse
    BY <1>1 DEF Channels
  <2>3. D(i).frees /\ e # 0 => e = i + 1 /\ Own(i)[e].open
    <3> SUFFICES ASSUME D(i).frees, e # 0 PROVE e = i + 1 /\ Own(i)[e].open
      OBVIOUS
    <3>1. e = i + 1 /\ e \in 1 .. Len(Own(i))
      BY <1>6, <1>7
    <3>2. i < Len(inst[board[i]])
      BY <1>7, <1>8, <3>1 DEF Own
    <3> QED
      BY <1>2, <1>6, <2>1, <3>1, <3>2 DEF D, Own
  <2>4. ~misuse'
    BY <1>4, <2>2, <2>3
  <2>5. ASSUME NEW t \in Types, Drv[t].frees, NEW j \in Slots, board[j] = t, reg'[j] = "up", j < Len(inst'[t])
        PROVE  inst'[t][j + 1].open
    <3>1. j # i /\ reg[j] = "up" /\ j < Len(inst[t])
      BY <1>9, <1>10, <2>5
    <3>2. inst[t][j + 1].open
      BY <2>1, <2>5, <3>1
    <3>3. j + 1 \in 1 .. Len(inst[t])
      BY <1>1, <1>8, <3>1 DEF TypeOK
    <3>4. t = board[i] => j + 1 # e
      <4>1. t = board[i] /\ e # 0 => e = i + 1
        BY <2>3, <2>5 DEF D
      <4> QED
        BY <1>8, <3>1, <4>1
    <3> QED
      BY <1>10, <3>2, <3>3, <3>4
  <2> QED
    BY <2>4, <2>5
<1> QED
  BY <1>15, <1>16, <1>18, <1>19, <1>20, <1>21, <1>22, <1>23 DEF DriversInv

LEMMA DriversStep == DriversInv /\ [Next]_vars => DriversInv'
<1> SUFFICES ASSUME DriversInv, [Next]_vars PROVE DriversInv'
  OBVIOUS
<1>1. CASE UNCHANGED vars
  <2>1. UNCHANGED <<board, reg, pass, begun, failed, inst, adc, isr, rate, timed, faulty, out, reply, misuse>>
    BY <1>1 DEF vars
  <2>2. TypeOK' /\ OnBoard' /\ DownBehind'
    BY <2>1 DEF DriversInv, TypeOK, OnBoard, DownBehind
  <2> QED
    BY <2>1, <2>2, CalmStep
<1>2. ASSUME NEW kind \in {"init", "deinit"}, BeginPass(kind) PROVE DriversInv'
  BY <1>2, BeginKeeps
<1>3. CASE EndPass
  BY <1>3, EndPassKeeps
<1>4. ASSUME NEW i \in Slots, \/ Register(i) \/ SkipSlot(i) \/ InitOk(i) \/ InitFails(i)
                              \/ Deinit(i) \/ Read(i) \/ Fault(i)
      PROVE  DriversInv'
  BY <1>4, RegisterKeeps, SkipKeeps, InitOkKeeps, InitFailsKeeps, DeinitKeeps, ReadKeeps, FaultKeeps
<1>5. ASSUME NEW i \in Slots, NEW command, NEW level \in BOOLEAN, Write(i, command, level)
      PROVE  DriversInv'
  BY <1>5, WriteKeeps
<1> QED
  BY <1>1, <1>2, <1>3, <1>4, <1>5 DEF Next

LEMMA OneLong ==
  ASSUME NEW S, NEW s \in Seq(S), s # <<>>, Len(s) =< 1
  PROVE  Len(s) = 1 /\ s[1] \in S
<1>1. PICK n : n = Len(s)
  OBVIOUS
<1>2. n \in Nat \ {0} /\ n =< 1
  BY <1>1, EmptySeq
<1>3. n = 1
  BY <1>2
<1> QED
  BY <1>1, <1>3

LEMMA DriversServed == DriversInv => SlotsServed /\ LeftClean
<1> SUFFICES ASSUME DriversInv PROVE SlotsServed /\ LeftClean
  OBVIOUS
<1>1. /\ TypeOK /\ OnBoard /\ Placed /\ InRow /\ Alone
      /\ Replied /\ Claimed /\ OffWhenDown /\ Channels
  BY DEF DriversInv
<1>2. Serviceable
  <2> SUFFICES ASSUME NEW i \in Slots, reg[i] = "up", Smooth(i), D(i).index # "single",
                      Leading(i) \/ (Sole(i) /\ D(i).index = "fold")
               PROVE  Serves(i) # 0 /\ Own(i)[Serves(i)].dev = i /\ Ready(i, Own(i)[Serves(i)])
    BY DEF Serviceable, Ready
  <2>1. board[i] # NoDriver /\ Own(i) # <<>>
    BY <1>1 DEF OnBoard, Placed
  <2>2. board[i] \in Types /\ i \in Nat /\ Own(i) \in Seq(Instance) /\ Len(Own(i)) \in Nat
    BY <1>1, <2>1, BoardFacts
  <2>3. CASE Leading(i)
    <3>1. Regular(i)
      BY <2>1, <2>3 DEF Regular
    <3>2. Serves(i) = i + 1 /\ i < Len(Own(i)) /\ Ready(i, Own(i)[i + 1])
      BY <1>1, <3>1, Selected DEF InRow
    <3>3. i + 1 \in 1 .. Len(Own(i)) /\ i + 1 # 0 /\ (i + 1) - 1 = i
      BY <2>2, <3>2
    <3> QED
      BY <1>1, <3>1, <3>2, <3>3 DEF InRow
  <2>4. CASE Sole(i) /\ D(i).index = "fold"
    <3>1. Single(i)
      BY <2>1, <2>4 DEF Single
    <3>2. Len(Own(i)) = 1 /\ Own(i)[1] \in Instance
      <4>1. PICK s : s = Own(i)
        OBVIOUS
      <4>2. s \in Seq(Instance) /\ s # <<>> /\ Len(s) =< 1
        BY <1>1, <2>1, <2>2, <3>1, <4>1 DEF Alone
      <4>3. Len(s) = 1 /\ s[1] \in Instance
        BY <4>2, OneLong, Zenon
      <4> QED
        BY <4>1, <4>3
    <3>3. Serves(i) = 1
      BY <2>2, <2>4, <3>2 DEF Serves
    <3>4. board[Own(i)[1].dev] = board[i] /\ Own(i)[1].dev \in Slots
      BY <1>1, <2>2, <3>2 DEF Placed, Own, Instance
    <3>5. Ready(i, Own(i)[1])
      BY <1>1, <3>1 DEF Alone
    <3> QED
      BY <2>4, <3>3, <3>4, <3>5 DEF Sole
  <2> QED
    BY <2>3, <2>4
<1>3. SharedResources
  BY <1>1 DEF Claimed, SharedResources
<1> QED
  BY <1>1, <1>2, <1>3 DEF SlotsServed, LeftClean, Replied, DeletedChannelUntouched, Channels

LEMMA DriversAlways == HardwareSpec => []DriversInv
<1>1. HardwareInit => DriversInv
  BY DriversStart DEF HardwareInit
<1>2. DriversInv /\ [HardwareNext]_hardwareVars => DriversInv'
  BY DriversStep DEF HardwareNext, hardwareVars
<1> QED
  BY <1>1, <1>2, PTL DEF HardwareSpec

(* For any board and any table of drivers: a read is answered by the device of its slot where
   the board lets the drivers' index be the registry's, a slot that is up can be served there,
   and what drivers share is theirs while they use it, whatever inits fail and in whatever
   order the slots are read, written and taken down. *)
THEOREM SlotsAreServed == HardwareSpec => []SlotsServed
BY DriversAlways, DriversServed, PTL

(* For any board and any table of drivers whose deinit acts on the instance of the handle:
   on such boards an output is off once its driver is down, and in the drivers' first life
   no channel is used after it was deleted. *)
THEOREM DownIsClean == HardwareSpec => []LeftClean
BY DriversAlways, DriversServed, PTL

-----------------------------------------------------------------------------
(* The key-value store.                                                     *)

\* The cells of the entry of g, a key and its value, and how many of them come before the value.
Image(p, g) == IF p = "rp2040" THEN ShortEntry(g[1], g[2]) ELSE Entry(g[1], g[2])
Header(p) == IF p = "rp2040" THEN 2 ELSE 3

Clear(m, a) == \A b \in Addr : b >= a => m[b] = Blank

\* The cells m show the first n cells of e at a, but for the mark of an erased entry.
Erased(p, m, a, n) == p = "arduino" /\ m[a] = 0 /\ n >= 2

Shows(p, m, a, e, n) ==
  \A i \in 1 .. Len(e) : m[a + i - 1] = (IF i <= n THEN e[i] ELSE Blank) \/ (i = 1 /\ Erased(p, m, a, n))

\* The first n cells of the entry of g are at a.  The next entry of the chain S starts where
\* this one ends, once the length of its value is written; before that nothing follows it.
EntryAt(p, m, S, a, g, n) ==
  LET e == Image(p, g) IN
  /\ n \in 1 .. Len(e) /\ a + Len(e) <= Size /\ (p = "rp2040" => a + 3 < Size)
  /\ Shows(p, m, a, e, n)
  /\ n < Header(p) => Clear(m, a + n)
  /\ n >= Header(p) => a + Len(e) \in S
  /\ \A b \in S : b <= a \/ (n >= Header(p) /\ a + Len(e) <= b)

\* S is a chain of entries that were given, and of the clear cells behind the last.  Only those
\* in torn may be incomplete.
Chain(p, G, m, S, torn) ==
  /\ S \subseteq 0 .. Size /\ 0 \in S
  /\ \A a \in S : \/ Clear(m, a) /\ \A b \in S : b <= a
                  \/ \E g \in G : \E n \in 1 .. Len(Image(p, g)) :
                        EntryAt(p, m, S, a, g, n) /\ (n < Len(Image(p, g)) => a \in torn)

\* A whole entry of k is in the chain.
Kept(p, G, m, S, k) == \E a \in S, g \in G : g[1] = k /\ EntryAt(p, m, S, a, g, Len(Image(p, g)))

\* No entry of the chain is marked as erased.
NoZero(m, S) == \A a \in S : a < Size => m[a] # 0

\* Any entry may be incomplete once a set was cut short.
Torn(A) == IF cut THEN 0 .. Size ELSE A

\* The first n cells of the entry of g are at a, and nothing behind them.
Begun(p, m, S, a, g, n) ==
  /\ a \in S /\ a + Len(Image(p, g)) <= Size /\ (p = "rp2040" => a + 3 < Size)
  /\ n \in 0 .. Len(Image(p, g)) /\ Clear(m, a + n)
  /\ IF n = 0 THEN \A b \in S : b <= a ELSE EntryAt(p, m, S, a, g, n)

\* The writes to come are the rest of the cells of the entry.
Appends(p, m, S, a, g, todo) ==
  LET e == Image(p, g) IN
  \E n \in 0 .. Len(e) - 1 :
     /\ Begun(p, m, S, a, g, n)
     /\ Len(todo) = Len(e) - n /\ \A i \in 1 .. Len(e) - n : todo[i] = Cells(a, e)[n + i]

\* The job of a flash: an entry under way at a, a mark on an entry of the chain, or the wipe.
Appending(S, a) ==
  LET g == <<job.key, job.val>> IN
  job.op = "set" /\ job.ok /\ g \in given /\ Appends(port, flash, S, a, g, job.todo)

Marking(S) ==
  /\ port = "arduino" /\ wiped /\ (job.op = "erase" \/ ~job.ok)
  /\ \E x \in S, g \in given : \E n \in 2 .. Len(Image(port, g)) :
        EntryAt(port, flash, S, x, g, n) /\ job.todo = <<Byte(x, 0)>>

Wiping == port = "stm32" /\ job.op = "erase" /\ job.todo = <<Wipe>> /\ acked = {}

\* The STM32 and the Arduino write an entry cell by cell where the chain ends.
OnFlash(S) ==
  /\ port = "arduino" /\ ~wiped => NoZero(flash, S)
  /\ \A k \in acked : (port = "arduino" /\ wiped) \/ Kept(port, given, flash, S, k)
  /\ \/ Chain(port, given, flash, S, Torn({})) /\ (job = NoJob \/ Marking(S) \/ Wiping)
     \/ \E a \in S : Chain(port, given, flash, S, Torn({a})) /\ job # NoJob /\ Appending(S, a)

\* The cells of the first n pages.
Before(n) == {b \in Addr : b \div PageSize < n}

\* The RP2040 wipes the sector and programs it with its copy; n of these writes are done.
Reprogramming ==
  /\ job.op = "set" /\ job.ok
  /\ \E n \in 0 .. NumPages :
       /\ Len(job.todo) = NumPages + 1 - n
       /\ \A i \in 1 .. NumPages + 1 - n : job.todo[i] = IF n + i = 1 THEN Wipe ELSE Page(shadow, n + i - 1)
       /\ n > 0 => \A b \in Addr : flash[b] = IF b \in Before(n - 1) THEN shadow[b] ELSE Blank

\* Its copy always holds a chain; the sector holds the part of the chain that was programmed.
InShadow(S) ==
  /\ Chain(port, given, shadow, S, Torn({}))
  /\ ~cut => \A k \in acked : Kept(port, given, shadow, S, k)
  /\ job # NoJob => Reprogramming /\ Kept(port, given, shadow, S, job.key)

StoreTypes == StoreTypeOK /\ (job # NoJob => job \in Jobs)

FlashInv == port \in {"stm32", "arduino"} /\ StoreTypes /\ \E S \in SUBSET (0 .. Size) : OnFlash(S)

CopyInv ==
  /\ port = "rp2040" /\ StoreTypes
  /\ \E S \in SUBSET (0 .. Size) : Chain(port, given, flash, S, 0 .. Size)
  /\ \E S \in SUBSET (0 .. Size) : InShadow(S)

LibraryInv ==
  /\ port = "esp32s3" /\ StoreTypes
  /\ job = NoJob /\ blobs \subseteq given /\ \A k \in acked : \E v \in Values : <<k, v>> \in blobs

StoreInv == FlashInv \/ CopyInv \/ LibraryInv

-----------------------------------------------------------------------------
\* A scan is a function from the cell it stands at to its answer.
Scans(f, N, stop, ans, next) == f = [a \in 0 .. N |-> IF a \in stop THEN ans[a] ELSE f[next[a]]]

\* It goes on upwards, and starting in S it stops there with an answer in R.
Advances(N, stop, next) == \A a \in 0 .. N : a \notin stop => next[a] \in a + 1 .. N
StaysIn(S, R, stop, ans, next) == \A a \in S : IF a \in stop THEN ans[a] \in R ELSE next[a] \in S

LEMMA ScanExists ==
  ASSUME NEW N \in Nat, NEW stop, NEW ans, NEW next, Advances(N, stop, next)
  PROVE  \E f : Scans(f, N, stop, ans, next)
<1> DEFINE From(g, c) == g = [a \in c .. N |-> IF a \in stop THEN ans[a] ELSE g[next[a]]]
           T == {n \in 0 .. N : ~ \E g : From(g, N - n)}
<1> HIDE DEF From
<1>0. T \in SUBSET Nat /\ \A n : n \in T <=> n \in 0 .. N /\ ~ \E g : From(g, N - n)
  OBVIOUS
<1> HIDE DEF T
<1>1. CASE T = {}
  <2>1. N \notin T /\ N \in 0 .. N /\ N - N = 0
    BY <1>1
  <2>2. \E g : From(g, 0)
    BY <1>0, <2>1
  <2> QED
    BY <2>2 DEF Scans, From
<1>2. CASE T # {}
  <2>1. PICK n \in T : \A i \in T : n =< i
    BY <1>0, <1>2, Least
  <2>2. n \in 0 .. N /\ ~ \E g : From(g, N - n)
    BY <1>0
  <2>3. CASE n = 0
    <3> DEFINE g == [a \in N .. N |-> ans[a]]
    <3>1. N \in stop /\ N - n = N
      BY <2>3 DEF Advances
    <3>2. g = [a \in N .. N |-> IF a \in stop THEN ans[a] ELSE g[next[a]]]
      BY <3>1
    <3> HIDE DEF g
    <3>3. From(g, N)
      BY <3>2 DEF From
    <3> QED
      BY <2>2, <3>1, <3>3
  <2>4. CASE n > 0
    <3>1. n - 1 \in 0 .. N /\ n - 1 \notin T
      BY <2>1, <2>2, <2>4
    <3>2. PICK g : From(g, N - (n - 1))
      BY <1>0, <3>1
    <3> DEFINE c == N - n
               h == [a \in c .. N |-> IF a \in stop THEN ans[a] ELSE g[next[a]]]
    <3>3. c \in 0 .. N /\ N - (n - 1) = c + 1
      BY <2>2
    <3>4. \A a \in c + 1 .. N : g[a] = IF a \in stop THEN ans[a] ELSE g[next[a]]
      BY <3>2, <3>3 DEF From
    <3>5. \A a \in c + 1 .. N : h[a] = g[a]
      BY <3>3, <3>4
    <3>6. \A a \in c .. N : a \notin stop => next[a] \in c + 1 .. N
      BY <3>3 DEF Advances
    <3>7. \A a \in c .. N : h[a] = IF a \in stop THEN ans[a] ELSE h[next[a]]
      BY <3>5, <3>6
    <3>8. h = [a \in c .. N |-> h[a]]
      OBVIOUS
    <3> HIDE DEF h
    <3>9. h = [a \in c .. N |-> IF a \in stop THEN ans[a] ELSE h[next[a]]]
      BY <3>7, <3>8
    <3>10. From(h, N - n)
      BY <3>9 DEF From
    <3> QED
      BY <2>2, <3>10
  <2> QED
    BY <2>2, <2>3, <2>4
<1> QED
  BY <1>1, <1>2

LEMMA ScanInto ==
  ASSUME NEW N \in Nat, NEW stop, NEW ans, NEW next, NEW f, Scans(f, N, stop, ans, next),
         Advances(N, stop, next), NEW S \in SUBSET (0 .. N), NEW R, StaysIn(S, R, stop, ans, next)
  PROVE  \A a \in S : f[a] \in R
<1> DEFINE T == {n \in 0 .. N : N - n \in S /\ f[N - n] \notin R}
<1>1. \A a \in 0 .. N : f[a] = IF a \in stop THEN ans[a] ELSE f[next[a]]
  BY DEF Scans
<1>0. T \in SUBSET Nat /\ \A n : n \in T <=> n \in 0 .. N /\ N - n \in S /\ f[N - n] \notin R
  OBVIOUS
<1> HIDE DEF T
<1>2. T = {}
  <2> SUFFICES ASSUME T # {} PROVE FALSE
    OBVIOUS
  <2>1. PICK n \in T : \A i \in T : n =< i
    BY <1>0, Least
  <2>a. PICK a : a = N - n
    OBVIOUS
  <2>2. n \in 0 .. N /\ a \in S /\ a \in 0 .. N /\ f[a] \notin R
    BY <1>0, <2>a
  <2>3. a \notin stop /\ next[a] \in S /\ f[next[a]] \notin R
    BY <1>1, <2>2 DEF StaysIn
  <2>4. next[a] \in a + 1 .. N /\ N - next[a] \in 0 .. N /\ N - (N - next[a]) = next[a] /\ N - next[a] < n
    BY <2>a, <2>2, <2>3 DEF Advances
  <2>5. N - next[a] \in T
    BY <1>0, <2>3, <2>4
  <2> QED
    BY <2>1, <2>2, <2>4, <2>5, <1>0
<1>3. ASSUME NEW a \in S, f[a] \notin R PROVE FALSE
  <2>1. N - a \in 0 .. N /\ N - (N - a) = a
    OBVIOUS
  <2>2. N - a \in T
    BY <1>0, <1>3, <2>1
  <2> QED
    BY <1>2, <2>2
<1> QED
  BY <1>3

-----------------------------------------------------------------------------
(* Where the scans of the platforms stop, with which answer, and where they go on.             *)

Memory == [Addr -> 0 .. Blank]
Reach == Size + Blank

Stm32FindStops(m, k) == {a \in 0 .. Reach : a >= Size \/ m[a] = Blank
                        \/ (m[a] # 0 /\ (a + 3 > Size \/ a + 3 + m[a + 2] > Size \/ m[a + 1] = k))}
Stm32FindGives(m, k) == [a \in 0 .. Reach |-> IF a < Size /\ m[a] # Blank /\ m[a] # 0 /\ a + 3 <= Size /\ a + 3 + m[a + 2] <= Size /\ m[a + 1] = k
                               THEN a ELSE Nowhere]
Stm32FindGoes(m) == [a \in 0 .. Reach |-> IF m[a] = 0 THEN a + 1 ELSE a + 3 + m[a + 2]]

Stm32FreeStops(m) == {a \in 0 .. Reach : a >= Size \/ m[a] = Blank \/ (m[a] # 0 /\ a + 3 > Size)}
Stm32FreeGives(m) == [a \in 0 .. Reach |-> IF a < Size /\ m[a] # Blank THEN Size ELSE a]
Stm32FreeGoes(m) == [a \in 0 .. Reach |-> IF m[a] = 0 THEN a + 1 ELSE a + 3 + m[a + 2]]

ArduinoFindStops(m, k) == {a \in 0 .. Reach : a >= Size \/ m[a] = Blank \/ (m[a] = 0 /\ a + 2 > Size)
                        \/ (m[a] # 0 /\ (a + 3 > Size \/ m[a + 1] = k))}
ArduinoFindGives(m, k) == [a \in 0 .. Reach |-> IF a < Size /\ m[a] # Blank /\ m[a] # 0 /\ a + 3 <= Size /\ m[a + 1] = k THEN a ELSE Nowhere]
ArduinoFindGoes(m) == [a \in 0 .. Reach |-> IF m[a] = 0 THEN a + 2 + m[a + 1] ELSE a + 3 + m[a + 2]]

ArduinoEndStops(m) == {a \in 0 .. Reach : a >= Size \/ m[a] = Blank \/ (m[a] = 0 /\ a + 2 > Size) \/ (m[a] # 0 /\ a + 3 > Size)}
ArduinoEndGives(m) == [a \in 0 .. Reach |-> IF a < Size /\ m[a] = Blank THEN a ELSE Size]
ArduinoEndGoes(m) == [a \in 0 .. Reach |-> IF m[a] = 0 THEN a + 2 + m[a + 1] ELSE a + 3 + m[a + 2]]

Rp2040FindStops(m, k) == {a \in 0 .. Reach : a >= Size \/ a + 3 >= Size \/ m[a] = Blank \/ m[a] = k}
Rp2040FindGives(m, k) == [a \in 0 .. Reach |-> IF a + 3 < Size /\ m[a] # Blank /\ m[a] = k THEN a ELSE Nowhere]
Rp2040FindGoes(m) == [a \in 0 .. Reach |-> a + 2 + m[a + 1]]

Rp2040FreeStops(m) == {a \in 0 .. Reach : a >= Size \/ a + 3 >= Size \/ m[a] = Blank}
Rp2040FreeGives(m) == [a \in 0 .. Reach |-> IF a + 3 < Size /\ m[a] = Blank THEN a ELSE Nowhere]
Rp2040FreeGoes(m) == [a \in 0 .. Reach |-> a + 2 + m[a + 1]]

LEMMA Stm32FindScans ==
  ASSUME NEW m \in Memory, NEW k
  PROVE  /\ Advances(Reach, Stm32FindStops(m, k), Stm32FindGoes(m))
         /\ \E f : Scans(f, Reach, Stm32FindStops(m, k), Stm32FindGives(m, k), Stm32FindGoes(m)) /\ Stm32Find(m, k) = f[0]
<1> DEFINE Body(g) == [a \in 0 .. Size + Blank |->
               IF a >= Size \/ (a < Size /\ m[a] = Blank) THEN Nowhere
               ELSE IF m[a] = 0 THEN g[a + 1]
               ELSE IF a + 3 > Size \/ a + 3 + m[a + 2] > Size THEN Nowhere
               ELSE IF m[a + 1] = k THEN a ELSE g[a + 3 + m[a + 2]]]
<1>0. Size \in Nat \ {0} /\ Size < Blank /\ Blank = 255 /\ Reach \in Nat /\ Reach = Size + Blank /\ \A a \in 0 .. Reach : a < Size => m[a] \in 0 .. Blank
  BY StoreAssumption DEF Memory, Addr, Blank, Reach
<1>1. Advances(Reach, Stm32FindStops(m, k), Stm32FindGoes(m))
  <2> SUFFICES ASSUME NEW a \in 0 .. Reach, a \notin Stm32FindStops(m, k) PROVE Stm32FindGoes(m)[a] \in a + 1 .. Reach
    BY DEF Advances
  <2>1. a < Size /\ m[a] \in 0 .. Blank /\ (a + 1 < Size => m[a + 1] \in 0 .. Blank) /\ (a + 2 < Size => m[a + 2] \in 0 .. Blank)
    BY <1>0 DEF Stm32FindStops
  <2>2. Stm32FindGoes(m)[a] = IF m[a] = 0 THEN a + 1 ELSE a + 3 + m[a + 2]
    BY DEF Stm32FindGoes
  <2>3. a + 1 \in Nat /\ a + 2 \in Nat /\ a + 1 \in 0 .. Reach /\ a + 2 \in 0 .. Reach
    BY <1>0, <2>1
  <2>4. (IF m[a] = 0 THEN a + 1 ELSE a + 3 + m[a + 2]) \in a + 1 .. Reach
    BY <1>0, <2>1, <2>3, SMTT(20) DEF Stm32FindStops
  <2> QED
    BY <2>2, <2>4
<1>2. ASSUME NEW g
      PROVE  Scans(g, Reach, Stm32FindStops(m, k), Stm32FindGives(m, k), Stm32FindGoes(m)) <=> g = Body(g)
  <2>1. ASSUME NEW a \in 0 .. Reach
        PROVE  (IF a \in Stm32FindStops(m, k) THEN Stm32FindGives(m, k)[a] ELSE g[Stm32FindGoes(m)[a]]) = Body(g)[a]
    BY <1>0, SMTT(20) DEF Stm32FindStops, Stm32FindGives, Stm32FindGoes, Nowhere
  <2>2. Body(g) = [a \in 0 .. Reach |-> Body(g)[a]]
    BY <1>0
  <2> HIDE DEF Body
  <2>3. Body(g) = [a \in 0 .. Reach |-> IF a \in Stm32FindStops(m, k) THEN Stm32FindGives(m, k)[a] ELSE g[Stm32FindGoes(m)[a]]]
    BY <2>1, <2>2
  <2> QED
    BY <2>3 DEF Scans
<1>3. \E f : Scans(f, Reach, Stm32FindStops(m, k), Stm32FindGives(m, k), Stm32FindGoes(m))
  BY <1>0, <1>1, ScanExists
<1>4. PICK f : f = (CHOOSE g : g = Body(g))
  OBVIOUS
<1>5. f = Body(f)
  BY <1>2, <1>3, <1>4
<1>6. Stm32Find(m, k) = f[0]
  BY <1>4 DEF Stm32Find
<1> QED
  BY <1>1, <1>2, <1>5, <1>6

LEMMA Stm32FreeScans ==
  ASSUME NEW m \in Memory
  PROVE  /\ Advances(Reach, Stm32FreeStops(m), Stm32FreeGoes(m))
         /\ \E f : Scans(f, Reach, Stm32FreeStops(m), Stm32FreeGives(m), Stm32FreeGoes(m)) /\ Stm32Free(m) = (IF f[0] > Size THEN Size ELSE f[0])
<1> DEFINE Body(g) == [a \in 0 .. Size + Blank |->
               IF a >= Size \/ m[a] = Blank THEN a
               ELSE IF m[a] = 0 THEN g[a + 1]
               ELSE IF a + 3 > Size THEN Size ELSE g[a + 3 + m[a + 2]]]
<1>0. Size \in Nat \ {0} /\ Size < Blank /\ Blank = 255 /\ Reach \in Nat /\ Reach = Size + Blank /\ \A a \in 0 .. Reach : a < Size => m[a] \in 0 .. Blank
  BY StoreAssumption DEF Memory, Addr, Blank, Reach
<1>1. Advances(Reach, Stm32FreeStops(m), Stm32FreeGoes(m))
  <2> SUFFICES ASSUME NEW a \in 0 .. Reach, a \notin Stm32FreeStops(m) PROVE Stm32FreeGoes(m)[a] \in a + 1 .. Reach
    BY DEF Advances
  <2>1. a < Size /\ m[a] \in 0 .. Blank /\ (a + 1 < Size => m[a + 1] \in 0 .. Blank) /\ (a + 2 < Size => m[a + 2] \in 0 .. Blank)
    BY <1>0 DEF Stm32FreeStops
  <2>2. Stm32FreeGoes(m)[a] = IF m[a] = 0 THEN a + 1 ELSE a + 3 + m[a + 2]
    BY DEF Stm32FreeGoes
  <2>3. a + 1 \in Nat /\ a + 2 \in Nat /\ a + 1 \in 0 .. Reach /\ a + 2 \in 0 .. Reach
    BY <1>0, <2>1
  <2>4. (IF m[a] = 0 THEN a + 1 ELSE a + 3 + m[a + 2]) \in a + 1 .. Reach
    BY <1>0, <2>1, <2>3, SMTT(20) DEF Stm32FreeStops
  <2> QED
    BY <2>2, <2>4
<1>2. ASSUME NEW g
      PROVE  Scans(g, Reach, Stm32FreeStops(m), Stm32FreeGives(m), Stm32FreeGoes(m)) <=> g = Body(g)
  <2>1. ASSUME NEW a \in 0 .. Reach
        PROVE  (IF a \in Stm32FreeStops(m) THEN Stm32FreeGives(m)[a] ELSE g[Stm32FreeGoes(m)[a]]) = Body(g)[a]
    BY <1>0 DEF Stm32FreeStops, Stm32FreeGives, Stm32FreeGoes, Nowhere
  <2>2. Body(g) = [a \in 0 .. Reach |-> Body(g)[a]]
    BY <1>0
  <2> HIDE DEF Body
  <2>3. Body(g) = [a \in 0 .. Reach |-> IF a \in Stm32FreeStops(m) THEN Stm32FreeGives(m)[a] ELSE g[Stm32FreeGoes(m)[a]]]
    BY <2>1, <2>2
  <2> QED
    BY <2>3 DEF Scans
<1>3. \E f : Scans(f, Reach, Stm32FreeStops(m), Stm32FreeGives(m), Stm32FreeGoes(m))
  BY <1>0, <1>1, ScanExists
<1>4. PICK f : f = (CHOOSE g : g = Body(g))
  OBVIOUS
<1>5. f = Body(f)
  BY <1>2, <1>3, <1>4
<1>6. Stm32Free(m) = (IF f[0] > Size THEN Size ELSE f[0])
  BY <1>4 DEF Stm32Free
<1> QED
  BY <1>1, <1>2, <1>5, <1>6

LEMMA ArduinoFindScans ==
  ASSUME NEW m \in Memory, NEW k
  PROVE  /\ Advances(Reach, ArduinoFindStops(m, k), ArduinoFindGoes(m))
         /\ \E f : Scans(f, Reach, ArduinoFindStops(m, k), ArduinoFindGives(m, k), ArduinoFindGoes(m)) /\ ArduinoFind(m, k) = f[0]
<1> DEFINE Body(g) == [a \in 0 .. Size + Blank |->
               IF a >= Size \/ m[a] = Blank THEN Nowhere
               ELSE IF m[a] = 0 THEN (IF a + 2 > Size THEN Nowhere ELSE g[a + 2 + m[a + 1]])
               ELSE IF a + 3 > Size THEN Nowhere
               ELSE IF m[a + 1] = k THEN a ELSE g[a + 3 + m[a + 2]]]
<1>0. Size \in Nat \ {0} /\ Size < Blank /\ Blank = 255 /\ Reach \in Nat /\ Reach = Size + Blank /\ \A a \in 0 .. Reach : a < Size => m[a] \in 0 .. Blank
  BY StoreAssumption DEF Memory, Addr, Blank, Reach
<1>1. Advances(Reach, ArduinoFindStops(m, k), ArduinoFindGoes(m))
  <2> SUFFICES ASSUME NEW a \in 0 .. Reach, a \notin ArduinoFindStops(m, k) PROVE ArduinoFindGoes(m)[a] \in a + 1 .. Reach
    BY DEF Advances
  <2>1. a < Size /\ m[a] \in 0 .. Blank /\ (a + 1 < Size => m[a + 1] \in 0 .. Blank) /\ (a + 2 < Size => m[a + 2] \in 0 .. Blank)
    BY <1>0 DEF ArduinoFindStops
  <2>2. ArduinoFindGoes(m)[a] = IF m[a] = 0 THEN a + 2 + m[a + 1] ELSE a + 3 + m[a + 2]
    BY DEF ArduinoFindGoes
  <2>3. a + 1 \in Nat /\ a + 2 \in Nat /\ a + 1 \in 0 .. Reach /\ a + 2 \in 0 .. Reach
    BY <1>0, <2>1
  <2>4. (IF m[a] = 0 THEN a + 2 + m[a + 1] ELSE a + 3 + m[a + 2]) \in a + 1 .. Reach
    <3>1. CASE m[a] = 0
      <4>1. a + 2 <= Size /\ m[a + 1] \in 0 .. Blank
        BY <1>0, <2>1, <2>3, <3>1 DEF ArduinoFindStops
      <4> QED
        BY <1>0, <2>1, <3>1, <4>1, SMTT(20)
    <3>2. CASE m[a] # 0
      <4>1. a + 3 <= Size /\ m[a + 2] \in 0 .. Blank
        BY <1>0, <2>1, <2>3, <3>2 DEF ArduinoFindStops
      <4> QED
        BY <1>0, <2>1, <3>2, <4>1, SMTT(20)
    <3> QED
      BY <3>1, <3>2
  <2> QED
    BY <2>2, <2>4
<1>2. ASSUME NEW g
      PROVE  Scans(g, Reach, ArduinoFindStops(m, k), ArduinoFindGives(m, k), ArduinoFindGoes(m)) <=> g = Body(g)
  <2>1. ASSUME NEW a \in 0 .. Reach
        PROVE  (IF a \in ArduinoFindStops(m, k) THEN ArduinoFindGives(m, k)[a] ELSE g[ArduinoFindGoes(m)[a]]) = Body(g)[a]
    BY <1>0 DEF ArduinoFindStops, ArduinoFindGives, ArduinoFindGoes, Nowhere
  <2>2. Body(g) = [a \in 0 .. Reach |-> Body(g)[a]]
    BY <1>0
  <2> HIDE DEF Body
  <2>3. Body(g) = [a \in 0 .. Reach |-> IF a \in ArduinoFindStops(m, k) THEN ArduinoFindGives(m, k)[a] ELSE g[ArduinoFindGoes(m)[a]]]
    BY <2>1, <2>2
  <2> QED
    BY <2>3 DEF Scans
<1>3. \E f : Scans(f, Reach, ArduinoFindStops(m, k), ArduinoFindGives(m, k), ArduinoFindGoes(m))
  BY <1>0, <1>1, ScanExists
<1>4. PICK f : f = (CHOOSE g : g = Body(g))
  OBVIOUS
<1>5. f = Body(f)
  BY <1>2, <1>3, <1>4
<1>6. ArduinoFind(m, k) = f[0]
  BY <1>4 DEF ArduinoFind
<1> QED
  BY <1>1, <1>2, <1>5, <1>6

LEMMA ArduinoEndScans ==
  ASSUME NEW m \in Memory
  PROVE  /\ Advances(Reach, ArduinoEndStops(m), ArduinoEndGoes(m))
         /\ \E f : Scans(f, Reach, ArduinoEndStops(m), ArduinoEndGives(m), ArduinoEndGoes(m)) /\ ArduinoEnd(m) = f[0]
<1> DEFINE Body(g) == [a \in 0 .. Size + Blank |->
               IF a >= Size THEN Size
               ELSE IF m[a] = Blank THEN a
               ELSE IF m[a] = 0 THEN (IF a + 2 > Size THEN Size ELSE g[a + 2 + m[a + 1]])
               ELSE IF a + 3 > Size THEN Size ELSE g[a + 3 + m[a + 2]]]
<1>0. Size \in Nat \ {0} /\ Size < Blank /\ Blank = 255 /\ Reach \in Nat /\ Reach = Size + Blank /\ \A a \in 0 .. Reach : a < Size => m[a] \in 0 .. Blank
  BY StoreAssumption DEF Memory, Addr, Blank, Reach
<1>1. Advances(Reach, ArduinoEndStops(m), ArduinoEndGoes(m))
  <2> SUFFICES ASSUME NEW a \in 0 .. Reach, a \notin ArduinoEndStops(m) PROVE ArduinoEndGoes(m)[a] \in a + 1 .. Reach
    BY DEF Advances
  <2>1. a < Size /\ m[a] \in 0 .. Blank /\ (a + 1 < Size => m[a + 1] \in 0 .. Blank) /\ (a + 2 < Size => m[a + 2] \in 0 .. Blank)
    BY <1>0 DEF ArduinoEndStops
  <2>2. ArduinoEndGoes(m)[a] = IF m[a] = 0 THEN a + 2 + m[a + 1] ELSE a + 3 + m[a + 2]
    BY DEF ArduinoEndGoes
  <2>3. a + 1 \in Nat /\ a + 2 \in Nat /\ a + 1 \in 0 .. Reach /\ a + 2 \in 0 .. Reach
    BY <1>0, <2>1
  <2>4. (IF m[a] = 0 THEN a + 2 + m[a + 1] ELSE a + 3 + m[a + 2]) \in a + 1 .. Reach
    <3>1. CASE m[a] = 0
      <4>1. a + 2 <= Size /\ m[a + 1] \in 0 .. Blank
        BY <1>0, <2>1, <2>3, <3>1 DEF ArduinoEndStops
      <4> QED
        BY <1>0, <2>1, <3>1, <4>1, SMTT(20)
    <3>2. CASE m[a] # 0
      <4>1. a + 3 <= Size /\ m[a + 2] \in 0 .. Blank
        BY <1>0, <2>1, <2>3, <3>2 DEF ArduinoEndStops
      <4> QED
        BY <1>0, <2>1, <3>2, <4>1, SMTT(20)
    <3> QED
      BY <3>1, <3>2
  <2> QED
    BY <2>2, <2>4
<1>2. ASSUME NEW g
      PROVE  Scans(g, Reach, ArduinoEndStops(m), ArduinoEndGives(m), ArduinoEndGoes(m)) <=> g = Body(g)
  <2>1. ASSUME NEW a \in 0 .. Reach
        PROVE  (IF a \in ArduinoEndStops(m) THEN ArduinoEndGives(m)[a] ELSE g[ArduinoEndGoes(m)[a]]) = Body(g)[a]
    BY <1>0 DEF ArduinoEndStops, ArduinoEndGives, ArduinoEndGoes, Nowhere
  <2>2. Body(g) = [a \in 0 .. Reach |-> Body(g)[a]]
    BY <1>0
  <2> HIDE DEF Body
  <2>3. Body(g) = [a \in 0 .. Reach |-> IF a \in ArduinoEndStops(m) THEN ArduinoEndGives(m)[a] ELSE g[ArduinoEndGoes(m)[a]]]
    BY <2>1, <2>2
  <2> QED
    BY <2>3 DEF Scans
<1>3. \E f : Scans(f, Reach, ArduinoEndStops(m), ArduinoEndGives(m), ArduinoEndGoes(m))
  BY <1>0, <1>1, ScanExists
<1>4. PICK f : f = (CHOOSE g : g = Body(g))
  OBVIOUS
<1>5. f = Body(f)
  BY <1>2, <1>3, <1>4
<1>6. ArduinoEnd(m) = f[0]
  BY <1>4 DEF ArduinoEnd
<1> QED
  BY <1>1, <1>2, <1>5, <1>6

LEMMA Rp2040FindScans ==
  ASSUME NEW m \in Memory, NEW k
  PROVE  /\ Advances(Reach, Rp2040FindStops(m, k), Rp2040FindGoes(m))
         /\ \E f : Scans(f, Reach, Rp2040FindStops(m, k), Rp2040FindGives(m, k), Rp2040FindGoes(m)) /\ Rp2040Find(m, k) = f[0]
<1> DEFINE Body(g) == [a \in 0 .. Size + Blank |->
               IF a + 3 >= Size \/ m[a] = Blank THEN Nowhere
               ELSE IF m[a] = k THEN a ELSE g[a + 2 + m[a + 1]]]
<1>0. Size \in Nat \ {0} /\ Size < Blank /\ Blank = 255 /\ Reach \in Nat /\ Reach = Size + Blank /\ \A a \in 0 .. Reach : a < Size => m[a] \in 0 .. Blank
  BY StoreAssumption DEF Memory, Addr, Blank, Reach
<1>1. Advances(Reach, Rp2040FindStops(m, k), Rp2040FindGoes(m))
  <2> SUFFICES ASSUME NEW a \in 0 .. Reach, a \notin Rp2040FindStops(m, k) PROVE Rp2040FindGoes(m)[a] \in a + 1 .. Reach
    BY DEF Advances
  <2>1. a < Size /\ m[a] \in 0 .. Blank /\ (a + 1 < Size => m[a + 1] \in 0 .. Blank) /\ (a + 2 < Size => m[a + 2] \in 0 .. Blank)
    BY <1>0 DEF Rp2040FindStops
  <2>2. Rp2040FindGoes(m)[a] = a + 2 + m[a + 1]
    BY DEF Rp2040FindGoes
  <2>3. a + 1 \in Nat /\ a + 2 \in Nat /\ a + 1 \in 0 .. Reach /\ a + 2 \in 0 .. Reach
    BY <1>0, <2>1
  <2>4. (a + 2 + m[a + 1]) \in a + 1 .. Reach
    BY <1>0, <2>1, <2>3, SMTT(20) DEF Rp2040FindStops
  <2> QED
    BY <2>2, <2>4
<1>2. ASSUME NEW g
      PROVE  Scans(g, Reach, Rp2040FindStops(m, k), Rp2040FindGives(m, k), Rp2040FindGoes(m)) <=> g = Body(g)
  <2>1. ASSUME NEW a \in 0 .. Reach
        PROVE  (IF a \in Rp2040FindStops(m, k) THEN Rp2040FindGives(m, k)[a] ELSE g[Rp2040FindGoes(m)[a]]) = Body(g)[a]
    BY <1>0 DEF Rp2040FindStops, Rp2040FindGives, Rp2040FindGoes, Nowhere
  <2>2. Body(g) = [a \in 0 .. Reach |-> Body(g)[a]]
    BY <1>0
  <2> HIDE DEF Body
  <2>3. Body(g) = [a \in 0 .. Reach |-> IF a \in Rp2040FindStops(m, k) THEN Rp2040FindGives(m, k)[a] ELSE g[Rp2040FindGoes(m)[a]]]
    BY <2>1, <2>2
  <2> QED
    BY <2>3 DEF Scans
<1>3. \E f : Scans(f, Reach, Rp2040FindStops(m, k), Rp2040FindGives(m, k), Rp2040FindGoes(m))
  BY <1>0, <1>1, ScanExists
<1>4. PICK f : f = (CHOOSE g : g = Body(g))
  OBVIOUS
<1>5. f = Body(f)
  BY <1>2, <1>3, <1>4
<1>6. Rp2040Find(m, k) = f[0]
  BY <1>4 DEF Rp2040Find
<1> QED
  BY <1>1, <1>2, <1>5, <1>6

LEMMA Rp2040FreeScans ==
  ASSUME NEW m \in Memory
  PROVE  /\ Advances(Reach, Rp2040FreeStops(m), Rp2040FreeGoes(m))
         /\ \E f : Scans(f, Reach, Rp2040FreeStops(m), Rp2040FreeGives(m), Rp2040FreeGoes(m)) /\ Rp2040Free(m) = f[0]
<1> DEFINE Body(g) == [a \in 0 .. Size + Blank |->
               IF a + 3 >= Size THEN Nowhere
               ELSE IF m[a] = Blank THEN a ELSE g[a + 2 + m[a + 1]]]
<1>0. Size \in Nat \ {0} /\ Size < Blank /\ Blank = 255 /\ Reach \in Nat /\ Reach = Size + Blank /\ \A a \in 0 .. Reach : a < Size => m[a] \in 0 .. Blank
  BY StoreAssumption DEF Memory, Addr, Blank, Reach
<1>1. Advances(Reach, Rp2040FreeStops(m), Rp2040FreeGoes(m))
  <2> SUFFICES ASSUME NEW a \in 0 .. Reach, a \notin Rp2040FreeStops(m) PROVE Rp2040FreeGoes(m)[a] \in a + 1 .. Reach
    BY DEF Advances
  <2>1. a < Size /\ m[a] \in 0 .. Blank /\ (a + 1 < Size => m[a + 1] \in 0 .. Blank) /\ (a + 2 < Size => m[a + 2] \in 0 .. Blank)
    BY <1>0 DEF Rp2040FreeStops
  <2>2. Rp2040FreeGoes(m)[a] = a + 2 + m[a + 1]
    BY DEF Rp2040FreeGoes
  <2>3. a + 1 \in Nat /\ a + 2 \in Nat /\ a + 1 \in 0 .. Reach /\ a + 2 \in 0 .. Reach
    BY <1>0, <2>1
  <2>4. (a + 2 + m[a + 1]) \in a + 1 .. Reach
    BY <1>0, <2>1, <2>3, SMTT(20) DEF Rp2040FreeStops
  <2> QED
    BY <2>2, <2>4
<1>2. ASSUME NEW g
      PROVE  Scans(g, Reach, Rp2040FreeStops(m), Rp2040FreeGives(m), Rp2040FreeGoes(m)) <=> g = Body(g)
  <2>1. ASSUME NEW a \in 0 .. Reach
        PROVE  (IF a \in Rp2040FreeStops(m) THEN Rp2040FreeGives(m)[a] ELSE g[Rp2040FreeGoes(m)[a]]) = Body(g)[a]
    BY <1>0 DEF Rp2040FreeStops, Rp2040FreeGives, Rp2040FreeGoes, Nowhere
  <2>2. Body(g) = [a \in 0 .. Reach |-> Body(g)[a]]
    BY <1>0
  <2> HIDE DEF Body
  <2>3. Body(g) = [a \in 0 .. Reach |-> IF a \in Rp2040FreeStops(m) THEN Rp2040FreeGives(m)[a] ELSE g[Rp2040FreeGoes(m)[a]]]
    BY <2>1, <2>2
  <2> QED
    BY <2>3 DEF Scans
<1>3. \E f : Scans(f, Reach, Rp2040FreeStops(m), Rp2040FreeGives(m), Rp2040FreeGoes(m))
  BY <1>0, <1>1, ScanExists
<1>4. PICK f : f = (CHOOSE g : g = Body(g))
  OBVIOUS
<1>5. f = Body(f)
  BY <1>2, <1>3, <1>4
<1>6. Rp2040Free(m) = f[0]
  BY <1>4 DEF Rp2040Free
<1> QED
  BY <1>1, <1>2, <1>5, <1>6

-----------------------------------------------------------------------------
(* The cells of an entry.                                                   *)

Given == Keys \X Values

Shape(p, g, h, l) ==
  g[1] \in Size .. Blank - 1 /\ l \in 1 .. 2 /\ h = (IF p = "rp2040" THEN 2 ELSE 3)

ImageOf(p, g, e, h, l) ==
  /\ Shape(p, g, h, l) /\ Len(e) = h + l
  /\ \A i \in 1 .. h + l : e[i] \in 1 .. Blank - 1
  /\ e[h - 1] = g[1] /\ e[h] = l /\ (p # "rp2040" => e[1] = 1)
  /\ \A i \in 1 .. l : e[h + i] = g[2][i]

LEMMA ImageFacts ==
  ASSUME NEW p, NEW g \in Given
  PROVE  ImageOf(p, g, Image(p, g), Header(p), Len(g[2]))
<1> DEFINE h == Header(p)
           l == Len(g[2])
           e == Image(p, g)
<1>0. l = Len(g[2])
  OBVIOUS
<1>1. g[1] \in Keys /\ g[2] \in Values /\ Size \in Nat \ {0} /\ Blank = 255
  BY StoreAssumption DEF Given, Blank
<1>2. PICK k, v : k = g[1] /\ v = g[2]
  OBVIOUS
<1>3. k \in Size .. Blank - 1 /\ v \in Seq(1 .. Blank - 1) /\ Len(v) = l /\ l \in 1 .. 2
  BY <1>1, <1>2, StoreAssumption
<1> HIDE DEF l, e, h
<1>4. k \in 1 .. Blank - 1 /\ l \in 1 .. Blank - 1 /\ 1 \in 1 .. Blank - 1
  BY <1>1, <1>3
<1>5. ASSUME p = "rp2040" PROVE ImageOf(p, g, e, h, l)
  <2>1. e = <<k, l>> \o v /\ h = 2
    BY <1>2, <1>3, <1>5 DEF e, h, Image, ShortEntry, Header
  <2>2. <<k, l>> \in Seq(1 .. Blank - 1) /\ Len(<<k, l>>) = 2
    BY <1>4
  <2>3. /\ e \in Seq(1 .. Blank - 1) /\ Len(e) = 2 + l
        /\ \A i \in 1 .. 2 + l : e[i] = IF i <= 2 THEN <<k, l>>[i] ELSE v[i - 2]
    BY <1>3, <2>1, <2>2, ConcatProperties
  <2>4. e[1] = k /\ e[2] = l /\ \A i \in 1 .. l : e[2 + i] = v[i]
    BY <1>3, <2>3
  <2>5. \A i \in 1 .. 2 + l : e[i] \in 1 .. Blank - 1
    BY <2>3, ElementOfSeq
  <2>6. Len(e) = h + l
    BY <2>1, <2>3
  <2>7. h - 1 = 1 /\ h = 2
    BY <2>1
  <2>8. Shape(p, g, h, l)
    BY <1>2, <1>3, <1>5, <2>7 DEF Shape
  <2>9. e[h - 1] = g[1] /\ e[h] = l /\ (p # "rp2040" => e[1] = 1)
    BY <1>2, <1>5, <2>4, <2>7
  <2>10. (\A i \in 1 .. h + l : e[i] \in 1 .. Blank - 1) /\ \A i \in 1 .. l : e[h + i] = g[2][i]
    BY <1>2, <2>4, <2>5, <2>7
  <2> QED
    BY <2>6, <2>8, <2>9, <2>10 DEF ImageOf
<1>6. ASSUME p # "rp2040" PROVE ImageOf(p, g, e, h, l)
  <2>1. e = <<1, k, l>> \o v /\ h = 3
    BY <1>2, <1>3, <1>6 DEF e, h, Image, Entry, Header
  <2>2. <<1, k, l>> \in Seq(1 .. Blank - 1) /\ Len(<<1, k, l>>) = 3
    BY <1>4
  <2>3. /\ e \in Seq(1 .. Blank - 1) /\ Len(e) = 3 + l
        /\ \A i \in 1 .. 3 + l : e[i] = IF i <= 3 THEN <<1, k, l>>[i] ELSE v[i - 3]
    BY <1>3, <2>1, <2>2, ConcatProperties
  <2>4. e[1] = 1 /\ e[2] = k /\ e[3] = l /\ \A i \in 1 .. l : e[3 + i] = v[i]
    BY <1>3, <2>3
  <2>5. \A i \in 1 .. 3 + l : e[i] \in 1 .. Blank - 1
    BY <2>3, ElementOfSeq
  <2>6. Len(e) = h + l
    BY <2>1, <2>3
  <2>7. h - 1 = 2 /\ h = 3
    BY <2>1
  <2>8. Shape(p, g, h, l)
    BY <1>2, <1>3, <1>6, <2>7 DEF Shape
  <2>9. e[h - 1] = g[1] /\ e[h] = l /\ (p # "rp2040" => e[1] = 1)
    BY <1>2, <1>6, <2>4, <2>7
  <2>10. (\A i \in 1 .. h + l : e[i] \in 1 .. Blank - 1) /\ \A i \in 1 .. l : e[h + i] = g[2][i]
    BY <1>2, <2>4, <2>5, <2>7
  <2> QED
    BY <2>6, <2>8, <2>9, <2>10 DEF ImageOf
<1> QED
  BY <1>5, <1>6 DEF e, h, l

\* What the cells of an entry tell, when n of them are written.
Tells(p, m, a, g, n, h, l) ==
  /\ Shape(p, g, h, l)
  /\ a \in Nat /\ n \in 1 .. h + l /\ a + h + l <= Size
  /\ m[a] # Blank
  /\ p # "rp2040" => m[a] = 1 \/ (p = "arduino" /\ m[a] = 0 /\ n >= 2)
  /\ m[a + h - 2] = IF h - 1 <= n THEN g[1] ELSE Blank
  /\ m[a + h - 1] = IF h <= n THEN l ELSE Blank
  /\ \A i \in 1 .. l : m[a + h + i - 1] = IF h + i <= n THEN g[2][i] ELSE Blank

LEMMA EntryCells ==
  ASSUME NEW p, NEW m \in Memory, NEW S \in SUBSET (0 .. Size), NEW a \in S, NEW g \in Given,
         NEW n, EntryAt(p, m, S, a, g, n)
  PROVE  Tells(p, m, a, g, n, Header(p), Len(g[2]))
<1>1. PICK e, h, l : e = Image(p, g) /\ h = Header(p) /\ l = Len(g[2])
  OBVIOUS
<1>2. ImageOf(p, g, e, h, l)
  BY <1>1, ImageFacts
<1>3. h \in 2 .. 3 /\ l \in 1 .. 2
  BY <1>2 DEF ImageOf, Shape
<1>4. n \in 1 .. h + l /\ a + (h + l) <= Size /\ a \in 0 .. Size /\ Size \in Nat \ {0} /\ Size < Blank /\ Blank = 255
  BY <1>1, <1>2, StoreAssumption DEF EntryAt, Blank, ImageOf
<1>5. \A i \in 1 .. h + l : m[a + i - 1] = (IF i <= n THEN e[i] ELSE Blank) \/ (i = 1 /\ Erased(p, m, a, n))
  BY <1>1, <1>2 DEF EntryAt, Shows, ImageOf
<1>6. \A i \in 2 .. h + l : m[a + i - 1] = IF i <= n THEN e[i] ELSE Blank
  <2> SUFFICES ASSUME NEW i \in 2 .. h + l PROVE m[a + i - 1] = IF i <= n THEN e[i] ELSE Blank
    OBVIOUS
  <2>1. i \in 1 .. h + l /\ i # 1
    BY <1>3
  <2> QED
    BY <1>5, <2>1
<1>7. m[a] = e[1] \/ (p = "arduino" /\ m[a] = 0 /\ n >= 2)
  <2>1. 1 \in 1 .. h + l /\ 1 <= n /\ a + 1 - 1 = a
    BY <1>3, <1>4
  <2> QED
    BY <1>5, <2>1 DEF Erased
<1>8. m[a] # Blank /\ (p # "rp2040" => m[a] = 1 \/ (p = "arduino" /\ m[a] = 0 /\ n >= 2))
  <2>1. e[1] \in 1 .. Blank - 1 /\ (p # "rp2040" => e[1] = 1)
    BY <1>2, <1>3 DEF ImageOf
  <2> QED
    BY <1>4, <1>7, <2>1
<1>9. m[a + h - 1] = IF h <= n THEN l ELSE Blank
  <2>1. h \in 2 .. h + l /\ e[h] = l
    BY <1>2, <1>3 DEF ImageOf
  <2> QED
    BY <1>6, <2>1
<1>10. m[a + h - 2] = IF h - 1 <= n THEN g[1] ELSE Blank
  <2>0. e[h - 1] = g[1] /\ h = IF p = "rp2040" THEN 2 ELSE 3
    BY <1>2 DEF ImageOf, Shape
  <2>1. CASE h = 3
    <3>1. 2 \in 2 .. h + l /\ a + 2 - 1 = a + h - 2 /\ h - 1 = 2
      BY <1>3, <1>4, <2>1
    <3> QED
      BY <1>6, <2>0, <3>1
  <2>2. CASE h = 2
    <3>1. a + h - 2 = a /\ h - 1 = 1 /\ 1 <= n
      BY <1>4, <2>2
    <3>2. p # "arduino"
      BY <2>0, <2>2
    <3> QED
      BY <1>7, <2>0, <3>1, <3>2
  <2> QED
    BY <1>3, <2>1, <2>2
<1>11. ASSUME NEW i \in 1 .. l PROVE m[a + h + i - 1] = IF h + i <= n THEN g[2][i] ELSE Blank
  <2>1. h + i \in 2 .. h + l
    BY <1>3
  <2>2. a + (h + i) - 1 = a + h + i - 1
    BY <1>3, <1>4
  <2>3. e[h + i] = g[2][i]
    BY <1>2 DEF ImageOf
  <2> QED
    BY <1>6, <2>1, <2>2, <2>3
<1>12. a \in Nat /\ a + h + l <= Size
  BY <1>3, <1>4
<1>13. Tells(p, m, a, g, n, h, l)
  BY <1>2, <1>4, <1>8, <1>9, <1>10, <1>11, <1>12 DEF Tells, ImageOf
<1> QED
  BY <1>1, <1>13

-----------------------------------------------------------------------------
(* What the scans answer over a chain.                                      *)

Past == {b \in 0 .. Reach : b >= Size}

Answers(p, G, m, S, torn, k) ==
  {Nowhere} \cup {x \in S : /\ x < Size /\ m[x] # 0
                            /\ \E g \in G : \E n \in 1 .. Len(Image(p, g)) :
                                 /\ g[1] = k /\ n >= Header(p) - 1 /\ EntryAt(p, m, S, x, g, n)
                                 /\ n < Len(Image(p, g)) => x \in torn}

Room(m, S) == Past \cup {x \in S : Clear(m, x) /\ \A b \in S : b <= x}

CopyRoom(m, S) == {Nowhere} \cup {x \in S : x + 3 < Size /\ Clear(m, x) /\ \A b \in S : b <= x}

\* The address a is clear and the last of the chain, or holds n cells of the entry of g.
IsLast(m, S, a) == Clear(m, a) /\ (\A b \in S : b <= a) /\ (a < Size => m[a] = Blank)
HoldsEntry(p, m, S, torn, a, g, n) ==
  LET h == Header(p)
      l == Len(g[2])
  IN  /\ EntryAt(p, m, S, a, g, n) /\ (n < Len(Image(p, g)) => a \in torn)
      /\ g \in Given /\ Tells(p, m, a, g, n, h, l)
      /\ n \in 1 .. Len(Image(p, g)) /\ Len(Image(p, g)) = h + l
      /\ n >= h => a + h + l \in S
      /\ \A b \in S : b <= a \/ (n >= h /\ a + h + l <= b)

LEMMA ChainFacts ==
  ASSUME NEW p, NEW G, NEW m, NEW S, NEW torn, Chain(p, G, m, S, torn)
  PROVE  /\ S \in SUBSET (0 .. Size) /\ S \in SUBSET (0 .. Reach) /\ 0 \in S
         /\ Size \in Nat \ {0} /\ Size < Blank /\ Blank = 255 /\ Reach = Size + Blank
BY StoreAssumption DEF Chain, Blank, Reach

LEMMA ChainCases ==
  ASSUME NEW p, NEW G \in SUBSET Given, NEW m \in Memory, NEW S, NEW torn, Chain(p, G, m, S, torn), NEW a \in S
  PROVE  IsLast(m, S, a) \/ \E g \in G : \E n : HoldsEntry(p, m, S, torn, a, g, n)
<1>1. S \in SUBSET (0 .. Size) /\ a \in Nat /\ a <= Size /\ Size \in Nat
  BY ChainFacts
<1>2. CASE Clear(m, a) /\ \A b \in S : b <= a
  BY <1>1, <1>2 DEF Clear, Addr, IsLast
<1>3. ASSUME NEW g \in G, NEW n \in 1 .. Len(Image(p, g)),
             EntryAt(p, m, S, a, g, n) /\ (n < Len(Image(p, g)) => a \in torn)
      PROVE  HoldsEntry(p, m, S, torn, a, g, n)
  <2>1. PICK h, l : h = Header(p) /\ l = Len(g[2])
    OBVIOUS
  <2>2. g \in Given
    OBVIOUS
  <2>3. Tells(p, m, a, g, n, h, l)
    BY <1>1, <1>3, <2>1, <2>2, EntryCells
  <2>4. ImageOf(p, g, Image(p, g), h, l)
    BY <2>1, <2>2, ImageFacts
  <2>5. Len(Image(p, g)) = h + l /\ h \in Nat /\ l \in Nat
    BY <2>4 DEF ImageOf, Shape
  <2>6. /\ n >= h => a + Len(Image(p, g)) \in S
        /\ \A b \in S : b <= a \/ (n >= h /\ a + Len(Image(p, g)) <= b)
    BY <1>3, <2>1 DEF EntryAt
  <2>7. a + Len(Image(p, g)) = a + h + l
    BY <1>1, <2>5
  <2> QED
    BY <1>3, <2>1, <2>2, <2>3, <2>5, <2>6, <2>7 DEF HoldsEntry
<1>4. \/ Clear(m, a) /\ \A b \in S : b <= a
      \/ \E g \in G : \E n \in 1 .. Len(Image(p, g)) :
             EntryAt(p, m, S, a, g, n) /\ (n < Len(Image(p, g)) => a \in torn)
  BY DEF Chain
<1> QED
  BY <1>2, <1>3, <1>4

LEMMA Stm32FindAnswers ==
  ASSUME NEW G \in SUBSET Given, NEW m \in Memory, NEW S, NEW torn, NEW k \in Keys, Chain("stm32", G, m, S, torn)
  PROVE  Stm32Find(m, k) \in Answers("stm32", G, m, S, torn, k)
<1> DEFINE R == Answers("stm32", G, m, S, torn, k)
<1>1. PICK f : Scans(f, Reach, Stm32FindStops(m, k), Stm32FindGives(m, k), Stm32FindGoes(m)) /\ Stm32Find(m, k) = f[0]
  BY Stm32FindScans
<1>2. Advances(Reach, Stm32FindStops(m, k), Stm32FindGoes(m))
  BY Stm32FindScans
<1>3. S \in SUBSET (0 .. Size) /\ S \in SUBSET (0 .. Reach) /\ 0 \in S /\ k \in Size .. Blank - 1
      /\ Size \in Nat \ {0} /\ Size < Blank /\ Blank = 255 /\ Reach = Size + Blank
  BY StoreAssumption DEF Chain, Blank, Reach
<1> DEFINE Step(a) == IF a \in Stm32FindStops(m, k) THEN Stm32FindGives(m, k)[a] \in R ELSE Stm32FindGoes(m)[a] \in S \cup Past
<1>4. ASSUME NEW a \in Past PROVE Step(a)
  BY <1>3 DEF Past, Stm32FindStops, Stm32FindGives, Answers, Nowhere
<1>5. ASSUME NEW a \in S PROVE Step(a)
  <2>1. CASE a = Size
    <3>1. a \in Past
      BY <1>3, <2>1 DEF Past
    <3> QED
      BY <1>4, <3>1
  <2>2. a \in Nat /\ a <= Size /\ a \in 0 .. Reach
    BY <1>3
  <2>3. CASE a < Size /\ m[a] = Blank
    BY <1>3, <2>2, <2>3 DEF Stm32FindStops, Stm32FindGives, Answers, Nowhere
  <2>4. CASE a < Size /\ m[a] # Blank
    <3>1. ~ IsLast(m, S, a)
      BY <2>4 DEF IsLast
    <3>a. PICK g \in G : \E n : HoldsEntry("stm32", m, S, torn, a, g, n)
      BY <3>1, ChainCases
    <3>2. PICK n : HoldsEntry("stm32", m, S, torn, a, g, n)
      BY <3>a
    <3>3. Header("stm32") = 3
      BY DEF Header
    <3>4. PICK l : l = Len(g[2])
      OBVIOUS
    <3>5. n >= 3 => a + 3 + l \in S
      BY <3>2, <3>3, <3>4 DEF HoldsEntry
    <3>6. Tells("stm32", m, a, g, n, 3, l)
      BY <3>2, <3>3, <3>4 DEF HoldsEntry
    <3>7. ASSUME g[1] = k, n >= 2, m[a] # 0 PROVE a \in R
      BY <2>4, <3>2, <3>3, <3>7 DEF Answers, HoldsEntry
    <3>8. /\ m[a] = 1 /\ n \in 1 .. 3 + l /\ a + 3 + l <= Size /\ l \in 1 .. 2
          /\ m[a + 1] = (IF 2 <= n THEN g[1] ELSE Blank) /\ m[a + 2] = (IF 3 <= n THEN l ELSE Blank)
      BY <2>2, <3>6 DEF Tells, Shape
    <3>9. CASE n < 3
      <4>1. a + 3 + m[a + 2] > Size
        BY <1>3, <2>2, <3>8, <3>9
      <4> QED
        BY <1>3, <2>2, <2>4, <3>8, <4>1 DEF Stm32FindStops, Stm32FindGives, Answers, Nowhere
    <3>10. CASE n >= 3 /\ m[a + 1] = k
      <4>1. a \in R
        BY <3>7, <3>8, <3>10
      <4>2. a \in Stm32FindStops(m, k) /\ Stm32FindGives(m, k)[a] = a
        BY <1>3, <2>2, <2>4, <3>8, <3>10 DEF Stm32FindStops, Stm32FindGives
      <4> QED
        BY <4>1, <4>2
    <3>11. CASE n >= 3 /\ m[a + 1] # k
      <4>1. a \notin Stm32FindStops(m, k)
        BY <1>3, <2>2, <2>4, <3>8, <3>11 DEF Stm32FindStops
      <4>2. Stm32FindGoes(m)[a] = a + 3 + l
        BY <2>2, <3>8, <3>11 DEF Stm32FindGoes
      <4> QED
        BY <3>5, <3>11, <4>1, <4>2
    <3> QED
      BY <3>8, <3>9, <3>10, <3>11
  <2> QED
    BY <1>3, <2>1, <2>2, <2>3, <2>4
<1>6. S \cup Past \in SUBSET (0 .. Reach)
  <2>1. S \subseteq 0 .. Reach
    BY <1>3
  <2>2. Past \subseteq 0 .. Reach
    BY DEF Past
  <2> QED
    BY <2>1, <2>2
<1>7. PICK W : W = S \cup Past
  OBVIOUS
<1> HIDE DEF R
<1>8. W \in SUBSET (0 .. Reach) /\ Reach \in Nat
  BY <1>3, <1>6, <1>7
<1>9. StaysIn(W, R, Stm32FindStops(m, k), Stm32FindGives(m, k), Stm32FindGoes(m))
  BY <1>4, <1>5, <1>7 DEF StaysIn
<1>10. \A a \in W : f[a] \in R
  BY <1>1, <1>2, <1>8, <1>9, ScanInto
<1> QED
  BY <1>1, <1>3, <1>7, <1>10 DEF R


LEMMA ArduinoFindAnswers ==
  ASSUME NEW G \in SUBSET Given, NEW m \in Memory, NEW S, NEW torn, NEW k \in Keys, Chain("arduino", G, m, S, torn)
  PROVE  ArduinoFind(m, k) \in Answers("arduino", G, m, S, torn, k)
<1> DEFINE R == Answers("arduino", G, m, S, torn, k)
<1>1. PICK f : Scans(f, Reach, ArduinoFindStops(m, k), ArduinoFindGives(m, k), ArduinoFindGoes(m)) /\ ArduinoFind(m, k) = f[0]
  BY ArduinoFindScans
<1>2. Advances(Reach, ArduinoFindStops(m, k), ArduinoFindGoes(m))
  BY ArduinoFindScans
<1>3. S \in SUBSET (0 .. Size) /\ S \in SUBSET (0 .. Reach) /\ 0 \in S /\ k \in Size .. Blank - 1
      /\ Size \in Nat \ {0} /\ Size < Blank /\ Blank = 255 /\ Reach = Size + Blank
  BY StoreAssumption DEF Chain, Blank, Reach
<1> DEFINE Step(a) == IF a \in ArduinoFindStops(m, k) THEN ArduinoFindGives(m, k)[a] \in R ELSE ArduinoFindGoes(m)[a] \in S \cup Past
<1>4. ASSUME NEW a \in Past PROVE Step(a)
  BY <1>3 DEF Past, ArduinoFindStops, ArduinoFindGives, Answers, Nowhere
<1>5. ASSUME NEW a \in S PROVE Step(a)
  <2>1. CASE a = Size
    <3>1. a \in Past
      BY <1>3, <2>1 DEF Past
    <3> QED
      BY <1>4, <3>1
  <2>2. a \in Nat /\ a <= Size /\ a \in 0 .. Reach
    BY <1>3
  <2>3. CASE a < Size /\ m[a] = Blank
    BY <1>3, <2>2, <2>3 DEF ArduinoFindStops, ArduinoFindGives, Answers, Nowhere
  <2>4. CASE a < Size /\ m[a] # Blank
    <3>1. ~ IsLast(m, S, a)
      BY <2>4 DEF IsLast
    <3>a. PICK g \in G : \E n : HoldsEntry("arduino", m, S, torn, a, g, n)
      BY <3>1, ChainCases
    <3>2. PICK n : HoldsEntry("arduino", m, S, torn, a, g, n)
      BY <3>a
    <3>3. Header("arduino") = 3
      BY DEF Header
    <3>4. PICK l : l = Len(g[2])
      OBVIOUS
    <3>5. n >= 3 => a + 3 + l \in S
      BY <3>2, <3>3, <3>4 DEF HoldsEntry
    <3>6. Tells("arduino", m, a, g, n, 3, l)
      BY <3>2, <3>3, <3>4 DEF HoldsEntry
    <3>7. ASSUME g[1] = k, n >= 2, m[a] # 0 PROVE a \in R
      BY <2>4, <3>2, <3>3, <3>7 DEF Answers, HoldsEntry
    <3>8. /\ (m[a] = 1 \/ (m[a] = 0 /\ n >= 2)) /\ n \in 1 .. 3 + l /\ a + 3 + l <= Size /\ l \in 1 .. 2
          /\ m[a + 1] = (IF 2 <= n THEN g[1] ELSE Blank) /\ m[a + 2] = (IF 3 <= n THEN l ELSE Blank)
          /\ g[1] \in Size .. Blank - 1
      BY <2>2, <3>6 DEF Tells, Shape
    <3>9. CASE m[a] = 0
      <4>1. a \notin ArduinoFindStops(m, k)
        BY <1>3, <2>2, <2>4, <3>8, <3>9 DEF ArduinoFindStops
      <4>2. ArduinoFindGoes(m)[a] = a + 2 + g[1]
        BY <2>2, <3>8, <3>9 DEF ArduinoFindGoes
      <4>3. a + 2 + g[1] \in Past
        BY <1>3, <2>2, <3>8 DEF Past
      <4> QED
        BY <4>1, <4>2, <4>3
    <3>10. CASE m[a] # 0 /\ m[a + 1] = k
      <4>1. n >= 2 /\ g[1] = k
        BY <1>3, <3>8, <3>10
      <4>2. a \in R
        BY <3>7, <3>10, <4>1
      <4>3. a \in ArduinoFindStops(m, k) /\ ArduinoFindGives(m, k)[a] = a
        BY <1>3, <2>2, <2>4, <3>8, <3>10 DEF ArduinoFindStops, ArduinoFindGives
      <4> QED
        BY <4>2, <4>3
    <3>11. CASE m[a] # 0 /\ m[a + 1] # k
      <4>1. a \notin ArduinoFindStops(m, k)
        BY <1>3, <2>2, <2>4, <3>8, <3>11 DEF ArduinoFindStops
      <4>2. ArduinoFindGoes(m)[a] = a + 3 + m[a + 2]
        BY <2>2, <3>11 DEF ArduinoFindGoes
      <4>3. CASE n >= 3
        BY <3>5, <3>8, <4>1, <4>2, <4>3
      <4>4. CASE n < 3
        <5>1. a + 3 + m[a + 2] \in Past
          BY <1>3, <2>2, <3>8, <4>4 DEF Past
        <5> QED
          BY <4>1, <4>2, <5>1
      <4> QED
        BY <3>8, <4>3, <4>4
    <3> QED
      BY <3>9, <3>10, <3>11
  <2> QED
    BY <1>3, <2>1, <2>2, <2>3, <2>4
<1>6. S \cup Past \in SUBSET (0 .. Reach)
  <2>1. S \subseteq 0 .. Reach
    BY <1>3
  <2>2. Past \subseteq 0 .. Reach
    BY DEF Past
  <2> QED
    BY <2>1, <2>2
<1>7. PICK W : W = S \cup Past
  OBVIOUS
<1> HIDE DEF R
<1>8. W \in SUBSET (0 .. Reach) /\ Reach \in Nat
  BY <1>3, <1>6, <1>7
<1>9. StaysIn(W, R, ArduinoFindStops(m, k), ArduinoFindGives(m, k), ArduinoFindGoes(m))
  BY <1>4, <1>5, <1>7 DEF StaysIn
<1>10. \A a \in W : f[a] \in R
  BY <1>1, <1>2, <1>8, <1>9, ScanInto
<1> QED
  BY <1>1, <1>3, <1>7, <1>10 DEF R


LEMMA Rp2040FindAnswers ==
  ASSUME NEW G \in SUBSET Given, NEW m \in Memory, NEW S, NEW torn, NEW k \in Keys, Chain("rp2040", G, m, S, torn)
  PROVE  Rp2040Find(m, k) \in Answers("rp2040", G, m, S, torn, k)
<1> DEFINE R == Answers("rp2040", G, m, S, torn, k)
<1>1. PICK f : Scans(f, Reach, Rp2040FindStops(m, k), Rp2040FindGives(m, k), Rp2040FindGoes(m)) /\ Rp2040Find(m, k) = f[0]
  BY Rp2040FindScans
<1>2. Advances(Reach, Rp2040FindStops(m, k), Rp2040FindGoes(m))
  BY Rp2040FindScans
<1>3. S \in SUBSET (0 .. Size) /\ S \in SUBSET (0 .. Reach) /\ 0 \in S /\ k \in Size .. Blank - 1
      /\ Size \in Nat \ {0} /\ Size < Blank /\ Blank = 255 /\ Reach = Size + Blank
  BY StoreAssumption DEF Chain, Blank, Reach
<1> DEFINE Step(a) == IF a \in Rp2040FindStops(m, k) THEN Rp2040FindGives(m, k)[a] \in R ELSE Rp2040FindGoes(m)[a] \in S \cup Past
<1>4. ASSUME NEW a \in Past PROVE Step(a)
  BY <1>3 DEF Past, Rp2040FindStops, Rp2040FindGives, Answers, Nowhere
<1>5. ASSUME NEW a \in S PROVE Step(a)
  <2>1. CASE a = Size
    <3>1. a \in Past
      BY <1>3, <2>1 DEF Past
    <3> QED
      BY <1>4, <3>1
  <2>2. a \in Nat /\ a <= Size /\ a \in 0 .. Reach
    BY <1>3
  <2>3. CASE a < Size /\ m[a] = Blank
    BY <1>3, <2>2, <2>3 DEF Rp2040FindStops, Rp2040FindGives, Answers, Nowhere
  <2>4. CASE a < Size /\ m[a] # Blank
    <3>1. ~ IsLast(m, S, a)
      BY <2>4 DEF IsLast
    <3>a. PICK g \in G : \E n : HoldsEntry("rp2040", m, S, torn, a, g, n)
      BY <3>1, ChainCases
    <3>2. PICK n : HoldsEntry("rp2040", m, S, torn, a, g, n)
      BY <3>a
    <3>3. Header("rp2040") = 2
      BY DEF Header
    <3>4. PICK l : l = Len(g[2])
      OBVIOUS
    <3>5. n >= 2 => a + 2 + l \in S
      BY <3>2, <3>3, <3>4 DEF HoldsEntry
    <3>6. Tells("rp2040", m, a, g, n, 2, l)
      BY <3>2, <3>3, <3>4 DEF HoldsEntry
    <3>7. ASSUME g[1] = k, n >= 1, m[a] # 0 PROVE a \in R
      BY <2>4, <3>2, <3>3, <3>7 DEF Answers, HoldsEntry
    <3>8. /\ n \in 1 .. 2 + l /\ a + 2 + l <= Size /\ l \in 1 .. 2 /\ a + 3 < Size
          /\ m[a] = g[1] /\ m[a + 1] = (IF 2 <= n THEN l ELSE Blank)
          /\ g[1] \in Size .. Blank - 1
      <4>1. a + 2 - 2 = a /\ a + 2 - 1 = a + 1 /\ a + 3 < Size /\ 2 - 1 <= n
        BY <2>2, <3>2, <3>6 DEF EntryAt, HoldsEntry, Tells, Shape
      <4> QED
        BY <2>2, <3>6, <4>1 DEF Tells, Shape
    <3>9. CASE m[a] = k
      <4>1. g[1] = k /\ m[a] # 0 /\ n >= 1
        BY <1>3, <3>8, <3>9
      <4>2. a \in R
        BY <3>7, <4>1
      <4>3. a \in Rp2040FindStops(m, k) /\ Rp2040FindGives(m, k)[a] = a
        BY <1>3, <2>2, <2>4, <3>8, <3>9 DEF Rp2040FindStops, Rp2040FindGives
      <4> QED
        BY <4>2, <4>3
    <3>10. CASE m[a] # k
      <4>1. a \notin Rp2040FindStops(m, k)
        BY <1>3, <2>2, <2>4, <3>8, <3>10 DEF Rp2040FindStops
      <4>2. Rp2040FindGoes(m)[a] = a + 2 + m[a + 1]
        BY <2>2, <3>10 DEF Rp2040FindGoes
      <4>3. CASE n >= 2
        BY <3>5, <3>8, <4>1, <4>2, <4>3
      <4>4. CASE n < 2
        <5>1. a + 2 + m[a + 1] \in Past
          BY <1>3, <2>2, <3>8, <4>4 DEF Past
        <5> QED
          BY <4>1, <4>2, <5>1
      <4> QED
        BY <3>8, <4>3, <4>4
    <3> QED
      BY <3>9, <3>10
  <2> QED
    BY <1>3, <2>1, <2>2, <2>3, <2>4
<1>6. S \cup Past \in SUBSET (0 .. Reach)
  <2>1. S \subseteq 0 .. Reach
    BY <1>3
  <2>2. Past \subseteq 0 .. Reach
    BY DEF Past
  <2> QED
    BY <2>1, <2>2
<1>7. PICK W : W = S \cup Past
  OBVIOUS
<1> HIDE DEF R
<1>8. W \in SUBSET (0 .. Reach) /\ Reach \in Nat
  BY <1>3, <1>6, <1>7
<1>9. StaysIn(W, R, Rp2040FindStops(m, k), Rp2040FindGives(m, k), Rp2040FindGoes(m))
  BY <1>4, <1>5, <1>7 DEF StaysIn
<1>10. \A a \in W : f[a] \in R
  BY <1>1, <1>2, <1>8, <1>9, ScanInto
<1> QED
  BY <1>1, <1>3, <1>7, <1>10 DEF R

LEMMA Stm32FreeAnswers ==
  ASSUME NEW G \in SUBSET Given, NEW m \in Memory, NEW S, NEW torn, Chain("stm32", G, m, S, torn)
  PROVE  Stm32Free(m) \in Room(m, S)
<1> DEFINE R == Room(m, S)
<1>1. PICK f : Scans(f, Reach, Stm32FreeStops(m), Stm32FreeGives(m), Stm32FreeGoes(m)) /\ Stm32Free(m) = (IF f[0] > Size THEN Size ELSE f[0])
  BY Stm32FreeScans
<1>2. Advances(Reach, Stm32FreeStops(m), Stm32FreeGoes(m))
  BY Stm32FreeScans
<1>3. S \in SUBSET (0 .. Size) /\ S \in SUBSET (0 .. Reach) /\ 0 \in S
      /\ Size \in Nat \ {0} /\ Size < Blank /\ Blank = 255 /\ Reach = Size + Blank
  BY ChainFacts
<1> DEFINE Step(a) == IF a \in Stm32FreeStops(m) THEN Stm32FreeGives(m)[a] \in R ELSE Stm32FreeGoes(m)[a] \in S \cup Past
<1>4. ASSUME NEW a \in Past PROVE Step(a)
  BY <1>3 DEF Past, Stm32FreeStops, Stm32FreeGives, Room, Nowhere
<1>5. ASSUME NEW a \in S PROVE Step(a)
  <2>1. CASE a = Size
    <3>1. a \in Past
      BY <1>3, <2>1 DEF Past
    <3> QED
      BY <1>4, <3>1
  <2>2. a \in Nat /\ a <= Size /\ a \in 0 .. Reach
    BY <1>3
  <2>3. CASE a < Size /\ IsLast(m, S, a)
    <3>1. a \in R /\ m[a] = Blank /\ Size \in R
      BY <1>3, <2>3 DEF IsLast, Room, Past
    <3>2. a \in Stm32FreeStops(m) /\ Stm32FreeGives(m)[a] \in {a, Size}
      BY <1>3, <2>2, <2>3, <3>1 DEF Stm32FreeStops, Stm32FreeGives, Nowhere
    <3> QED
      BY <3>1, <3>2
  <2>4. CASE a < Size /\ ~IsLast(m, S, a)
    <3>1. PICK g \in G : \E n : HoldsEntry("stm32", m, S, torn, a, g, n)
      BY <2>4, ChainCases
    <3>2. PICK n : HoldsEntry("stm32", m, S, torn, a, g, n)
      BY <3>1
    <3>3. Header("stm32") = 3
      BY DEF Header
    <3>4. PICK l : l = Len(g[2])
      OBVIOUS
    <3>5. n >= 3 => a + 3 + l \in S
      BY <3>2, <3>3, <3>4 DEF HoldsEntry
    <3>6. Tells("stm32", m, a, g, n, 3, l)
      BY <3>2, <3>3, <3>4 DEF HoldsEntry
    <3>7. /\ m[a] = 1 /\ n \in 1 .. 3 + l /\ a + 3 + l <= Size /\ l \in 1 .. 2
          /\ m[a + 1] = (IF 2 <= n THEN g[1] ELSE Blank) /\ m[a + 2] = (IF 3 <= n THEN l ELSE Blank)
          /\ g[1] \in Size .. Blank - 1
      BY <2>2, <3>6 DEF Tells, Shape
    <3>9. CASE m[a] # 0
      <4>1. a \notin Stm32FreeStops(m)
        BY <1>3, <2>2, <2>4, <3>7, <3>9 DEF Stm32FreeStops
      <4>2. Stm32FreeGoes(m)[a] = a + 3 + m[a + 2]
        BY <2>2, <3>9 DEF Stm32FreeGoes
      <4>3. CASE n >= 3
        BY <3>5, <3>7, <4>1, <4>2, <4>3
      <4>4. CASE n < 3
        <5>1. a + 3 + m[a + 2] \in Past
          BY <1>3, <2>2, <3>7, <4>4 DEF Past
        <5> QED
          BY <4>1, <4>2, <5>1
      <4> QED
        BY <3>7, <4>3, <4>4
    <3> QED
      BY <3>7, <3>9
  <2> QED
    BY <1>3, <2>1, <2>2, <2>3, <2>4
<1>6. S \cup Past \in SUBSET (0 .. Reach)
  <2>1. S \subseteq 0 .. Reach
    BY <1>3
  <2>2. Past \subseteq 0 .. Reach
    BY DEF Past
  <2> QED
    BY <2>1, <2>2
<1>7. PICK W : W = S \cup Past
  OBVIOUS
<1> HIDE DEF R
<1>8. W \in SUBSET (0 .. Reach) /\ Reach \in Nat
  BY <1>3, <1>6, <1>7
<1>9. StaysIn(W, R, Stm32FreeStops(m), Stm32FreeGives(m), Stm32FreeGoes(m))
  BY <1>4, <1>5, <1>7 DEF StaysIn
<1>10. \A a \in W : f[a] \in R
  BY <1>1, <1>2, <1>8, <1>9, ScanInto
<1>11. f[0] \in R /\ Size \in R
  BY <1>3, <1>7, <1>10 DEF R, Room, Past
<1> QED
  BY <1>1, <1>11 DEF R

LEMMA ArduinoEndAnswers ==
  ASSUME NEW G \in SUBSET Given, NEW m \in Memory, NEW S, NEW torn, Chain("arduino", G, m, S, torn)
  PROVE  ArduinoEnd(m) \in Room(m, S)
<1> DEFINE R == Room(m, S)
<1>1. PICK f : Scans(f, Reach, ArduinoEndStops(m), ArduinoEndGives(m), ArduinoEndGoes(m)) /\ ArduinoEnd(m) = f[0]
  BY ArduinoEndScans
<1>2. Advances(Reach, ArduinoEndStops(m), ArduinoEndGoes(m))
  BY ArduinoEndScans
<1>3. S \in SUBSET (0 .. Size) /\ S \in SUBSET (0 .. Reach) /\ 0 \in S
      /\ Size \in Nat \ {0} /\ Size < Blank /\ Blank = 255 /\ Reach = Size + Blank
  BY ChainFacts
<1> DEFINE Step(a) == IF a \in ArduinoEndStops(m) THEN ArduinoEndGives(m)[a] \in R ELSE ArduinoEndGoes(m)[a] \in S \cup Past
<1>4. ASSUME NEW a \in Past PROVE Step(a)
  BY <1>3 DEF Past, ArduinoEndStops, ArduinoEndGives, Room, Nowhere
<1>5. ASSUME NEW a \in S PROVE Step(a)
  <2>1. CASE a = Size
    <3>1. a \in Past
      BY <1>3, <2>1 DEF Past
    <3> QED
      BY <1>4, <3>1
  <2>2. a \in Nat /\ a <= Size /\ a \in 0 .. Reach
    BY <1>3
  <2>3. CASE a < Size /\ IsLast(m, S, a)
    <3>1. a \in R /\ m[a] = Blank /\ Size \in R
      BY <1>3, <2>3 DEF IsLast, Room, Past
    <3>2. a \in ArduinoEndStops(m) /\ ArduinoEndGives(m)[a] \in {a, Size}
      BY <1>3, <2>2, <2>3, <3>1 DEF ArduinoEndStops, ArduinoEndGives, Nowhere
    <3> QED
      BY <3>1, <3>2
  <2>4. CASE a < Size /\ ~IsLast(m, S, a)
    <3>1. PICK g \in G : \E n : HoldsEntry("arduino", m, S, torn, a, g, n)
      BY <2>4, ChainCases
    <3>2. PICK n : HoldsEntry("arduino", m, S, torn, a, g, n)
      BY <3>1
    <3>3. Header("arduino") = 3
      BY DEF Header
    <3>4. PICK l : l = Len(g[2])
      OBVIOUS
    <3>5. n >= 3 => a + 3 + l \in S
      BY <3>2, <3>3, <3>4 DEF HoldsEntry
    <3>6. Tells("arduino", m, a, g, n, 3, l)
      BY <3>2, <3>3, <3>4 DEF HoldsEntry
    <3>7. /\ (m[a] = 1 \/ (m[a] = 0 /\ n >= 2)) /\ n \in 1 .. 3 + l /\ a + 3 + l <= Size /\ l \in 1 .. 2
          /\ m[a + 1] = (IF 2 <= n THEN g[1] ELSE Blank) /\ m[a + 2] = (IF 3 <= n THEN l ELSE Blank)
          /\ g[1] \in Size .. Blank - 1
      BY <2>2, <3>6 DEF Tells, Shape
    <3>8. CASE m[a] = 0
      <4>1. a \notin ArduinoEndStops(m)
        BY <1>3, <2>2, <2>4, <3>7, <3>8 DEF ArduinoEndStops
      <4>2. ArduinoEndGoes(m)[a] = a + 2 + g[1]
        BY <2>2, <3>7, <3>8 DEF ArduinoEndGoes
      <4>3. a + 2 + g[1] \in Past
        BY <1>3, <2>2, <3>7 DEF Past
      <4> QED
        BY <4>1, <4>2, <4>3
    <3>9. CASE m[a] # 0
      <4>1. a \notin ArduinoEndStops(m)
        BY <1>3, <2>2, <2>4, <3>7, <3>9 DEF ArduinoEndStops
      <4>2. ArduinoEndGoes(m)[a] = a + 3 + m[a + 2]
        BY <2>2, <3>9 DEF ArduinoEndGoes
      <4>3. CASE n >= 3
        BY <3>5, <3>7, <4>1, <4>2, <4>3
      <4>4. CASE n < 3
        <5>1. a + 3 + m[a + 2] \in Past
          BY <1>3, <2>2, <3>7, <4>4 DEF Past
        <5> QED
          BY <4>1, <4>2, <5>1
      <4> QED
        BY <3>7, <4>3, <4>4
    <3> QED
      BY <3>7, <3>8, <3>9
  <2> QED
    BY <1>3, <2>1, <2>2, <2>3, <2>4
<1>6. S \cup Past \in SUBSET (0 .. Reach)
  <2>1. S \subseteq 0 .. Reach
    BY <1>3
  <2>2. Past \subseteq 0 .. Reach
    BY DEF Past
  <2> QED
    BY <2>1, <2>2
<1>7. PICK W : W = S \cup Past
  OBVIOUS
<1> HIDE DEF R
<1>8. W \in SUBSET (0 .. Reach) /\ Reach \in Nat
  BY <1>3, <1>6, <1>7
<1>9. StaysIn(W, R, ArduinoEndStops(m), ArduinoEndGives(m), ArduinoEndGoes(m))
  BY <1>4, <1>5, <1>7 DEF StaysIn
<1>10. \A a \in W : f[a] \in R
  BY <1>1, <1>2, <1>8, <1>9, ScanInto
<1> QED
  BY <1>1, <1>3, <1>7, <1>10 DEF R

LEMMA Rp2040FreeAnswers ==
  ASSUME NEW G \in SUBSET Given, NEW m \in Memory, NEW S, NEW torn, Chain("rp2040", G, m, S, torn)
  PROVE  Rp2040Free(m) \in CopyRoom(m, S)
<1> DEFINE R == CopyRoom(m, S)
<1>1. PICK f : Scans(f, Reach, Rp2040FreeStops(m), Rp2040FreeGives(m), Rp2040FreeGoes(m)) /\ Rp2040Free(m) = f[0]
  BY Rp2040FreeScans
<1>2. Advances(Reach, Rp2040FreeStops(m), Rp2040FreeGoes(m))
  BY Rp2040FreeScans
<1>3. S \in SUBSET (0 .. Size) /\ S \in SUBSET (0 .. Reach) /\ 0 \in S
      /\ Size \in Nat \ {0} /\ Size < Blank /\ Blank = 255 /\ Reach = Size + Blank
  BY ChainFacts
<1> DEFINE Step(a) == IF a \in Rp2040FreeStops(m) THEN Rp2040FreeGives(m)[a] \in R ELSE Rp2040FreeGoes(m)[a] \in S \cup Past
<1>4. ASSUME NEW a \in Past PROVE Step(a)
  BY <1>3 DEF Past, Rp2040FreeStops, Rp2040FreeGives, CopyRoom, Nowhere
<1>5. ASSUME NEW a \in S PROVE Step(a)
  <2>1. CASE a = Size
    <3>1. a \in Past
      BY <1>3, <2>1 DEF Past
    <3> QED
      BY <1>4, <3>1
  <2>2. a \in Nat /\ a <= Size /\ a \in 0 .. Reach
    BY <1>3
  <2>3. CASE a < Size /\ IsLast(m, S, a)
    <3>1. (a + 3 < Size => a \in R) /\ m[a] = Blank /\ Size \in R
      BY <1>3, <2>3 DEF IsLast, CopyRoom, Nowhere
    <3>2. a \in Rp2040FreeStops(m) /\ Rp2040FreeGives(m)[a] = IF a + 3 < Size THEN a ELSE Size
      BY <1>3, <2>2, <2>3, <3>1 DEF Rp2040FreeStops, Rp2040FreeGives, Nowhere
    <3> QED
      BY <3>1, <3>2
  <2>4. CASE a < Size /\ ~IsLast(m, S, a)
    <3>1. PICK g \in G : \E n : HoldsEntry("rp2040", m, S, torn, a, g, n)
      BY <2>4, ChainCases
    <3>2. PICK n : HoldsEntry("rp2040", m, S, torn, a, g, n)
      BY <3>1
    <3>3. Header("rp2040") = 2
      BY DEF Header
    <3>4. PICK l : l = Len(g[2])
      OBVIOUS
    <3>5. n >= 2 => a + 2 + l \in S
      BY <3>2, <3>3, <3>4 DEF HoldsEntry
    <3>6. Tells("rp2040", m, a, g, n, 2, l)
      BY <3>2, <3>3, <3>4 DEF HoldsEntry
    <3>7. /\ n \in 1 .. 2 + l /\ a + 2 + l <= Size /\ l \in 1 .. 2 /\ a + 3 < Size
          /\ m[a] = g[1] /\ m[a + 1] = (IF 2 <= n THEN l ELSE Blank)
          /\ g[1] \in Size .. Blank - 1
      <4>1. a + 2 - 2 = a /\ a + 2 - 1 = a + 1 /\ a + 3 < Size /\ 2 - 1 <= n
        BY <2>2, <3>2, <3>6 DEF EntryAt, HoldsEntry, Tells, Shape
      <4> QED
        BY <2>2, <3>6, <4>1 DEF Tells, Shape
    <3>8. a \notin Rp2040FreeStops(m)
      BY <1>3, <2>2, <2>4, <3>7 DEF Rp2040FreeStops
    <3>9. Rp2040FreeGoes(m)[a] = a + 2 + m[a + 1]
      BY <2>2 DEF Rp2040FreeGoes
    <3>10. CASE n >= 2
      BY <3>5, <3>7, <3>8, <3>9, <3>10
    <3>11. CASE n < 2
      <4>1. a + 2 + m[a + 1] \in Past
        BY <1>3, <2>2, <3>7, <3>11 DEF Past
      <4> QED
        BY <3>8, <3>9, <4>1
    <3> QED
      BY <3>7, <3>10, <3>11
  <2> QED
    BY <1>3, <2>1, <2>2, <2>3, <2>4
<1>6. S \cup Past \in SUBSET (0 .. Reach)
  <2>1. S \subseteq 0 .. Reach
    BY <1>3
  <2>2. Past \subseteq 0 .. Reach
    BY DEF Past
  <2> QED
    BY <2>1, <2>2
<1>7. PICK W : W = S \cup Past
  OBVIOUS
<1> HIDE DEF R
<1>8. W \in SUBSET (0 .. Reach) /\ Reach \in Nat
  BY <1>3, <1>6, <1>7
<1>9. StaysIn(W, R, Rp2040FreeStops(m), Rp2040FreeGives(m), Rp2040FreeGoes(m))
  BY <1>4, <1>5, <1>7 DEF StaysIn
<1>10. \A a \in W : f[a] \in R
  BY <1>1, <1>2, <1>8, <1>9, ScanInto
<1> QED
  BY <1>1, <1>3, <1>7, <1>10 DEF R

-----------------------------------------------------------------------------
(* A key that is kept is found.                                             *)

\* On the way to the entry kept at a, the scan stands at the entry at b.
OnTheWay(p, m, S, k, a, b, h, l) ==
  /\ b < Size /\ l \in 1 .. 2 /\ b + h + l <= Size
  /\ p = "rp2040" => b + 3 < Size
  /\ m[b] # Blank /\ (p # "rp2040" => m[b] = 1 \/ (p = "arduino" /\ m[b] = 0))
  /\ m[b + h - 1] = l /\ m[b + h - 2] \in Size .. Blank - 1
  /\ m[b + h - 2] = k \/ (b + h + l \in S /\ b + h + l <= a)

LEMMA WayThere ==
  ASSUME NEW p, NEW G \in SUBSET Given, NEW m \in Memory, NEW S, NEW torn, Chain(p, G, m, S, torn),
         NEW a \in S, NEW g \in G, EntryAt(p, m, S, a, g, Len(Image(p, g))), NEW b \in S, b <= a
  PROVE  \E l : OnTheWay(p, m, S, g[1], a, b, Header(p), l)
<1>1. S \in SUBSET (0 .. Size) /\ a \in Nat /\ b \in Nat /\ Size \in Nat \ {0} /\ Size < Blank /\ Blank = 255
  BY ChainFacts
<1>2. PICK h : h = Header(p) /\ h \in 2 .. 3
  BY DEF Header
<1>3. PICK l1 : l1 = Len(g[2])
  OBVIOUS
<1>4. ImageOf(p, g, Image(p, g), h, l1)
  BY <1>2, <1>3, ImageFacts
<1>5. Len(Image(p, g)) = h + l1 /\ l1 \in 1 .. 2
  BY <1>4 DEF ImageOf, Shape
<1>6. Tells(p, m, a, g, h + l1, h, l1)
  BY <1>1, <1>2, <1>3, <1>5, EntryCells
<1>7. CASE b = a
  <2>1. /\ g[1] \in Size .. Blank - 1 /\ l1 \in 1 .. 2 /\ a + h + l1 <= Size /\ m[a] # Blank
        /\ p # "rp2040" => m[a] = 1 \/ (p = "arduino" /\ m[a] = 0)
        /\ m[a + h - 2] = (IF h - 1 <= h + l1 THEN g[1] ELSE Blank) /\ m[a + h - 1] = (IF h <= h + l1 THEN l1 ELSE Blank)
    BY <1>6 DEF Tells, Shape
  <2>a. h \in 2 .. 3 /\ l1 \in 1 .. 2 /\ a \in Nat /\ Size \in Nat /\ a + h + l1 <= Size
    BY <1>1, <1>2, <2>1
  <2>2. h - 1 <= h + l1 /\ h <= h + l1 /\ a < Size
    BY <2>a
  <2>3. p = "rp2040" => a + 3 < Size
    BY DEF EntryAt
  <2>4. OnTheWay(p, m, S, g[1], a, b, h, l1)
    BY <1>7, <2>1, <2>2, <2>3 DEF OnTheWay
  <2> QED
    BY <1>2, <2>4
<1>8. CASE b < a
  <2>1. ~IsLast(m, S, b)
    BY <1>1, <1>8 DEF IsLast
  <2>2. PICK g2 \in G : \E n : HoldsEntry(p, m, S, torn, b, g2, n)
    BY <2>1, ChainCases
  <2>3. PICK n : HoldsEntry(p, m, S, torn, b, g2, n)
    BY <2>2
  <2>4. PICK l : l = Len(g2[2])
    OBVIOUS
  <2>5. Tells(p, m, b, g2, n, h, l) /\ (p = "rp2040" => b + 3 < Size)
    BY <1>2, <2>3, <2>4 DEF HoldsEntry, EntryAt
  <2>6. n >= h /\ b + h + l \in S /\ b + h + l <= a
    <3>1. b <= a /\ ~(a <= b) 
      BY <1>1, <1>8
    <3> QED
      BY <1>2, <2>3, <2>4, <3>1 DEF HoldsEntry
  <2>7. /\ g2[1] \in Size .. Blank - 1 /\ l \in 1 .. 2 /\ b + h + l <= Size /\ m[b] # Blank /\ n \in 1 .. h + l
        /\ p # "rp2040" => m[b] = 1 \/ (p = "arduino" /\ m[b] = 0)
        /\ m[b + h - 2] = (IF h - 1 <= n THEN g2[1] ELSE Blank) /\ m[b + h - 1] = (IF h <= n THEN l ELSE Blank)
    BY <2>5 DEF Tells, Shape
  <2>8. h - 1 <= n /\ h <= n /\ b < Size
    BY <1>1, <1>2, <2>6, <2>7
  <2>9. OnTheWay(p, m, S, g[1], a, b, h, l)
    BY <2>5, <2>6, <2>7, <2>8 DEF OnTheWay
  <2> QED
    BY <1>2, <2>9
<1> QED
  BY <1>1, <1>7, <1>8

LEMMA Stm32FindKept ==
  ASSUME NEW G \in SUBSET Given, NEW m \in Memory, NEW S, NEW torn, NEW k \in Keys,
         Chain("stm32", G, m, S, torn), Kept("stm32", G, m, S, k)
  PROVE  Stm32Find(m, k) # Nowhere
<1>1. PICK f : Scans(f, Reach, Stm32FindStops(m, k), Stm32FindGives(m, k), Stm32FindGoes(m)) /\ Stm32Find(m, k) = f[0]
  BY Stm32FindScans
<1>2. Advances(Reach, Stm32FindStops(m, k), Stm32FindGoes(m))
  BY Stm32FindScans
<1>3. /\ S \in SUBSET (0 .. Size) /\ S \in SUBSET (0 .. Reach) /\ 0 \in S
      /\ Size \in Nat \ {0} /\ Size < Blank /\ Blank = 255 /\ Reach = Size + Blank
  BY ChainFacts
<1>4. PICK a \in S : \E g \in G : g[1] = k /\ EntryAt("stm32", m, S, a, g, Len(Image("stm32", g)))
  BY DEF Kept
<1>5. PICK g \in G : g[1] = k /\ EntryAt("stm32", m, S, a, g, Len(Image("stm32", g)))
  BY <1>4
<1>6. PICK W : W = {b \in S : b <= a}
  OBVIOUS
<1>7. Header("stm32") = 3
  BY DEF Header
<1>8. ASSUME NEW b \in W
      PROVE  IF b \in Stm32FindStops(m, k) THEN Stm32FindGives(m, k)[b] \in Addr ELSE Stm32FindGoes(m)[b] \in W
  <2>1. b \in S /\ b \in Nat /\ b <= a /\ b \in 0 .. Reach
    BY <1>3, <1>6
  <2>2. PICK l : OnTheWay("stm32", m, S, k, a, b, 3, l)
    <3>1. \E l : OnTheWay("stm32", m, S, g[1], a, b, Header("stm32"), l)
      BY <1>5, <2>1, WayThere
    <3> QED
      BY <1>5, <1>7, <3>1
  <2>3. b + 3 - 1 = b + 2 /\ b + 3 - 2 = b + 1
    BY <2>1
  <2>4. /\ b < Size /\ l \in 1 .. 2 /\ b + 3 + l <= Size /\ m[b] # Blank /\ m[b] = 1
        /\ m[b + 2] = l /\ m[b + 1] \in Size .. Blank - 1
        /\ m[b + 1] = k \/ (b + 3 + l \in S /\ b + 3 + l <= a)
    BY <2>2, <2>3 DEF OnTheWay
  <2>5. CASE m[b + 1] = k
    <3>1. b \in Stm32FindStops(m, k) /\ Stm32FindGives(m, k)[b] = b
      BY <1>3, <2>1, <2>4, <2>5 DEF Stm32FindStops, Stm32FindGives
    <3> QED
      BY <1>3, <2>1, <2>4, <3>1 DEF Addr
  <2>6. CASE m[b + 1] # k
    <3>1. b \notin Stm32FindStops(m, k)
      BY <1>3, <2>1, <2>4, <2>6 DEF Stm32FindStops
    <3>2. Stm32FindGoes(m)[b] = b + 3 + l
      BY <2>1, <2>4, <2>6 DEF Stm32FindGoes
    <3> QED
      BY <1>6, <2>4, <2>6, <3>1, <3>2
  <2> QED
    BY <2>5, <2>6
<1>9. StaysIn(W, Addr, Stm32FindStops(m, k), Stm32FindGives(m, k), Stm32FindGoes(m))
  BY <1>8 DEF StaysIn
<1>a. a \in Nat
  BY <1>3
<1>10. W \in SUBSET (0 .. Reach) /\ Reach \in Nat /\ 0 \in W
  <2>1. 0 <= a /\ Reach \in Nat
    BY <1>a, <1>3
  <2>2. 0 \in W
    BY <2>1, <1>3, <1>6
  <2>3. W \subseteq S
    BY <1>6
  <2> QED
    BY <2>1, <2>2, <2>3, <1>3
<1>11. \A b \in W : f[b] \in Addr
  BY <1>1, <1>2, <1>9, <1>10, ScanInto
<1> QED
  BY <1>1, <1>3, <1>10, <1>11 DEF Addr, Nowhere

LEMMA ArduinoFindKept ==
  ASSUME NEW G \in SUBSET Given, NEW m \in Memory, NEW S, NEW torn, NEW k \in Keys,
         Chain("arduino", G, m, S, torn), Kept("arduino", G, m, S, k), NoZero(m, S)
  PROVE  ArduinoFind(m, k) # Nowhere
<1>1. PICK f : Scans(f, Reach, ArduinoFindStops(m, k), ArduinoFindGives(m, k), ArduinoFindGoes(m)) /\ ArduinoFind(m, k) = f[0]
  BY ArduinoFindScans
<1>2. Advances(Reach, ArduinoFindStops(m, k), ArduinoFindGoes(m))
  BY ArduinoFindScans
<1>3. /\ S \in SUBSET (0 .. Size) /\ S \in SUBSET (0 .. Reach) /\ 0 \in S
      /\ Size \in Nat \ {0} /\ Size < Blank /\ Blank = 255 /\ Reach = Size + Blank
  BY ChainFacts
<1>4. PICK a \in S : \E g \in G : g[1] = k /\ EntryAt("arduino", m, S, a, g, Len(Image("arduino", g)))
  BY DEF Kept
<1>5. PICK g \in G : g[1] = k /\ EntryAt("arduino", m, S, a, g, Len(Image("arduino", g)))
  BY <1>4
<1>6. PICK W : W = {b \in S : b <= a}
  OBVIOUS
<1>7. Header("arduino") = 3
  BY DEF Header
<1>8. ASSUME NEW b \in W
      PROVE  IF b \in ArduinoFindStops(m, k) THEN ArduinoFindGives(m, k)[b] \in Addr ELSE ArduinoFindGoes(m)[b] \in W
  <2>1. b \in S /\ b \in Nat /\ b <= a /\ b \in 0 .. Reach
    BY <1>3, <1>6
  <2>2. PICK l : OnTheWay("arduino", m, S, k, a, b, 3, l)
    <3>1. \E l : OnTheWay("arduino", m, S, g[1], a, b, Header("arduino"), l)
      BY <1>5, <2>1, WayThere
    <3> QED
      BY <1>5, <1>7, <3>1
  <2>3. b + 3 - 1 = b + 2 /\ b + 3 - 2 = b + 1
    BY <2>1
  <2>4. /\ b < Size /\ l \in 1 .. 2 /\ b + 3 + l <= Size /\ m[b] # Blank
        /\ m[b + 2] = l /\ m[b + 1] \in Size .. Blank - 1
        /\ m[b + 1] = k \/ (b + 3 + l \in S /\ b + 3 + l <= a)
    BY <2>2, <2>3 DEF OnTheWay
  <2>z. m[b] # 0
    BY <2>1, <2>4 DEF NoZero
  <2>5. CASE m[b + 1] = k
    <3>1. b \in ArduinoFindStops(m, k) /\ ArduinoFindGives(m, k)[b] = b
      BY <1>3, <2>1, <2>4, <2>z, <2>5 DEF ArduinoFindStops, ArduinoFindGives
    <3> QED
      BY <1>3, <2>1, <2>4, <3>1 DEF Addr
  <2>6. CASE m[b + 1] # k
    <3>1. b \notin ArduinoFindStops(m, k)
      BY <1>3, <2>1, <2>4, <2>z, <2>6 DEF ArduinoFindStops
    <3>2. ArduinoFindGoes(m)[b] = b + 3 + l
      BY <2>1, <2>4, <2>z, <2>6 DEF ArduinoFindGoes
    <3> QED
      BY <1>6, <2>4, <2>6, <3>1, <3>2
  <2> QED
    BY <2>5, <2>6
<1>9. StaysIn(W, Addr, ArduinoFindStops(m, k), ArduinoFindGives(m, k), ArduinoFindGoes(m))
  BY <1>8 DEF StaysIn
<1>a. a \in Nat
  BY <1>3
<1>10. W \in SUBSET (0 .. Reach) /\ Reach \in Nat /\ 0 \in W
  <2>1. 0 <= a /\ Reach \in Nat
    BY <1>a, <1>3
  <2>2. 0 \in W
    BY <2>1, <1>3, <1>6
  <2>3. W \subseteq S
    BY <1>6
  <2> QED
    BY <2>1, <2>2, <2>3, <1>3
<1>11. \A b \in W : f[b] \in Addr
  BY <1>1, <1>2, <1>9, <1>10, ScanInto
<1> QED
  BY <1>1, <1>3, <1>10, <1>11 DEF Addr, Nowhere

LEMMA Rp2040FindKept ==
  ASSUME NEW G \in SUBSET Given, NEW m \in Memory, NEW S, NEW torn, NEW k \in Keys,
         Chain("rp2040", G, m, S, torn), Kept("rp2040", G, m, S, k)
  PROVE  Rp2040Find(m, k) # Nowhere
<1>1. PICK f : Scans(f, Reach, Rp2040FindStops(m, k), Rp2040FindGives(m, k), Rp2040FindGoes(m)) /\ Rp2040Find(m, k) = f[0]
  BY Rp2040FindScans
<1>2. Advances(Reach, Rp2040FindStops(m, k), Rp2040FindGoes(m))
  BY Rp2040FindScans
<1>3. /\ S \in SUBSET (0 .. Size) /\ S \in SUBSET (0 .. Reach) /\ 0 \in S
      /\ Size \in Nat \ {0} /\ Size < Blank /\ Blank = 255 /\ Reach = Size + Blank
  BY ChainFacts
<1>4. PICK a \in S : \E g \in G : g[1] = k /\ EntryAt("rp2040", m, S, a, g, Len(Image("rp2040", g)))
  BY DEF Kept
<1>5. PICK g \in G : g[1] = k /\ EntryAt("rp2040", m, S, a, g, Len(Image("rp2040", g)))
  BY <1>4
<1>6. PICK W : W = {b \in S : b <= a}
  OBVIOUS
<1>7. Header("rp2040") = 2
  BY DEF Header
<1>8. ASSUME NEW b \in W
      PROVE  IF b \in Rp2040FindStops(m, k) THEN Rp2040FindGives(m, k)[b] \in Addr ELSE Rp2040FindGoes(m)[b] \in W
  <2>1. b \in S /\ b \in Nat /\ b <= a /\ b \in 0 .. Reach
    BY <1>3, <1>6
  <2>2. PICK l : OnTheWay("rp2040", m, S, k, a, b, 2, l)
    <3>1. \E l : OnTheWay("rp2040", m, S, g[1], a, b, Header("rp2040"), l)
      BY <1>5, <2>1, WayThere
    <3> QED
      BY <1>5, <1>7, <3>1
  <2>3. b + 2 - 1 = b + 1 /\ b + 2 - 2 = b
    BY <2>1
  <2>4. /\ b < Size /\ l \in 1 .. 2 /\ b + 2 + l <= Size /\ b + 3 < Size /\ m[b] # Blank
        /\ m[b + 1] = l /\ m[b] \in Size .. Blank - 1
        /\ m[b] = k \/ (b + 2 + l \in S /\ b + 2 + l <= a)
    BY <2>2, <2>3 DEF OnTheWay
  <2>5. CASE m[b] = k
    <3>1. b \in Rp2040FindStops(m, k) /\ Rp2040FindGives(m, k)[b] = b
      BY <1>3, <2>1, <2>4, <2>5 DEF Rp2040FindStops, Rp2040FindGives
    <3> QED
      BY <1>3, <2>1, <2>4, <3>1 DEF Addr
  <2>6. CASE m[b] # k
    <3>1. b \notin Rp2040FindStops(m, k)
      BY <1>3, <2>1, <2>4, <2>6 DEF Rp2040FindStops
    <3>2. Rp2040FindGoes(m)[b] = b + 2 + l
      BY <2>1, <2>4, <2>6 DEF Rp2040FindGoes
    <3> QED
      BY <1>6, <2>4, <2>6, <3>1, <3>2
  <2> QED
    BY <2>5, <2>6
<1>9. StaysIn(W, Addr, Rp2040FindStops(m, k), Rp2040FindGives(m, k), Rp2040FindGoes(m))
  BY <1>8 DEF StaysIn
<1>a. a \in Nat
  BY <1>3
<1>10. W \in SUBSET (0 .. Reach) /\ Reach \in Nat /\ 0 \in W
  <2>1. 0 <= a /\ Reach \in Nat
    BY <1>a, <1>3
  <2>2. 0 \in W
    BY <2>1, <1>3, <1>6
  <2>3. W \subseteq S
    BY <1>6
  <2> QED
    BY <2>1, <2>2, <2>3, <1>3
<1>11. \A b \in W : f[b] \in Addr
  BY <1>1, <1>2, <1>9, <1>10, ScanInto
<1> QED
  BY <1>1, <1>3, <1>10, <1>11 DEF Addr, Nowhere

-----------------------------------------------------------------------------
(* An Arduino entry that is marked as erased sends the scan for room past the end: its key
   is taken for the length of a value.                                      *)

LEMMA MarkedEnd ==
  ASSUME NEW G \in SUBSET Given, NEW m \in Memory, NEW S, NEW torn, NEW k \in Keys,
         Chain("arduino", G, m, S, torn), NEW x \in S, x < Size, x = ArduinoFind(m, k),
         NEW m2 \in Memory, m2 = [m EXCEPT ![x] = 0]
  PROVE  ArduinoEnd(m2) \in Past
<1>1. PICK f : Scans(f, Reach, ArduinoFindStops(m, k), ArduinoFindGives(m, k), ArduinoFindGoes(m)) /\ ArduinoFind(m, k) = f[0]
  BY ArduinoFindScans
<1>2. PICK e : Scans(e, Reach, ArduinoEndStops(m2), ArduinoEndGives(m2), ArduinoEndGoes(m2)) /\ ArduinoEnd(m2) = e[0]
  BY ArduinoEndScans
<1>3. Advances(Reach, ArduinoEndStops(m2), ArduinoEndGoes(m2))
  BY ArduinoEndScans
<1>4. /\ S \in SUBSET (0 .. Size) /\ S \in SUBSET (0 .. Reach) /\ 0 \in S
      /\ Size \in Nat \ {0} /\ Size < Blank /\ Blank = 255 /\ Reach = Size + Blank
  BY ChainFacts
<1>5. x \in Nat /\ x \in Addr /\ DOMAIN m = Addr
  BY <1>4 DEF Addr, Memory
<1>6. m2[x] = 0 /\ \A c : c \in Addr /\ c # x => m2[c] = m[c]
  BY <1>5
<1>7. \A c \in 0 .. Reach : f[c] = IF c \in ArduinoFindStops(m, k) THEN ArduinoFindGives(m, k)[c] ELSE f[ArduinoFindGoes(m)[c]]
  BY <1>1 DEF Scans
<1>8. ASSUME NEW c \in Past PROVE f[c] # x
  <2>1. c \in 0 .. Reach /\ c \in ArduinoFindStops(m, k) /\ ArduinoFindGives(m, k)[c] = Size
    BY <1>4 DEF Past, ArduinoFindStops, ArduinoFindGives, Nowhere
  <2> QED
    BY <1>4, <1>5, <1>7, <2>1
<1>9. PICK W : W = {b \in S : f[b] = x} \cup Past
  OBVIOUS
<1> DEFINE Step(b) == IF b \in ArduinoEndStops(m2) THEN ArduinoEndGives(m2)[b] \in Past ELSE ArduinoEndGoes(m2)[b] \in W
<1>10. ASSUME NEW b \in Past PROVE Step(b)
  BY <1>4 DEF Past, ArduinoEndStops, ArduinoEndGives
<1>11. ASSUME NEW b \in S, f[b] = x PROVE Step(b)
  <2>1. b \in Nat /\ b <= Size /\ b \in 0 .. Reach
    BY <1>4
  <2>2. b < Size /\ m[b] # Blank
    <3>1. CASE b = Size
      BY <1>4, <1>8, <1>11, <2>1, <3>1 DEF Past
    <3>2. CASE b < Size /\ m[b] = Blank
      <4>1. b \in ArduinoFindStops(m, k) /\ ArduinoFindGives(m, k)[b] = Size
        BY <1>4, <2>1, <3>2 DEF ArduinoFindStops, ArduinoFindGives, Nowhere
      <4> QED
        BY <1>4, <1>5, <1>7, <1>11, <2>1, <4>1
    <3> QED
      BY <1>4, <2>1, <3>1, <3>2
  <2>3. ~IsLast(m, S, b)
    BY <2>2 DEF IsLast
  <2>4. PICK g \in G : \E n : HoldsEntry("arduino", m, S, torn, b, g, n)
    BY <2>3, ChainCases
  <2>5. PICK n : HoldsEntry("arduino", m, S, torn, b, g, n)
    BY <2>4
  <2>6. Header("arduino") = 3
    BY DEF Header
  <2>7. PICK l : l = Len(g[2])
    OBVIOUS
  <2>8. (n >= 3 => b + 3 + l \in S) /\ \A c \in S : c <= b \/ b + 3 + l <= c
    BY <2>5, <2>6, <2>7 DEF HoldsEntry
  <2>9. Tells("arduino", m, b, g, n, 3, l)
    BY <2>5, <2>6, <2>7 DEF HoldsEntry
  <2>10. /\ (m[b] = 1 \/ (m[b] = 0 /\ n >= 2)) /\ n \in 1 .. 3 + l /\ b + 3 + l <= Size /\ l \in 1 .. 2
         /\ m[b + 1] = (IF 2 <= n THEN g[1] ELSE Blank) /\ m[b + 2] = (IF 3 <= n THEN l ELSE Blank)
         /\ g[1] \in Size .. Blank - 1
    BY <2>1, <2>9 DEF Tells, Shape
  <2>11. b + 1 \in Addr /\ b + 2 \in Addr /\ b \in Addr /\ m[b + 1] \in Size .. Blank
    BY <1>4, <2>1, <2>10 DEF Addr
  <2>12. CASE b = x
    <3>1. m2[b] = 0 /\ m2[b + 1] = m[b + 1]
      BY <1>6, <2>1, <2>11, <2>12
    <3>2. b \notin ArduinoEndStops(m2)
      BY <1>4, <2>1, <2>2, <2>10, <3>1 DEF ArduinoEndStops
    <3>3. ArduinoEndGoes(m2)[b] = b + 2 + m[b + 1]
      BY <2>1, <3>1 DEF ArduinoEndGoes
    <3>4. b + 2 + m[b + 1] \in Past
      BY <1>4, <2>1, <2>2, <2>10, <2>11 DEF Past
    <3> QED
      BY <1>9, <3>2, <3>3, <3>4
  <2>13. CASE b # x
    <3>1. m[b] # 0
      <4> SUFFICES ASSUME m[b] = 0 PROVE FALSE
        OBVIOUS
      <4>1. b \notin ArduinoFindStops(m, k) /\ ArduinoFindGoes(m)[b] = b + 2 + m[b + 1]
        BY <1>4, <2>1, <2>2, <2>10 DEF ArduinoFindStops, ArduinoFindGoes
      <4>2. b + 2 + m[b + 1] \in Past
        BY <1>4, <2>1, <2>2, <2>10, <2>11 DEF Past
      <4> QED
        BY <1>7, <1>8, <1>11, <2>1, <4>1, <4>2
    <3>2. m[b + 1] # k
      <4> SUFFICES ASSUME m[b + 1] = k PROVE FALSE
        OBVIOUS
      <4>1. b \in ArduinoFindStops(m, k) /\ ArduinoFindGives(m, k)[b] = b
        BY <1>4, <2>1, <2>2, <2>10, <3>1 DEF ArduinoFindStops, ArduinoFindGives
      <4> QED
        BY <1>7, <1>11, <2>1, <2>13, <4>1
    <3>3. b \notin ArduinoFindStops(m, k) /\ ArduinoFindGoes(m)[b] = b + 3 + m[b + 2]
      BY <1>4, <2>1, <2>2, <2>10, <3>1, <3>2 DEF ArduinoFindStops, ArduinoFindGoes
    <3>4. f[b + 3 + m[b + 2]] = x
      BY <1>7, <1>11, <2>1, <3>3
    <3>5. n >= 3
      <4> SUFFICES ASSUME n < 3 PROVE FALSE
        BY <2>10
      <4>1. b + 3 + m[b + 2] \in Past
        BY <1>4, <2>1, <2>10 DEF Past
      <4> QED
        BY <1>8, <3>4, <4>1
    <3>6. b + 2 # x
      <4>1. x <= b \/ b + 3 + l <= x
        BY <2>8
      <4> QED
        BY <1>5, <2>1, <2>10, <4>1
    <3>7. m2[b] = m[b] /\ m2[b + 2] = m[b + 2] /\ m[b + 2] = l
      BY <1>6, <2>10, <2>11, <2>13, <3>5, <3>6
    <3>8. b \notin ArduinoEndStops(m2)
      BY <1>4, <2>1, <2>2, <2>10, <3>1, <3>7 DEF ArduinoEndStops
    <3>9. ArduinoEndGoes(m2)[b] = b + 3 + l
      BY <2>1, <3>1, <3>7 DEF ArduinoEndGoes
    <3>10. b + 3 + l \in S /\ f[b + 3 + l] = x
      BY <2>8, <3>4, <3>5, <3>7
    <3> QED
      BY <1>9, <3>8, <3>9, <3>10
  <2> QED
    BY <2>12, <2>13
<1>12. W \in SUBSET (0 .. Reach) /\ Reach \in Nat
  <2>1. {b \in S : f[b] = x} \subseteq 0 .. Reach /\ Past \subseteq 0 .. Reach
    BY <1>4 DEF Past
  <2>2. Reach \in Nat
    BY <1>4
  <2> QED
    BY <1>9, <2>1, <2>2
<1>13. ASSUME NEW b \in W PROVE Step(b)
  BY <1>9, <1>10, <1>11
<1>14. StaysIn(W, Past, ArduinoEndStops(m2), ArduinoEndGives(m2), ArduinoEndGoes(m2))
  BY <1>13 DEF StaysIn
<1>15. \A b \in W : e[b] \in Past
  BY <1>2, <1>3, <1>12, <1>14, ScanInto
<1>16. 0 \in W
  BY <1>1, <1>4, <1>9
<1> QED
  BY <1>2, <1>15, <1>16

-----------------------------------------------------------------------------
(* Writing the cells of an entry, one after the other.                      *)

\* The cells of the entry up to the cell n2 are written.
Extends(m, m2, a, e, n, n2) ==
  \A b \in Addr : m2[b] = IF a + n <= b /\ b < a + n2 THEN e[b - a + 1] ELSE m[b]

Longer(p, S, a, g, n2) == IF n2 >= Header(p) THEN S \cup {a + Len(Image(p, g))} ELSE S

\* What the steps below need of the entry.
Fits(p, m, S, a, e, h, l, n) ==
  /\ S \in SUBSET (0 .. Size) /\ a \in S /\ a \in Nat /\ Size \in Nat /\ Blank = 255
  /\ h \in 2 .. 3 /\ l \in 1 .. 2 /\ Len(e) = h + l /\ a + h + l <= Size
  /\ \A i \in 1 .. h + l : e[i] \in 1 .. Blank - 1
  /\ n \in 0 .. h + l /\ Clear(m, a + n)
  /\ \A b \in S : b <= a \/ (n >= h /\ a + h + l <= b)

LEMMA BegunFits ==
  ASSUME NEW p, NEW G \in SUBSET Given, NEW m \in Memory, NEW S, NEW torn, Chain(p, G, m, S, torn),
         NEW a, NEW g \in Given, NEW n, Begun(p, m, S, a, g, n)
  PROVE  Fits(p, m, S, a, Image(p, g), Header(p), Len(g[2]), n)
<1>1. PICK e, h, l : e = Image(p, g) /\ h = Header(p) /\ l = Len(g[2])
  OBVIOUS
<1>2. ImageOf(p, g, e, h, l)
  BY <1>1, ImageFacts
<1>3. h \in 2 .. 3 /\ l \in 1 .. 2 /\ Len(e) = h + l /\ \A i \in 1 .. h + l : e[i] \in 1 .. Blank - 1
  BY <1>2 DEF ImageOf, Shape
<1>4. S \in SUBSET (0 .. Size) /\ Size \in Nat /\ Blank = 255
  BY ChainFacts
<1>5. a \in S /\ a + Len(e) <= Size /\ n \in 0 .. Len(e) /\ Clear(m, a + n)
  BY <1>1 DEF Begun
<1>6. a \in Nat /\ a + Len(e) = a + h + l
  BY <1>3, <1>4, <1>5
<1>7. \A b \in S : b <= a \/ (n >= h /\ a + h + l <= b)
  <2>1. CASE n = 0
    BY <2>1 DEF Begun
  <2>2. CASE n # 0
    <3>1. \A b \in S : b <= a \/ (n >= h /\ a + Len(e) <= b)
      BY <1>1, <2>2 DEF Begun, EntryAt
    <3> QED
      BY <1>6, <3>1
  <2> QED
    BY <2>1, <2>2
<1>8. Fits(p, m, S, a, e, h, l, n)
  BY <1>3, <1>4, <1>5, <1>6, <1>7 DEF Fits
<1> QED
  BY <1>1, <1>8

Extended(m, m2, a, e, N, n, n2) ==
  /\ \A b \in Addr : b < a + n => m2[b] = m[b]
  /\ \A i \in n + 1 .. n2 : m2[a + i - 1] = e[i]
  /\ Clear(m2, a + n2)
  /\ \A i \in 1 .. N : a + i - 1 \in Addr

LEMMA ExtendedCells ==
  ASSUME NEW p, NEW m \in Memory, NEW m2, NEW S, NEW a, NEW e, NEW h, NEW l, NEW n, NEW n2,
         Fits(p, m, S, a, e, h, l, n), Extends(m, m2, a, e, n, n2), n2 \in n + 1 .. h + l
  PROVE  Extended(m, m2, a, e, h + l, n, n2)
<1>1. /\ a \in Nat /\ n \in Nat /\ n2 \in Nat /\ n < n2 /\ n2 <= h + l /\ Size \in Nat /\ a + (h + l) <= Size
      /\ h + l \in Nat
  BY DEF Fits
<1>2. \A i \in 1 .. h + l : a + i - 1 \in Addr
  BY <1>1 DEF Addr
<1>3. ASSUME NEW b \in Addr, b < a + n PROVE m2[b] = m[b]
  BY <1>1, <1>3 DEF Extends, Addr
<1>4. ASSUME NEW i \in n + 1 .. n2 PROVE m2[a + i - 1] = e[i]
  <2>1. i \in 1 .. h + l /\ a + n <= a + i - 1 /\ a + i - 1 < a + n2 /\ (a + i - 1) - a + 1 = i
    BY <1>1
  <2>2. a + i - 1 \in Addr
    BY <1>2, <2>1
  <2> QED
    BY <2>1, <2>2 DEF Extends
<1>5. ASSUME NEW b \in Addr, b >= a + n2 PROVE m2[b] = Blank
  <2>1. ~(b < a + n2) /\ b >= a + n
    BY <1>1, <1>5 DEF Addr
  <2>2. m[b] = Blank
    BY <2>1 DEF Fits, Clear
  <2> QED
    BY <2>1, <2>2 DEF Extends
<1> QED
  BY <1>2, <1>3, <1>4, <1>5 DEF Clear, Extended

LEMMA EntryGrows ==
  ASSUME NEW p, NEW G \in SUBSET Given, NEW m \in Memory, NEW m2, NEW S, NEW torn, Chain(p, G, m, S, torn),
         NEW a, NEW g \in Given, NEW n, Begun(p, m, S, a, g, n),
         NEW n2, n2 \in n + 1 .. Len(Image(p, g)), Extends(m, m2, a, Image(p, g), n, n2)
  PROVE  EntryAt(p, m2, Longer(p, S, a, g, n2), a, g, n2)
<1>1. PICK e, h, l : e = Image(p, g) /\ h = Header(p) /\ l = Len(g[2])
  OBVIOUS
<1>2. Fits(p, m, S, a, e, h, l, n)
  BY <1>1, BegunFits
<1>3. /\ a \in Nat /\ n \in Nat /\ n2 \in Nat /\ n < n2 /\ n2 <= h + l /\ Size \in Nat /\ a + (h + l) <= Size
      /\ h + l \in Nat /\ Len(e) = h + l /\ n2 \in n + 1 .. h + l /\ h \in 2 .. 3 /\ l \in 1 .. 2
  BY <1>1, <1>2 DEF Fits
<1>a. Extends(m, m2, a, e, n, n2)
  BY <1>1
<1>b. Extended(m, m2, a, e, h + l, n, n2)
  BY <1>2, <1>3, <1>a, ExtendedCells
<1>4. /\ \A b \in Addr : b < a + n => m2[b] = m[b]
      /\ \A i \in n + 1 .. n2 : m2[a + i - 1] = e[i]
      /\ Clear(m2, a + n2)
      /\ \A i \in 1 .. h + l : a + i - 1 \in Addr
  BY <1>b DEF Extended
<1>5. ASSUME NEW i \in 1 .. h + l
      PROVE  m2[a + i - 1] = (IF i <= n2 THEN e[i] ELSE Blank) \/ (i = 1 /\ Erased(p, m2, a, n2))
  <2>1. CASE i <= n
    <3>a. a + i - 1 \in Addr
      BY <1>4
    <3>1. a + i - 1 \in Addr /\ a + i - 1 < a + n /\ i <= n2 /\ n # 0
      BY <1>3, <2>1, <3>a
    <3>2. m[a + i - 1] = (IF i <= n THEN e[i] ELSE Blank) \/ (i = 1 /\ Erased(p, m, a, n))
      BY <1>1, <1>3, <3>1 DEF Begun, EntryAt, Shows
    <3>3. m2[a + i - 1] = m[a + i - 1]
      BY <1>4, <3>1
    <3>4. CASE m[a + i - 1] = e[i]
      BY <3>1, <3>3, <3>4
    <3>5. CASE i = 1 /\ Erased(p, m, a, n)
      <4>1. a + i - 1 = a
        BY <1>3, <3>5
      <4> QED
        BY <1>3, <3>3, <3>5, <4>1 DEF Erased
    <3> QED
      BY <2>1, <3>2, <3>4, <3>5
  <2>2. CASE n < i /\ i <= n2
    <3>1. i \in n + 1 .. n2
      BY <1>3, <2>2
    <3> QED
      BY <1>4, <2>2, <3>1
  <2>3. CASE n2 < i
    <3>a. a + i - 1 \in Addr
      BY <1>4
    <3>1. a + i - 1 \in Addr /\ a + i - 1 >= a + n2 /\ ~(i <= n2)
      BY <1>3, <2>3, <3>a
    <3> QED
      BY <1>4, <3>1 DEF Clear
  <2> QED
    BY <1>3, <2>1, <2>2, <2>3
<1>6. Shows(p, m2, a, e, n2)
  BY <1>3, <1>5 DEF Shows
<1>7. n2 >= h => a + Len(e) \in Longer(p, S, a, g, n2)
  BY <1>1 DEF Longer
<1>8. ASSUME NEW b \in Longer(p, S, a, g, n2) PROVE b <= a \/ (n2 >= h /\ a + Len(e) <= b)
  <2>1. a + Len(e) = a + h + l
    BY <1>3
  <2>2. CASE b \in S
    <3>1. b <= a \/ (n >= h /\ a + h + l <= b)
      BY <1>2, <2>2 DEF Fits
    <3> QED
      BY <1>3, <2>1, <3>1
  <2>3. CASE b \notin S
    <3>1. n2 >= h /\ b = a + Len(e)
      BY <1>1, <1>8, <2>3 DEF Longer
    <3> QED
      BY <1>3, <2>1, <3>1
  <2> QED
    BY <2>2, <2>3
<1>9. n2 \in 1 .. Len(e) /\ a + Len(e) <= Size
  BY <1>3
<1>10. p = "rp2040" => a + 3 < Size
  BY DEF Begun
<1> QED
  BY <1>1, <1>4, <1>6, <1>7, <1>8, <1>9, <1>10 DEF EntryAt

LEMMA EntryStays ==
  ASSUME NEW p, NEW g \in Given, NEW m, NEW m2, NEW S, NEW S2, NEW b \in Nat, NEW n,
         EntryAt(p, m, S, b, g, n), n >= Header(p),
         S \subseteq S2, \A c \in S2 : c \in S \/ c <= b \/ b + Len(Image(p, g)) <= c,
         \A c \in Addr : b <= c /\ c < b + Len(Image(p, g)) => m2[c] = m[c]
  PROVE  EntryAt(p, m2, S2, b, g, n)
<1>1. PICK e, h, l : e = Image(p, g) /\ h = Header(p) /\ l = Len(g[2])
  OBVIOUS
<1>2. ImageOf(p, g, e, h, l)
  BY <1>1, ImageFacts
<1>3. h \in 2 .. 3 /\ Len(e) = h + l /\ h + l \in Nat /\ Size \in Nat
  BY <1>2, StoreAssumption DEF ImageOf, Shape
<1>4. n \in 1 .. Len(e) /\ b + Len(e) <= Size /\ Shows(p, m, b, e, n) /\ b + Len(e) \in S
  BY <1>1 DEF EntryAt
<1>5. ASSUME NEW i \in 1 .. Len(e) PROVE m2[b + i - 1] = m[b + i - 1]
  <2>1. b + i - 1 \in Addr /\ b <= b + i - 1 /\ b + i - 1 < b + Len(e)
    BY <1>3, <1>4 DEF Addr
  <2> QED
    BY <1>1, <2>1
<1>6. m2[b] = m[b]
  <2>1. 1 \in 1 .. Len(e) /\ b + 1 - 1 = b
    BY <1>3, <1>4
  <2> QED
    BY <1>5, <2>1
<1>7. Erased(p, m, b, n) => Erased(p, m2, b, n)
  BY <1>6 DEF Erased
<1>8. Shows(p, m2, b, e, n)
  BY <1>4, <1>5, <1>7 DEF Shows
<1>9. \A c \in S2 : c <= b \/ (n >= h /\ b + Len(e) <= c)
  <2> SUFFICES ASSUME NEW c \in S2 PROVE c <= b \/ (n >= h /\ b + Len(e) <= c)
    OBVIOUS
  <2>1. CASE c \in S
    BY <1>1, <2>1 DEF EntryAt
  <2>2. CASE c \notin S
    BY <1>1, <2>2
  <2> QED
    BY <2>1, <2>2
<1>10. p = "rp2040" => b + 3 < Size
  BY DEF EntryAt
<1>11. b + Len(e) \in S2 /\ ~(n < h)
  BY <1>1, <1>3, <1>4
<1> QED
  BY <1>1, <1>4, <1>8, <1>9, <1>10, <1>11 DEF EntryAt

\* Everything of the chain but the entry at a stays as it is.
LEMMA OthersStay ==
  ASSUME NEW p, NEW G \in SUBSET Given, NEW m \in Memory, NEW m2, NEW S, NEW torn, Chain(p, G, m, S, torn),
         NEW a, NEW g \in Given, NEW n, Begun(p, m, S, a, g, n),
         NEW n2, n2 \in n + 1 .. Len(Image(p, g)), Extends(m, m2, a, Image(p, g), n, n2),
         NEW b \in S, b < a, NEW f \in Given, NEW i, EntryAt(p, m, S, b, f, i)
  PROVE  i >= Header(p) /\ EntryAt(p, m2, Longer(p, S, a, g, n2), b, f, i)
<1>1. PICK e, h, l : e = Image(p, g) /\ h = Header(p) /\ l = Len(g[2])
  OBVIOUS
<1>2. Fits(p, m, S, a, e, h, l, n)
  BY <1>1, BegunFits
<1>3. /\ a \in Nat /\ a \in S /\ n \in Nat /\ n2 \in n + 1 .. h + l /\ Size \in Nat /\ a + (h + l) <= Size
      /\ h + l \in Nat /\ Len(e) = h + l /\ b \in Nat
  BY <1>1, <1>2 DEF Fits
<1>a. Extends(m, m2, a, e, n, n2)
  BY <1>1
<1>4. Extended(m, m2, a, e, h + l, n, n2)
  BY <1>2, <1>3, <1>a, ExtendedCells
<1>5. PICK L, lf : L = Len(Image(p, f)) /\ lf = Len(f[2])
  OBVIOUS
<1>6. ImageOf(p, f, Image(p, f), h, lf)
  BY <1>1, <1>5, ImageFacts
<1>b. L = h + lf /\ lf \in 1 .. 2 /\ h = IF p = "rp2040" THEN 2 ELSE 3
  BY <1>5, <1>6 DEF ImageOf, Shape
<1>7. L \in Nat
  BY <1>b
<1>8. a <= b \/ (i >= h /\ b + L <= a)
  BY <1>1, <1>3, <1>5 DEF EntryAt
<1>9. i >= h /\ b + L <= a
  BY <1>3, <1>8
<1>10. \A c \in Addr : b <= c /\ c < b + L => m2[c] = m[c]
  <2> SUFFICES ASSUME NEW c \in Addr, c < b + L PROVE m2[c] = m[c]
    OBVIOUS
  <2>1. c < a + n
    BY <1>3, <1>7, <1>9 DEF Addr
  <2> QED
    BY <1>4, <2>1 DEF Extended
<1>11. \A c \in Longer(p, S, a, g, n2) : c \in S \/ c <= b \/ b + L <= c
  <2> SUFFICES ASSUME NEW c \in Longer(p, S, a, g, n2), c \notin S PROVE b + L <= c
    OBVIOUS
  <2>1. c = a + (h + l)
    BY <1>1, <1>3 DEF Longer
  <2> QED
    BY <1>3, <1>7, <1>9, <2>1
<1>12. S \subseteq Longer(p, S, a, g, n2)
  BY DEF Longer
<1>13. EntryAt(p, m2, Longer(p, S, a, g, n2), b, f, i)
  BY <1>1, <1>3, <1>5, <1>9, <1>10, <1>11, <1>12, EntryStays
<1> QED
  BY <1>1, <1>9, <1>13

LEMMA AppendKeeps ==
  ASSUME NEW p, NEW G \in SUBSET Given, NEW m \in Memory, NEW m2, NEW S, NEW torn, Chain(p, G, m, S, torn),
         NEW a, NEW g \in G, NEW n, Begun(p, m, S, a, g, n),
         NEW n2, n2 \in n + 1 .. Len(Image(p, g)), Extends(m, m2, a, Image(p, g), n, n2),
         NEW torn2, torn \ {a} \subseteq torn2, n2 < Len(Image(p, g)) => a \in torn2
  PROVE  Chain(p, G, m2, Longer(p, S, a, g, n2), torn2)
<1>1. PICK e, h, l : e = Image(p, g) /\ h = Header(p) /\ l = Len(g[2])
  OBVIOUS
<1>2. Fits(p, m, S, a, e, h, l, n) /\ g \in Given
  BY <1>1, BegunFits
<1>3. /\ a \in Nat /\ a \in S /\ n \in Nat /\ n2 \in n + 1 .. h + l /\ Size \in Nat /\ a + (h + l) <= Size
      /\ h + l \in Nat /\ Len(e) = h + l /\ h \in 2 .. 3 /\ l \in 1 .. 2
  BY <1>1, <1>2 DEF Fits
<1>a. Extends(m, m2, a, e, n, n2)
  BY <1>1
<1>4. Extended(m, m2, a, e, h + l, n, n2)
  BY <1>2, <1>3, <1>a, ExtendedCells
<1>5. PICK S2 : S2 = Longer(p, S, a, g, n2)
  OBVIOUS
<1>6. S \in SUBSET (0 .. Size) /\ 0 \in S
  BY ChainFacts
<1>7. S2 \subseteq 0 .. Size /\ 0 \in S2
  <2>1. a + Len(e) \in 0 .. Size
    BY <1>3
  <2> QED
    BY <1>1, <1>5, <1>6, <2>1 DEF Longer
<1>8. ASSUME NEW b \in S2
      PROVE  \/ Clear(m2, b) /\ \A c \in S2 : c <= b
             \/ \E f \in G : \E i \in 1 .. Len(Image(p, f)) :
                   EntryAt(p, m2, S2, b, f, i) /\ (i < Len(Image(p, f)) => b \in torn2)
  <2>0. b \in Nat /\ b <= Size
    BY <1>3, <1>7
  <2>1. CASE b = a
    <3>1. EntryAt(p, m2, S2, a, g, n2)
      BY <1>2, <1>5, EntryGrows
    <3>2. n2 \in 1 .. Len(Image(p, g))
      BY <1>1, <1>3
    <3> QED
      BY <2>1, <3>1, <3>2
  <2>2. CASE b < a
    <3>1. b \in S
      BY <1>1, <1>3, <1>5, <2>0, <2>2 DEF Longer
    <3>2. ~IsLast(m, S, b)
      BY <1>3, <2>0, <2>2 DEF IsLast
    <3>3. PICK f \in G : \E i : HoldsEntry(p, m, S, torn, b, f, i)
      BY <3>1, <3>2, ChainCases
    <3>4. PICK i : HoldsEntry(p, m, S, torn, b, f, i)
      BY <3>3
    <3>5. EntryAt(p, m, S, b, f, i) /\ i \in 1 .. Len(Image(p, f)) /\ (i < Len(Image(p, f)) => b \in torn)
      BY <3>4 DEF HoldsEntry
    <3>6. EntryAt(p, m2, S2, b, f, i)
      BY <1>2, <1>5, <2>2, <3>1, <3>5, OthersStay
    <3>7. b # a
      BY <1>3, <2>0, <2>2
    <3> QED
      BY <3>5, <3>6, <3>7
  <2>3. CASE b > a
    <3>1. a + h + l <= b /\ a + n2 <= b /\ a + n <= b
      <4>1. b \in S => b <= a \/ a + h + l <= b
        BY <1>2 DEF Fits
      <4>2. b \notin S => b = a + Len(e)
        BY <1>1, <1>5 DEF Longer
      <4> QED
        BY <1>3, <2>0, <2>3, <4>1, <4>2
    <3>2. Clear(m2, b)
      <4> SUFFICES ASSUME NEW c \in Addr, c >= b PROVE m2[c] = Blank
        BY DEF Clear
      <4>1. c >= a + n2
        BY <1>3, <2>0, <3>1 DEF Addr
      <4> QED
        BY <1>4, <4>1 DEF Extended, Clear
    <3>3. ASSUME NEW c \in S PROVE c <= b
      <4>1. CASE b \in S
        <5>1. IsLast(m, S, b)
          <6> SUFFICES ASSUME ~IsLast(m, S, b) PROVE FALSE
            OBVIOUS
          <6>1. PICK f \in G : \E i : HoldsEntry(p, m, S, torn, b, f, i)
            BY <4>1, ChainCases
          <6>2. PICK i : HoldsEntry(p, m, S, torn, b, f, i)
            BY <6>1
          <6>3. PICK h2, l2 : Tells(p, m, b, f, i, h2, l2)
            BY <6>2 DEF HoldsEntry
          <6>4. m[b] # Blank /\ b < Size
            <7>1. h2 \in 2 .. 3 /\ l2 \in 1 .. 2 /\ b + h2 + l2 <= Size
              BY <6>3 DEF Tells, Shape
            <7> QED
              BY <1>3, <2>0, <6>3, <7>1 DEF Tells
          <6>5. b \in Addr
            BY <1>3, <2>0, <6>4 DEF Addr
          <6> QED
            BY <1>2, <3>1, <6>4, <6>5 DEF Fits, Clear
        <5> QED
          BY <5>1 DEF IsLast
      <4>2. CASE b \notin S
        <5>1. n2 >= h /\ b = a + Len(e)
          BY <1>1, <1>5, <4>2 DEF Longer
        <5>2. c <= a \/ (n >= h /\ a + h + l <= c)
          BY <1>2 DEF Fits
        <5>3. n < h
          <6> SUFFICES ASSUME n >= h PROVE FALSE
            BY <1>3
          <6>1. n # 0
            BY <1>3
          <6>2. a + Len(e) \in S
            BY <1>1, <6>1 DEF Begun, EntryAt
          <6> QED
            BY <4>2, <5>1, <6>2
        <5>4. c \in Nat
          BY <1>6
        <5>5. c <= a
          BY <1>3, <5>2, <5>3
        <5> QED
          BY <1>3, <2>0, <2>3, <5>4, <5>5
      <4> QED
        BY <4>1, <4>2
    <3>4. \A c \in S2 : c <= b
      <4> SUFFICES ASSUME NEW c \in S2 PROVE c <= b
        OBVIOUS
      <4>1. c \notin S => c = a + Len(e)
        BY <1>1, <1>5 DEF Longer
      <4>2. a + Len(e) <= b
        BY <1>3, <3>1
      <4> QED
        BY <3>3, <4>1, <4>2
    <3> QED
      BY <3>2, <3>4
  <2> QED
    BY <1>3, <2>0, <2>1, <2>2, <2>3
<1> QED
  BY <1>5, <1>7, <1>8 DEF Chain

LEMMA AppendKeepsOthers ==
  ASSUME NEW p, NEW G \in SUBSET Given, NEW m \in Memory, NEW m2, NEW S, NEW torn, Chain(p, G, m, S, torn),
         NEW a, NEW g \in G, NEW n, Begun(p, m, S, a, g, n), n < Len(Image(p, g)),
         NEW n2, n2 \in n + 1 .. Len(Image(p, g)), Extends(m, m2, a, Image(p, g), n, n2),
         NEW k, Kept(p, G, m, S, k)
  PROVE  Kept(p, G, m2, Longer(p, S, a, g, n2), k)
<1>1. PICK e, h, l : e = Image(p, g) /\ h = Header(p) /\ l = Len(g[2])
  OBVIOUS
<1>2. Fits(p, m, S, a, e, h, l, n) /\ g \in Given
  BY <1>1, BegunFits
<1>3. /\ a \in Nat /\ a \in S /\ n \in Nat /\ n < h + l /\ Size \in Nat /\ Blank = 255
      /\ h + l \in Nat /\ Len(e) = h + l /\ h \in 2 .. 3 /\ l \in 1 .. 2 /\ a + (h + l) <= Size
  BY <1>1, <1>2 DEF Fits
<1>4. S \in SUBSET (0 .. Size)
  BY ChainFacts
<1>5. PICK b \in S : \E f \in G : f[1] = k /\ EntryAt(p, m, S, b, f, Len(Image(p, f)))
  BY DEF Kept
<1>6. PICK f \in G : f[1] = k /\ EntryAt(p, m, S, b, f, Len(Image(p, f)))
  BY <1>5
<1>7. f \in Given /\ b \in Nat
  BY <1>4
<1>8. PICK d, lf : d = Image(p, f) /\ lf = Len(f[2])
  OBVIOUS
<1>9. ImageOf(p, f, d, h, lf)
  BY <1>1, <1>7, <1>8, ImageFacts
<1>10. Len(d) = h + lf /\ lf \in 1 .. 2
  BY <1>9 DEF ImageOf, Shape
<1>a. \A i \in 1 .. h + lf : d[i] \in 1 .. Blank - 1
  BY <1>9 DEF ImageOf
<1>c. \A x \in 1 .. Blank - 1 : x # Blank
  BY <1>3
<1>11. Tells(p, m, b, f, Len(d), h, lf)
  BY <1>1, <1>4, <1>6, <1>7, <1>8, EntryCells
<1>12. b + h + lf <= Size /\ m[b] # Blank
  BY <1>11 DEF Tells
<1>13. CASE b < a
  <2>1. EntryAt(p, m2, Longer(p, S, a, g, n2), b, f, Len(Image(p, f)))
    BY <1>2, <1>6, <1>7, <1>13, OthersStay
  <2>2. b \in Longer(p, S, a, g, n2)
    BY DEF Longer
  <2> QED
    BY <1>6, <2>1, <2>2 DEF Kept
<1>14. CASE b > a
  <2>1. b <= a \/ (n >= h /\ a + h + l <= b)
    BY <1>2 DEF Fits
  <2>2. b \in Addr /\ b >= a + n
    BY <1>3, <1>7, <1>10, <1>12, <1>14, <2>1 DEF Addr
  <2> QED
    BY <1>2, <1>12, <2>2 DEF Fits, Clear
<1>15. CASE b = a
  <2>1. b + Len(d) \in S /\ Shows(p, m, b, d, Len(d)) /\ \A c \in S : c <= b \/ b + Len(d) <= c
    <3>1. Len(d) >= h
      BY <1>3, <1>10
    <3>2. EntryAt(p, m, S, b, f, Len(d)) 
      BY <1>6, <1>8
    <3> QED
      BY <1>1, <1>8, <3>1, <3>2 DEF EntryAt
  <2>2. n >= h /\ a + (h + l) <= a + (h + lf)
    <3>1. b + Len(d) <= a \/ (n >= h /\ a + h + l <= b + Len(d))
      BY <1>2, <2>1 DEF Fits
    <3>2. b + Len(d) = a + (h + lf) /\ a + (h + lf) > a
      BY <1>3, <1>10, <1>15
    <3> QED
      BY <1>3, <1>10, <3>1, <3>2
  <2>3. n + 1 \in 2 .. h + lf
    <3>1. l \in 1 .. 2
      BY <1>2 DEF Fits
    <3> QED
      BY <1>3, <1>10, <2>2, <3>1
  <2>4. m[a + (n + 1) - 1] = d[n + 1]
    <3>1. n + 1 \in 1 .. Len(d) /\ n + 1 <= Len(d) /\ n + 1 # 1
      BY <1>3, <1>10, <2>3
    <3> QED
      BY <1>15, <2>1, <3>1 DEF Shows
  <2>5. a + (n + 1) - 1 = a + n /\ a + n \in Addr
    BY <1>3 DEF Addr
  <2>6. m[a + n] = Blank
    BY <1>2, <1>3, <2>5 DEF Fits, Clear
  <2>7. d[n + 1] # Blank
    <3>1. n + 1 \in 1 .. h + lf
      BY <1>3, <2>3
    <3>2. d[n + 1] \in 1 .. Blank - 1
      BY <1>a, <3>1
    <3> QED
      BY <1>c, <3>2
  <2> QED
    BY <2>4, <2>5, <2>6, <2>7
<1> QED
  BY <1>3, <1>7, <1>13, <1>14, <1>15

LEMMA AppendNoZero ==
  ASSUME NEW p, NEW G \in SUBSET Given, NEW m \in Memory, NEW m2, NEW S, NEW torn, Chain(p, G, m, S, torn),
         NEW a, NEW g \in Given, NEW n, Begun(p, m, S, a, g, n),
         NEW n2, n2 \in n + 1 .. Len(Image(p, g)), Extends(m, m2, a, Image(p, g), n, n2),
         NoZero(m, S)
  PROVE  NoZero(m2, Longer(p, S, a, g, n2))
<1>1. PICK e, h, l : e = Image(p, g) /\ h = Header(p) /\ l = Len(g[2])
  OBVIOUS
<1>2. Fits(p, m, S, a, e, h, l, n)
  BY <1>1, BegunFits
<1>3. /\ a \in Nat /\ n \in Nat /\ n2 \in n + 1 .. h + l /\ Size \in Nat /\ Blank = 255
      /\ h + l \in Nat /\ Len(e) = h + l /\ S \in SUBSET (0 .. Size) /\ a + (h + l) <= Size
  BY <1>1, <1>2, SMTT(20) DEF Fits
<1>4. \A i \in 1 .. h + l : e[i] \in 1 .. Blank - 1
  BY <1>2 DEF Fits
<1>5. ASSUME NEW b \in Longer(p, S, a, g, n2), b < Size PROVE m2[b] # 0
  <2>1. b \in Addr /\ b \in Nat
    BY <1>1, <1>3, <1>5 DEF Longer, Addr
  <2>2. m2[b] = IF a + n <= b /\ b < a + n2 THEN e[b - a + 1] ELSE m[b]
    BY <1>1, <2>1 DEF Extends
  <2>3. CASE a + n <= b /\ b < a + n2
    <3>1. b - a + 1 \in 1 .. h + l
      BY <1>3, <2>1, <2>3
    <3>2. e[b - a + 1] \in 1 .. Blank - 1
      BY <1>4, <3>1
    <3> QED
      BY <2>2, <2>3, <3>2
  <2>4. CASE ~(a + n <= b) /\ b < a + n2
    <3>1. b \in S
      BY <1>1, <1>3, <2>1, <2>4 DEF Longer
    <3> QED
      BY <1>5, <2>2, <2>4, <3>1 DEF NoZero
  <2>5. CASE ~(b < a + n2)
    <3>1. b >= a + n
      BY <1>3, <2>1, <2>5
    <3>2. m[b] = Blank
      BY <1>2, <2>1, <3>1 DEF Fits, Clear
    <3> QED
      BY <1>3, <2>2, <2>5, <3>2
  <2> QED
    BY <2>3, <2>4, <2>5
<1> QED
  BY <1>5 DEF NoZero

LEMMA StillBegun ==
  ASSUME NEW p, NEW G \in SUBSET Given, NEW m \in Memory, NEW m2, NEW S, NEW torn, Chain(p, G, m, S, torn),
         NEW a, NEW g \in Given, NEW n, Begun(p, m, S, a, g, n),
         NEW n2, n2 \in n + 1 .. Len(Image(p, g)), Extends(m, m2, a, Image(p, g), n, n2)
  PROVE  Begun(p, m2, Longer(p, S, a, g, n2), a, g, n2)
<1>1. PICK e, h, l : e = Image(p, g) /\ h = Header(p) /\ l = Len(g[2])
  OBVIOUS
<1>2. Fits(p, m, S, a, e, h, l, n)
  BY <1>1, BegunFits
<1>3. n \in Nat /\ n2 \in n + 1 .. h + l /\ h + l \in Nat /\ Len(e) = h + l
  BY <1>1, <1>2 DEF Fits
<1>a. Extends(m, m2, a, e, n, n2)
  BY <1>1
<1>4. Extended(m, m2, a, e, h + l, n, n2)
  BY <1>2, <1>3, <1>a, ExtendedCells
<1>5. Clear(m2, a + n2)
  BY <1>4 DEF Extended
<1>6. EntryAt(p, m2, Longer(p, S, a, g, n2), a, g, n2)
  BY EntryGrows
<1>7. n2 \in 0 .. Len(e) /\ n2 # 0
  BY <1>3
<1>8. a \in Longer(p, S, a, g, n2) /\ a + Len(e) <= Size /\ (p = "rp2040" => a + 3 < Size)
  BY <1>1 DEF Begun, Longer
<1> QED
  BY <1>1, <1>5, <1>6, <1>7, <1>8 DEF Begun

-----------------------------------------------------------------------------
(* Marking an Arduino entry, and erasing.                                   *)

LEMMA EntryBehind ==
  ASSUME NEW p, NEW g \in Given, NEW m, NEW m2, NEW S, NEW b \in Nat, NEW n,
         EntryAt(p, m, S, b, g, n), \A c \in Addr : b <= c => m2[c] = m[c]
  PROVE  EntryAt(p, m2, S, b, g, n)
<1>1. PICK e, h, l : e = Image(p, g) /\ h = Header(p) /\ l = Len(g[2])
  OBVIOUS
<1>2. ImageOf(p, g, e, h, l)
  BY <1>1, ImageFacts
<1>3. h \in 2 .. 3 /\ Len(e) = h + l /\ h + l \in Nat /\ Size \in Nat
  BY <1>2, StoreAssumption DEF ImageOf, Shape
<1>4. n \in 1 .. Len(e) /\ b + Len(e) <= Size /\ Shows(p, m, b, e, n) /\ (n < h => Clear(m, b + n))
  BY <1>1 DEF EntryAt
<1>5. ASSUME NEW i \in 1 .. Len(e) PROVE m2[b + i - 1] = m[b + i - 1]
  <2>1. b + i - 1 \in Addr /\ b <= b + i - 1
    BY <1>3, <1>4 DEF Addr
  <2> QED
    BY <1>1, <2>1
<1>6. m2[b] = m[b]
  <2>1. 1 \in 1 .. Len(e) /\ b + 1 - 1 = b
    BY <1>3, <1>4
  <2> QED
    BY <1>5, <2>1
<1>7. Erased(p, m, b, n) => Erased(p, m2, b, n)
  BY <1>6 DEF Erased
<1>8. Shows(p, m2, b, e, n)
  BY <1>4, <1>5, <1>7 DEF Shows
<1>9. n < h => Clear(m2, b + n)
  <2> SUFFICES ASSUME n < h, NEW c \in Addr, c >= b + n PROVE m2[c] = Blank
    BY DEF Clear
  <2>1. c >= b
    BY <1>3, <1>4 DEF Addr
  <2> QED
    BY <1>4, <2>1 DEF Clear
<1> QED
  BY <1>1, <1>8, <1>9 DEF EntryAt

LEMMA MarkKeeps ==
  ASSUME NEW G \in SUBSET Given, NEW m \in Memory, NEW S, NEW torn, Chain("arduino", G, m, S, torn),
         NEW x \in S, NEW k \in G, NEW j, EntryAt("arduino", m, S, x, k, j), j >= 2,
         NEW m2, m2 = [m EXCEPT ![x] = 0]
  PROVE  Chain("arduino", G, m2, S, torn)
<1>1. /\ S \in SUBSET (0 .. Size) /\ 0 \in S /\ Size \in Nat \ {0} /\ Blank = 255 /\ Size < Blank /\ x \in Nat
  BY ChainFacts
<1>2. Header("arduino") = 3
  BY DEF Header
<1>3. PICK lk : lk = Len(k[2])
  OBVIOUS
<1>4. Tells("arduino", m, x, k, j, 3, lk)
  BY <1>1, <1>2, <1>3, EntryCells
<1>5. /\ m[x] # Blank /\ x + 3 + lk <= Size /\ lk \in 1 .. 2 /\ k[1] \in Size .. Blank - 1 /\ m[x + 1] = k[1]
  <2>1. /\ m[x] # Blank /\ x + 3 + lk <= Size /\ lk \in 1 .. 2 /\ k[1] \in Size .. Blank - 1
        /\ m[x + 3 - 2] = IF 3 - 1 <= j THEN k[1] ELSE Blank
    BY <1>4 DEF Tells, Shape
  <2>2. x + 3 - 2 = x + 1 /\ 3 - 1 = 2
    BY <1>1
  <2> QED
    BY <2>1, <2>2
<1>6. x \in Addr /\ x < Size
  BY <1>1, <1>5 DEF Addr
<1>7. m2[x] = 0 /\ \A c \in Addr : c # x => m2[c] = m[c]
  BY <1>6 DEF Memory
<1>8. ASSUME NEW b \in S
      PROVE  \/ Clear(m2, b) /\ \A c \in S : c <= b
             \/ \E g \in G : \E n \in 1 .. Len(Image("arduino", g)) :
                   EntryAt("arduino", m2, S, b, g, n) /\ (n < Len(Image("arduino", g)) => b \in torn)
  <2>1. b \in Nat
    BY <1>1
  <2>2. CASE IsLast(m, S, b)
    <3>1. b # x
      BY <1>5, <1>6, <2>2 DEF IsLast
    <3>2. x <= b
      BY <2>2 DEF IsLast
    <3>3. Clear(m2, b)
      <4> SUFFICES ASSUME NEW c \in Addr, c >= b PROVE m2[c] = Blank
        BY DEF Clear
      <4>1. c # x
        BY <1>1, <2>1, <3>1, <3>2 DEF Addr
      <4> QED
        BY <1>7, <2>2, <4>1 DEF IsLast, Clear
    <3> QED
      BY <2>2, <3>3 DEF IsLast
  <2>3. CASE ~IsLast(m, S, b)
    <3>1. PICK g \in G : \E n : HoldsEntry("arduino", m, S, torn, b, g, n)
      BY <2>3, ChainCases
    <3>2. PICK n : HoldsEntry("arduino", m, S, torn, b, g, n)
      BY <3>1
    <3>3. PICK e, l : e = Image("arduino", g) /\ l = Len(g[2])
      OBVIOUS
    <3>4. /\ EntryAt("arduino", m, S, b, g, n) /\ n \in 1 .. Len(e) /\ (n < Len(e) => b \in torn)
          /\ g \in Given /\ Len(e) = 3 + l
      BY <1>2, <3>2, <3>3 DEF HoldsEntry
    <3>5. Tells("arduino", m, b, g, n, 3, l)
      BY <1>2, <3>2, <3>3 DEF HoldsEntry
    <3>6. l \in 1 .. 2 /\ b + 3 + l <= Size
      BY <3>5 DEF Tells, Shape
    <3>7. EntryAt("arduino", m2, S, b, g, n)
      <4>1. CASE b > x
        <5>1. \A c \in Addr : b <= c => m2[c] = m[c]
          BY <1>1, <1>7, <2>1, <4>1 DEF Addr
        <5> QED
          BY <2>1, <3>4, <5>1, EntryBehind
      <4>2. CASE b < x
        <5>1. x <= b \/ (n >= 3 /\ b + Len(e) <= x)
          BY <1>2, <3>3, <3>4 DEF EntryAt
        <5>2. n >= Header("arduino") /\ b + Len(e) <= x
          BY <1>1, <1>2, <2>1, <4>2, <5>1
        <5>3. \A c \in Addr : b <= c /\ c < b + Len(e) => m2[c] = m[c]
          BY <1>1, <1>7, <2>1, <3>4, <3>6, <5>2 DEF Addr
        <5> QED
          BY <2>1, <3>3, <3>4, <5>2, <5>3, EntryStays
      <4>3. CASE b = x
        <5>1. n >= 2
          <6>1. m[b + 3 - 2] = IF 3 - 1 <= n THEN g[1] ELSE Blank
            BY <3>5 DEF Tells
          <6>2. b + 3 - 2 = x + 1 /\ 3 - 1 = 2
            BY <1>1, <4>3
          <6>3. 2 <= n
            BY <1>1, <1>5, <6>1, <6>2
          <6> QED
            BY <3>4, <6>3
        <5>2. Erased("arduino", m2, b, n)
          BY <1>7, <4>3, <5>1 DEF Erased
        <5>3. Shows("arduino", m, b, e, n)
          BY <3>3, <3>4 DEF EntryAt
        <5>4. ASSUME NEW i \in 2 .. 3 + l PROVE m2[b + i - 1] = IF i <= n THEN e[i] ELSE Blank
          <6>1. i \in 1 .. Len(e) /\ i # 1 /\ b + i - 1 # x /\ b + i - 1 \in Addr
            BY <1>1, <2>1, <3>4, <3>6, <4>3 DEF Addr
          <6>2. m[b + i - 1] = IF i <= n THEN e[i] ELSE Blank
            BY <5>3, <6>1 DEF Shows
          <6> QED
            BY <1>7, <6>1, <6>2
        <5>5. Shows("arduino", m2, b, e, n)
          <6> SUFFICES ASSUME NEW i \in 1 .. Len(e)
                       PROVE  m2[b + i - 1] = (IF i <= n THEN e[i] ELSE Blank) \/ (i = 1 /\ Erased("arduino", m2, b, n))
            BY DEF Shows
          <6>1. i = 1 \/ i \in 2 .. 3 + l
            BY <3>4, <3>6
          <6> QED
            BY <5>2, <5>4, <6>1
        <5>6. n < 3 => Clear(m2, b + n)
          <6> SUFFICES ASSUME n < 3, NEW c \in Addr, c >= b + n PROVE m2[c] = Blank
            BY DEF Clear
          <6>1. Clear(m, b + n)
            BY <1>2, <3>4 DEF EntryAt
          <6>2. c # x
            BY <1>1, <3>4, <3>6, <4>3 DEF Addr
          <6> QED
            BY <1>7, <6>1, <6>2 DEF Clear
        <5> QED
          BY <1>2, <3>3, <3>4, <5>5, <5>6 DEF EntryAt
      <4> QED
        BY <1>1, <2>1, <4>1, <4>2, <4>3
    <3> QED
      BY <3>3, <3>4, <3>7
  <2> QED
    BY <2>2, <2>3
<1> QED
  BY <1>1, <1>8 DEF Chain

LEMMA BlankChain ==
  ASSUME NEW p, NEW G, NEW torn, NEW m, \A b \in Addr : m[b] = Blank
  PROVE  Chain(p, G, m, {0}, torn)
BY StoreAssumption DEF Chain, Clear

LEMMA ChainGrows ==
  ASSUME NEW p, NEW G, NEW m, NEW S, NEW torn, Chain(p, G, m, S, torn),
         NEW G2, G \subseteq G2, NEW torn2, torn \subseteq torn2
  PROVE  Chain(p, G2, m, S, torn2)
<1>1. ASSUME NEW a \in S
      PROVE  \/ Clear(m, a) /\ \A b \in S : b <= a
             \/ \E g \in G2 : \E n \in 1 .. Len(Image(p, g)) :
                   EntryAt(p, m, S, a, g, n) /\ (n < Len(Image(p, g)) => a \in torn2)
  <2>1. CASE Clear(m, a) /\ \A b \in S : b <= a
    BY <2>1
  <2>2. ASSUME NEW g \in G, NEW n \in 1 .. Len(Image(p, g)), 
               EntryAt(p, m, S, a, g, n) /\ (n < Len(Image(p, g)) => a \in torn)
        PROVE  \E f \in G2 : \E i \in 1 .. Len(Image(p, f)) :
                   EntryAt(p, m, S, a, f, i) /\ (i < Len(Image(p, f)) => a \in torn2)
    <3>1. g \in G2 /\ (a \in torn => a \in torn2)
      OBVIOUS
    <3> QED
      BY <2>2, <3>1
  <2>3. \/ Clear(m, a) /\ \A b \in S : b <= a
        \/ \E g \in G : \E n \in 1 .. Len(Image(p, g)) :
               EntryAt(p, m, S, a, g, n) /\ (n < Len(Image(p, g)) => a \in torn)
    BY DEF Chain
  <2> QED
    BY <2>1, <2>2, <2>3
<1> QED
  BY <1>1 DEF Chain

-----------------------------------------------------------------------------
(* An RP2040 sector that was programmed in part: the entries up to the cell d.            *)

LEMMA TruncatedChain ==
  ASSUME NEW G \in SUBSET Given, NEW m \in Memory, NEW S, NEW torn, Chain("rp2040", G, m, S, torn),
         NEW d \in 0 .. Size, NEW m2, \A b \in Addr : m2[b] = IF b < d THEN m[b] ELSE Blank
  PROVE  \E S2 \in SUBSET (0 .. Size) : Chain("rp2040", G, m2, S2, 0 .. Size)
<1>1. S \in SUBSET (0 .. Size) /\ 0 \in S /\ Size \in Nat \ {0} /\ Blank = 255 /\ Header("rp2040") = 2
  BY ChainFacts DEF Header
<1>2. PICK S2 : S2 = {b \in S : \A c \in S : c < b => c + 2 <= d}
  OBVIOUS
<1>3. S2 \subseteq S
  BY <1>2
<1>4. 0 \in S2
  <2>1. \A c \in S : ~(c < 0)
    BY <1>1
  <2> QED
    BY <1>1, <1>2, <2>1
<1>5. ASSUME NEW b \in S2
      PROVE  \/ Clear(m2, b) /\ \A c \in S2 : c <= b
             \/ \E g \in G : \E n \in 1 .. Len(Image("rp2040", g)) : EntryAt("rp2040", m2, S2, b, g, n)
  <2>1. b \in S /\ b \in Nat /\ b <= Size
    BY <1>1, <1>3
  <2>2. ASSUME NEW c \in S2, c > b PROVE b + 2 <= d
    BY <1>2, <2>1, <2>2
  <2>3. CASE b >= d
    <3>1. Clear(m2, b)
      <4> SUFFICES ASSUME NEW c \in Addr, c >= b PROVE m2[c] = Blank
        BY DEF Clear
      <4>1. ~(c < d)
        BY <2>1, <2>3 DEF Addr
      <4> QED
        BY <4>1
    <3>2. \A c \in S2 : c <= b
      <4> SUFFICES ASSUME NEW c \in S2, ~(c <= b) PROVE FALSE
        OBVIOUS
      <4>1. c > b
        BY <1>1, <1>3, <2>1
      <4>2. b + 2 <= d
        BY <2>2, <4>1
      <4> QED
        BY <2>1, <2>3, <4>2
    <3> QED
      BY <3>1, <3>2
  <2>4. CASE b < d /\ IsLast(m, S, b)
    <3>1. Clear(m2, b)
      BY <2>4 DEF Clear, IsLast
    <3> QED
      BY <1>3, <2>4, <3>1 DEF IsLast
  <2>5. CASE b < d /\ ~IsLast(m, S, b)
    <3>1. PICK g \in G : \E n : HoldsEntry("rp2040", m, S, torn, b, g, n)
      BY <2>1, <2>5, ChainCases
    <3>2. PICK n : HoldsEntry("rp2040", m, S, torn, b, g, n)
      BY <3>1
    <3>3. PICK e, l : e = Image("rp2040", g) /\ l = Len(g[2])
      OBVIOUS
    <3>4. EntryAt("rp2040", m, S, b, g, n) /\ n \in 1 .. Len(e) /\ Len(e) = 2 + l
      BY <1>1, <3>2, <3>3 DEF HoldsEntry
    <3>5. l \in 1 .. 2 /\ b + 2 + l <= Size
      BY <1>1, <3>2, <3>3 DEF HoldsEntry, Tells, Shape
    <3>6. PICK i : i = IF n <= d - b THEN n ELSE d - b
      OBVIOUS
    <3>7. i \in 1 .. Len(e) /\ i <= n /\ b + i <= d /\ (i < n => b + i = d) /\ i \in Nat /\ n \in Nat
      BY <2>1, <2>5, <3>4, <3>5, <3>6
    <3>8. Shows("rp2040", m, b, e, n) /\ (n < 2 => Clear(m, b + n)) /\ (n >= 2 => b + Len(e) \in S)
          /\ (\A c \in S : c <= b \/ (n >= 2 /\ b + Len(e) <= c)) /\ b + 3 < Size /\ b + Len(e) <= Size
      BY <1>1, <3>3, <3>4 DEF EntryAt
    <3>9. Shows("rp2040", m2, b, e, i)
      <4> SUFFICES ASSUME NEW j \in 1 .. Len(e) PROVE m2[b + j - 1] = IF j <= i THEN e[j] ELSE Blank
        BY DEF Shows
      <4>1. b + j - 1 \in Addr
        BY <1>1, <2>1, <3>4, <3>5 DEF Addr
      <4>2. m[b + j - 1] = IF j <= n THEN e[j] ELSE Blank
        BY <3>8 DEF Shows, Erased
      <4>3. CASE j <= i
        <5>1. b + j - 1 < d /\ j <= n
          BY <2>1, <3>7, <4>3
        <5> QED
          BY <4>1, <4>2, <4>3, <5>1
      <4>4. CASE ~(j <= i)
        <5>1. (b + j - 1 < d) => ~(j <= n)
          BY <2>1, <3>7, <4>4
        <5> QED
          BY <4>1, <4>2, <4>4, <5>1
      <4> QED
        BY <4>3, <4>4
    <3>10. ASSUME i < 2 PROVE Clear(m2, b + i)
      <4> SUFFICES ASSUME NEW c \in Addr, c >= b + i PROVE m2[c] = Blank
        BY DEF Clear
      <4>1. CASE i < n
        <5>1. ~(c < d)
          BY <2>1, <3>7, <4>1 DEF Addr
        <5> QED
          BY <5>1
      <4>2. CASE ~(i < n)
        <5>1. i = n
          BY <3>7, <4>2
        <5>2. m[c] = Blank
          BY <3>8, <3>10, <5>1 DEF Clear
        <5> QED
          BY <5>2
      <4> QED
        BY <4>1, <4>2
    <3>11. ASSUME i >= 2 PROVE b + Len(e) \in S2
      <4>1. b + Len(e) \in S /\ b + 2 <= d
        BY <2>1, <3>7, <3>8, <3>11
      <4>2. ASSUME NEW c \in S, c < b + Len(e) PROVE c + 2 <= d
        <5>1. c \in Nat /\ b + Len(e) \in Nat
          <6>1. c \in Nat
            BY <1>1
          <6> QED
            BY <2>1, <3>4, <3>5, <6>1
        <5>2. c <= b
          BY <3>8, <4>2, <5>1
        <5> QED
          BY <2>1, <4>1, <5>1, <5>2
      <4> QED
        BY <1>2, <4>1, <4>2
    <3>12. ASSUME NEW c \in S2 PROVE c <= b \/ (i >= 2 /\ b + Len(e) <= c)
      <4>1. c <= b \/ (n >= 2 /\ b + Len(e) <= c)
        BY <1>3, <3>8
      <4>2. CASE c > b
        <5>1. b + 2 <= d
          BY <2>2, <4>2
        <5>2. c \in Nat
          BY <1>1, <1>3
        <5>3. n >= 2 /\ b + Len(e) <= c
          BY <2>1, <4>1, <4>2, <5>2
        <5>4. i >= 2
          BY <2>1, <3>7, <5>1, <5>3
        <5> QED
          BY <5>3, <5>4
      <4>3. CASE ~(c > b)
        <5>1. c \in Nat
          BY <1>1, <1>3
        <5> QED
          BY <2>1, <4>3, <5>1
      <4> QED
        BY <4>2, <4>3
    <3>13. EntryAt("rp2040", m2, S2, b, g, i)
      BY <1>1, <3>3, <3>7, <3>8, <3>9, <3>10, <3>11, <3>12 DEF EntryAt
    <3> QED
      BY <3>3, <3>7, <3>13
  <2> QED
    BY <2>1, <2>3, <2>4, <2>5
<1>6. S2 \in SUBSET (0 .. Size)
  BY <1>1, <1>3
<1>7. S2 \subseteq 0 .. Size /\ \A b \in S2 : b \in 0 .. Size
  BY <1>6
<1>8. Chain("rp2040", G, m2, S2, 0 .. Size)
  BY <1>4, <1>5, <1>7 DEF Chain
<1> QED
  BY <1>6, <1>8

LEMMA PagesAreAPrefix ==
  ASSUME NEW n \in Int
  PROVE  \E d \in 0 .. Size : \A b \in Addr : b \in Before(n) <=> b < d
<1>1. Size \in Nat \ {0} /\ PageSize \in Nat \ {0}
  BY StoreAssumption
<1>2. ASSUME NEW a \in Nat, NEW b \in Nat, a <= b PROVE a \div PageSize <= b \div PageSize
  BY <1>1, <1>2
<1>3. \A a \in Nat : a \div PageSize \in Nat
  BY <1>1
<1>4. PICK T : T = {b \in Nat : b = Size \/ (b \in Addr /\ b \notin Before(n))}
  OBVIOUS
<1>5. T \in SUBSET Nat /\ Size \in T
  BY <1>1, <1>4
<1>6. PICK d \in T : \A y \in T : d =< y
  BY <1>5, Least
<1>7. d \in 0 .. Size
  BY <1>1, <1>5, <1>6
<1>8. ASSUME NEW b \in Addr PROVE b \in Before(n) <=> b < d
  <2>1. b \in Nat /\ b < Size
    BY <1>1 DEF Addr
  <2>2. CASE b < d
    <3>1. b \notin T
      BY <1>6, <1>7, <2>1, <2>2
    <3> QED
      BY <1>4, <2>1, <2>2, <3>1
  <2>3. CASE ~(b < d)
    <3>1. d <= b /\ d # Size /\ d \in Nat
      BY <1>7, <2>1, <2>3
    <3>2. d \in Addr /\ d \notin Before(n)
      BY <1>4, <1>6, <3>1
    <3>3. d \div PageSize <= b \div PageSize /\ d \div PageSize \in Nat /\ b \div PageSize \in Nat
      BY <1>2, <1>3, <2>1, <3>1
    <3>4. ~(d \div PageSize < n)
      BY <3>2 DEF Before
    <3>5. ~(b \div PageSize < n)
      BY <3>3, <3>4
    <3> QED
      BY <2>3, <3>5 DEF Before
  <2> QED
    BY <2>2, <2>3
<1> QED
  BY <1>7, <1>8

-----------------------------------------------------------------------------
(* What the writes leave in the cells.                                      *)

LEMMA ImageSeq ==
  ASSUME NEW p, NEW g \in Given
  PROVE  Image(p, g) \in Seq(1 .. Blank - 1)
<1>1. PICK k, v, l : k = g[1] /\ v = g[2] /\ l = Len(g[2])
  OBVIOUS
<1>2. k \in Size .. Blank - 1 /\ v \in Seq(1 .. Blank - 1) /\ l \in 1 .. 2 /\ Size \in Nat \ {0} /\ Blank = 255
  BY <1>1, StoreAssumption DEF Given, Blank
<1>3. k \in 1 .. Blank - 1 /\ l \in 1 .. Blank - 1 /\ 1 \in 1 .. Blank - 1
  BY <1>2
<1>4. <<k, l>> \in Seq(1 .. Blank - 1) /\ <<1, k, l>> \in Seq(1 .. Blank - 1)
  BY <1>3
<1>5. <<k, l>> \o v \in Seq(1 .. Blank - 1) /\ <<1, k, l>> \o v \in Seq(1 .. Blank - 1)
  BY <1>2, <1>4, ConcatProperties
<1> QED
  BY <1>1, <1>5 DEF Image, ShortEntry, Entry

LEMMA OneWrite ==
  ASSUME NEW m \in Memory, NEW w \in Writes
  PROVE  /\ Written(m, <<w>>) \in Memory
         /\ \A a \in Addr : Written(m, <<w>>)[a] = IF a \in DOMAIN w THEN w[a] ELSE m[a]
<1>1. ASSUME NEW a \in Addr
      PROVE  /\ Written(m, <<w>>)[a] = (IF a \in DOMAIN w THEN w[a] ELSE m[a])
             /\ Written(m, <<w>>)[a] \in 0 .. Blank
  <2>1. Len(<<w>>) = 1 /\ <<w>>[1] = w
    OBVIOUS
  <2>2. (\E i \in 1 .. Len(<<w>>) : a \in DOMAIN <<w>>[i]) <=> a \in DOMAIN w
    BY <2>1
  <2>3. a \in DOMAIN w => (CHOOSE i \in 1 .. Len(<<w>>) : a \in DOMAIN <<w>>[i]) = 1
    BY <2>1
  <2>4. Written(m, <<w>>)[a] = (IF a \in DOMAIN w THEN w[a] ELSE m[a])
    BY <2>1, <2>2, <2>3 DEF Written
  <2>5. m[a] \in 0 .. Blank /\ (a \in DOMAIN w => w[a] \in 0 .. Blank)
    BY DEF Memory, Writes
  <2> QED
    BY <2>4, <2>5
<1>2. Written(m, <<w>>) = [a \in Addr |-> Written(m, <<w>>)[a]]
  BY DEF Written
<1>3. [a \in Addr |-> Written(m, <<w>>)[a]] \in [Addr -> 0 .. Blank]
  BY <1>1
<1> QED
  BY <1>1, <1>2, <1>3 DEF Memory

LEMMA CellsAre ==
  ASSUME NEW a \in Nat, NEW s \in Seq(1 .. Blank - 1), a + Len(s) <= Size
  PROVE  /\ Cells(a, s) \in Seq(Writes) /\ Len(Cells(a, s)) = Len(s)
         /\ \A i \in 1 .. Len(s) : Cells(a, s)[i] = [x \in {a + i - 1} |-> s[i]]
<1>1. Len(s) \in Nat /\ Size \in Nat /\ Blank = 255
  BY StoreAssumption DEF Blank
<1>2. Cells(a, s) = [i \in 1 .. Len(s) |-> [x \in {a + i - 1} |-> s[i]]]
  BY DEF Cells, Byte
<1>3. ASSUME NEW i \in 1 .. Len(s) PROVE [x \in {a + i - 1} |-> s[i]] \in Writes
  <2>1. a + i - 1 \in Addr
    BY <1>1 DEF Addr
  <2>2. s[i] \in 1 .. Blank - 1
    BY ElementOfSeq
  <2>3. s[i] \in 0 .. Blank
    BY <1>1, <2>2
  <2>4. [x \in {a + i - 1} |-> s[i]] \in [{a + i - 1} -> 0 .. Blank] /\ {a + i - 1} \in SUBSET Addr
    BY <2>1, <2>3
  <2> QED
    BY <2>4 DEF Writes
<1>4. Len(Cells(a, s)) = Len(s)
  BY <1>1, <1>2
<1>5. Cells(a, s) \in Seq(Writes)
  <2>1. Cells(a, s) \in [1 .. Len(s) -> Writes]
    BY <1>2, <1>3
  <2> QED
    BY <1>1, <2>1, SeqDef
<1> QED
  BY <1>2, <1>4, <1>5

LEMMA CellsWritten ==
  ASSUME NEW m \in Memory, NEW a \in Nat, NEW s \in Seq(1 .. Blank - 1), a + Len(s) <= Size
  PROVE  Written(m, Cells(a, s)) \in Memory /\ Extends(m, Written(m, Cells(a, s)), a, s, 0, Len(s))
<1>1. PICK c : c = Cells(a, s)
  OBVIOUS
<1>2. Len(c) = Len(s) /\ Len(s) \in Nat /\ \A i \in 1 .. Len(s) : c[i] = [x \in {a + i - 1} |-> s[i]]
  <2>1. Len(s) \in Nat
    OBVIOUS
  <2>2. Len(c) = Len(s)
    BY <1>1, CellsAre
  <2>3. \A i \in 1 .. Len(s) : c[i] = [x \in {a + i - 1} |-> s[i]]
    BY <1>1, CellsAre
  <2> QED
    BY <2>1, <2>2, <2>3
<1>3. ASSUME NEW b \in Addr
      PROVE  Written(m, c)[b] = IF a + 0 <= b /\ b < a + Len(s) THEN s[b - a + 1] ELSE m[b]
  <2>1. b \in Nat
    BY StoreAssumption DEF Addr
  <2>2. \A i \in 1 .. Len(s) : b \in DOMAIN c[i] <=> b = a + i - 1
    BY <1>2
  <2>3. CASE a + 0 <= b /\ b < a + Len(s)
    <3>1. PICK j : j = b - a + 1
      OBVIOUS
    <3>2. j \in 1 .. Len(s) /\ b = a + j - 1
      BY <1>2, <2>1, <2>3, <3>1
    <3>3. \A i \in 1 .. Len(s) : b = a + i - 1 => i = j
      BY <2>1, <3>2
    <3>4. (\E i \in 1 .. Len(c) : b \in DOMAIN c[i]) /\ (CHOOSE i \in 1 .. Len(c) : b \in DOMAIN c[i]) = j
      BY <1>2, <2>2, <3>2, <3>3
    <3>5. c[j][b] = s[j]
      BY <1>2, <3>2
    <3> QED
      BY <2>3, <3>1, <3>4, <3>5 DEF Written
  <2>4. CASE ~(a + 0 <= b /\ b < a + Len(s))
    <3>1. ~ \E i \in 1 .. Len(c) : b \in DOMAIN c[i]
      <4> SUFFICES ASSUME NEW i \in 1 .. Len(s), b = a + i - 1 PROVE FALSE
        BY <1>2, <2>2
      <4> QED
        BY <1>2, <2>1, <2>4
    <3> QED
      BY <2>4, <3>1 DEF Written
  <2> QED
    BY <2>3, <2>4
<1>4. ASSUME NEW b \in Addr PROVE Written(m, c)[b] \in 0 .. Blank
  <2>1. m[b] \in 0 .. Blank
    BY DEF Memory
  <2>2. CASE a + 0 <= b /\ b < a + Len(s)
    <3>1. b - a + 1 \in 1 .. Len(s)
      BY <1>2, <2>2, StoreAssumption DEF Addr
    <3>2. s[b - a + 1] \in 1 .. Blank - 1
      BY <3>1, ElementOfSeq
    <3>3. s[b - a + 1] \in 0 .. Blank
      BY <3>2 DEF Blank
    <3> QED
      BY <1>3, <2>2, <3>3
  <2> QED
    BY <1>3, <2>1, <2>2
<1>5. Written(m, c) = [b \in Addr |-> Written(m, c)[b]]
  BY DEF Written
<1>6. [b \in Addr |-> Written(m, c)[b]] \in [Addr -> 0 .. Blank]
  BY <1>4
<1> QED
  BY <1>1, <1>3, <1>5, <1>6 DEF Memory, Extends

LEMMA NothingWritten ==
  ASSUME NEW m \in Memory
  PROVE  Written(m, <<>>) = m
<1>1. ~ \E i \in 1 .. Len(<<>>) : TRUE
  OBVIOUS
<1>2. Written(m, <<>>) = [a \in Addr |-> m[a]]
  BY <1>1 DEF Written
<1> QED
  BY <1>2 DEF Memory

LEMMA WipeAndPages ==
  ASSUME NEW m \in Memory, NEW i
  PROVE  Wipe \in Writes /\ Page(m, i) \in Writes
<1>1. Wipe \in [Addr -> 0 .. Blank]
  BY DEF Wipe, Blank
<1>2. Page(m, i) \in [{b \in Addr : b \div PageSize = i - 1} -> 0 .. Blank]
  BY DEF Page, Memory
<1> QED
  BY <1>1, <1>2 DEF Writes

-----------------------------------------------------------------------------
(* The steps.                                                               *)

LEMMA TypeFacts ==
  StoreTypes => /\ flash \in Memory /\ shadow \in Memory /\ given \in SUBSET Given /\ acked \subseteq Keys
                /\ port \in StorePlatforms /\ cut \in BOOLEAN /\ wiped \in BOOLEAN
                /\ job # NoJob => job \in Jobs /\ job.todo # <<>>
BY DEF StoreTypes, StoreTypeOK, Memory, Given

LEMMA KeptGrows ==
  ASSUME NEW p, NEW G, NEW m, NEW S, NEW k, Kept(p, G, m, S, k), NEW G2, G \subseteq G2
  PROVE  Kept(p, G2, m, S, k)
BY DEF Kept

\* The entry e of g, with l cells for the value, is to be written at a.
ToWrite(p, m, S, a, g, e, l) ==
  /\ Begun(p, m, S, a, g, 0)
  /\ Image(p, g) = e /\ Len(e) = 3 + l /\ l \in 1 .. 2
  /\ Cells(a, e) \in Seq(Writes) /\ Len(Cells(a, e)) = Len(e)

LEMMA EntryToWrite ==
  ASSUME NEW p, p # "rp2040", NEW k \in Keys, NEW v \in Values, NEW m \in Memory, NEW G, NEW S, NEW torn,
         Chain(p, G, m, S, torn), NEW a \in Room(m, S), a + 3 + Len(v) <= Size
  PROVE  ToWrite(p, m, S, a, <<k, v>>, Entry(k, v), Len(v))
<1>1. PICK g : g = <<k, v>>
  OBVIOUS
<1>2. g \in Given /\ g[1] = k /\ g[2] = v
  BY <1>1 DEF Given
<1>3. PICK e, l : e = Entry(k, v) /\ l = Len(v)
  OBVIOUS
<1>4. Image(p, g) = e /\ Header(p) = 3
  BY <1>2, <1>3 DEF Image, Header
<1>5. ImageOf(p, g, e, 3, l)
  BY <1>2, <1>3, <1>4, ImageFacts
<1>6. Len(e) = 3 + l /\ l \in 1 .. 2
  BY <1>5 DEF ImageOf, Shape
<1>7. Size \in Nat /\ Reach \in Nat /\ S \in SUBSET (0 .. Size)
  BY ChainFacts
<1>8. a + 3 + l <= Size
  BY <1>3
<1>9. a \in Nat
  <2>1. a \in Past \/ a \in S
    BY DEF Room
  <2>2. a \in Past => a \in Nat
    BY <1>7 DEF Past
  <2>3. a \in S => a \in Nat
    BY <1>7
  <2> QED
    BY <2>1, <2>2, <2>3
<1>10. a \notin Past
  BY <1>6, <1>7, <1>8, <1>9 DEF Past
<1>11. a \in S /\ Clear(m, a) /\ \A b \in S : b <= a
  BY <1>10 DEF Room
<1>12. a + 0 = a /\ a + Len(e) <= Size /\ 0 \in 0 .. Len(e)
  BY <1>6, <1>7, <1>8, <1>9
<1>13. Begun(p, m, S, a, g, 0)
  BY <1>4, <1>11, <1>12 DEF Begun
<1>14. e \in Seq(1 .. Blank - 1)
  BY <1>2, <1>4, ImageSeq
<1>15. Cells(a, e) \in Seq(Writes)
  BY <1>9, <1>12, <1>14, CellsAre
<1>16. Len(Cells(a, e)) = Len(e)
  BY <1>9, <1>12, <1>14, CellsAre
<1> QED
  BY <1>1, <1>3, <1>4, <1>6, <1>13, <1>15, <1>16 DEF ToWrite

\* A set that has its entry to write, and nothing written of it.
LEMMA SetStarts ==
  ASSUME NEW k \in Keys, NEW v \in Values, FlashInv, job = NoJob, NEW S \in SUBSET (0 .. Size), OnFlash(S),
         UNCHANGED <<port, flash, acked, cut, shadow, blobs, wiped>>, given' = given \cup {<<k, v>>},
         NEW a \in Room(flash, S), a + 3 + Len(v) <= Size,
         job' = Job(k, v, Cells(a, Entry(k, v)), TRUE)
  PROVE  FlashInv'
<1>1. /\ flash \in Memory /\ given \in SUBSET Given /\ port \in {"stm32", "arduino"} /\ port # "rp2040"
      /\ StoreTypes
  BY TypeFacts DEF FlashInv
<1>2. Chain(port, given, flash, S, Torn({}))
  BY DEF OnFlash
<1>3. PICK g, e : g = <<k, v>> /\ e = Entry(k, v)
  OBVIOUS
<1>4. /\ Begun(port, flash, S, a, g, 0) /\ Image(port, g) = e /\ Len(e) = 3 + Len(v) /\ Len(v) \in 1 .. 2
      /\ Cells(a, e) \in Seq(Writes) /\ Len(Cells(a, e)) = Len(e)
  <2>1. ToWrite(port, flash, S, a, <<k, v>>, Entry(k, v), Len(v))
    BY <1>1, <1>2, EntryToWrite
  <2> QED
    BY <1>3, <2>1 DEF ToWrite
<1>5. a \in S
  BY <1>4 DEF Begun
<1>6. job' \in Jobs /\ job'.op = "set" /\ job'.ok /\ job'.key = k /\ job'.val = v /\ job'.todo = Cells(a, e)
  BY <1>3, <1>4 DEF Job, Jobs
<1>7. job' # NoJob /\ job'.todo # <<>>
  <2>0. Len(Cells(a, e)) # 0
    BY <1>4
  <2>1. Len(job'.todo) # 0
    BY <1>6, <2>0
  <2> QED
    BY <1>6, <2>1, StoreAssumption
<1>8. Appending(S, a)'
  <2>1. Len(e) \in Nat /\ Len(e) - 0 = Len(e) /\ 0 \in 0 .. Len(e) - 1
    BY <1>4
  <2>2. \A i \in 1 .. Len(e) - 0 : Cells(a, e)[i] = Cells(a, e)[0 + i]
    BY <2>1
  <2>3. Len(job'.todo) = Len(e) - 0 /\ \A i \in 1 .. Len(e) - 0 : job'.todo[i] = Cells(a, e)[0 + i]
    BY <1>4, <1>6, <2>1, <2>2
  <2>4. <<job'.key, job'.val>> = g /\ Image(port', g) = e /\ g \in given' /\ Begun(port', flash', S, a, g, 0)
    BY <1>3, <1>4, <1>6
  <2>5. Appends(port', flash', S, a, g, job'.todo)
    BY <2>1, <2>3, <2>4 DEF Appends
  <2> QED
    BY <1>6, <2>4, <2>5 DEF Appending
<1>9. given \subseteq given' /\ Torn({}) \subseteq Torn({a})'
  <2>1. {} \subseteq {a} /\ cut' = cut
    OBVIOUS
  <2> QED
    BY <2>1 DEF Torn
<1>10. Chain(port, given, flash, S, Torn({}))' = Chain(port', given', flash', S, Torn({})')
  OBVIOUS
<1>11. Chain(port, given, flash, S, Torn({a}))'
  BY <1>2, <1>9, ChainGrows
<1>12. \A kk \in acked' : (port' = "arduino" /\ wiped') \/ Kept(port, given, flash, S, kk)'
  <2> SUFFICES ASSUME NEW kk \in acked, ~(port = "arduino" /\ wiped) PROVE Kept(port', given', flash', S, kk)
    OBVIOUS
  <2>1. Kept(port, given, flash, S, kk)
    BY DEF OnFlash
  <2> QED
    BY <1>9, <2>1, KeptGrows
<1>13. (port = "arduino" /\ ~wiped => NoZero(flash, S))'
  BY DEF OnFlash
<1>14. OnFlash(S)'
  BY <1>5, <1>7, <1>8, <1>11, <1>12, <1>13 DEF OnFlash
<1>15. StoreTypes'
  <2>1. given' \subseteq Keys \X Values
    BY <1>1 DEF Given
  <2> QED
    BY <1>1, <1>6, <1>7, <2>1 DEF StoreTypes, StoreTypeOK
<1> QED
  BY <1>1, <1>14, <1>15 DEF FlashInv

\* An entry is to be marked as erased.
LEMMA MarkStarts ==
  ASSUME NEW k \in Keys, FlashInv, job = NoJob, port = "arduino", NEW S \in SUBSET (0 .. Size), OnFlash(S),
         ArduinoFind(flash, k) # Nowhere, given \subseteq given', given' \subseteq Given,
         UNCHANGED <<port, flash, cut, shadow, blobs>>, acked' \subseteq acked, wiped' = TRUE,
         job' \in Jobs, job'.todo = <<Byte(ArduinoFind(flash, k), 0)>>, job'.op = "erase" \/ ~job'.ok
  PROVE  FlashInv'
<1>1. /\ flash \in Memory /\ given \in SUBSET Given /\ StoreTypes
  BY TypeFacts DEF FlashInv
<1>2. Chain("arduino", given, flash, S, Torn({}))
  BY DEF OnFlash
<1>3. PICK x : x = ArduinoFind(flash, k)
  OBVIOUS
<1>4. x \in Answers("arduino", given, flash, S, Torn({}), k)
  BY <1>1, <1>2, <1>3, ArduinoFindAnswers
<1>5. x \in S /\ \E g \in given : \E n \in 1 .. Len(Image("arduino", g)) :
                    n >= Header("arduino") - 1 /\ EntryAt("arduino", flash, S, x, g, n)
  BY <1>3, <1>4 DEF Answers
<1>6. PICK g \in given : \E n \in 1 .. Len(Image("arduino", g)) :
                    n >= Header("arduino") - 1 /\ EntryAt("arduino", flash, S, x, g, n)
  BY <1>5
<1>7. PICK n \in 1 .. Len(Image("arduino", g)) :
                    n >= Header("arduino") - 1 /\ EntryAt("arduino", flash, S, x, g, n)
  BY <1>6
<1>8. n \in 2 .. Len(Image("arduino", g))
  <2>1. Header("arduino") - 1 = 2
    BY DEF Header
  <2>2. n >= 2
    BY <1>7, <2>1
  <2>3. g \in Given
    BY <1>1
  <2>4. Image("arduino", g) \in Seq(1 .. Blank - 1)
    BY <2>3, ImageSeq
  <2>5. Len(Image("arduino", g)) \in Nat
    BY <2>4
  <2> QED
    BY <2>2, <2>5
<1>9. Marking(S)'
  <2>1. g \in given' /\ job'.todo = <<Byte(x, 0)>> /\ EntryAt(port', flash', S, x, g, n) /\ Image(port', g) = Image("arduino", g)
    BY <1>3, <1>7
  <2>2. \E y \in S, f \in given' : \E i \in 2 .. Len(Image(port', f)) :
            EntryAt(port', flash', S, y, f, i) /\ job'.todo = <<Byte(y, 0)>>
    BY <1>5, <1>8, <2>1
  <2> QED
    BY <2>2 DEF Marking
<1>10. Torn({}) \subseteq Torn({})'
  BY DEF Torn
<1>11. Chain(port, given, flash, S, Torn({}))'
  BY <1>2, <1>10, ChainGrows
<1>12. OnFlash(S)'
  BY <1>9, <1>11 DEF OnFlash
<1>13. job' # NoJob /\ job'.todo # <<>>
  BY StoreAssumption
<1>14. job'.key \in Keys
  BY DEF Jobs
<1>15. StoreTypes'
  BY <1>1, <1>13, <1>14 DEF StoreTypes, StoreTypeOK, Given
<1> QED
  BY <1>12, <1>15 DEF FlashInv

LEMMA FlashSet ==
  ASSUME FlashInv, NEW k \in Keys, NEW v \in Values, Set(k, v)
  PROVE  FlashInv'
<1>1. /\ flash \in Memory /\ given \in SUBSET Given /\ port \in {"stm32", "arduino"} /\ StoreTypes
  BY TypeFacts DEF FlashInv
<1>2. PICK S \in SUBSET (0 .. Size) : OnFlash(S)
  BY DEF FlashInv
<1>3. /\ job = NoJob /\ given' = given \cup {<<k, v>>} /\ UNCHANGED <<port, flash, cut, acked, blobs>>
      /\ (port = "stm32" /\ SetStm32(k, v)) \/ (port = "arduino" /\ SetArduino(k, v))
  BY <1>1 DEF Set
<1>4. Chain(port, given, flash, S, Torn({}))
  BY <1>2, <1>3 DEF OnFlash
<1>5. CASE port = "stm32" /\ SetStm32(k, v)
  <2>1. PICK a : a = Stm32Free(flash)
    OBVIOUS
  <2>2. a \in Room(flash, S)
    BY <1>1, <1>4, <1>5, <2>1, Stm32FreeAnswers
  <2>3. a + 3 + Len(v) <= Size /\ job' = Job(k, v, Cells(a, Entry(k, v)), TRUE) /\ UNCHANGED <<shadow, wiped>>
    BY <1>5, <2>1 DEF SetStm32
  <2>4. UNCHANGED <<port, flash, acked, cut, shadow, blobs, wiped>>
    BY <1>3, <2>3
  <2> QED
    BY <1>2, <1>3, <2>2, <2>3, <2>4, SetStarts
<1>6. CASE port = "arduino" /\ SetArduino(k, v)
  <2>1. PICK x, mark : x = ArduinoFind(flash, k) /\ mark = IF x = Nowhere THEN <<>> ELSE <<Byte(x, 0)>>
    OBVIOUS
  <2>2. PICK a : a = ArduinoEnd(Written(flash, mark))
    OBVIOUS
  <2>3. PICK room : room = (a + 3 + Len(v) <= Size)
    OBVIOUS
  <2>4. PICK todo : todo = mark \o (IF room THEN Cells(a, Entry(k, v)) ELSE <<>>)
    OBVIOUS
  <2>5. /\ todo # <<>> /\ job' = Job(k, v, todo, room)
        /\ wiped' = (wiped \/ x # Nowhere) /\ UNCHANGED shadow
    BY <1>6, <2>1, <2>2, <2>3, <2>4 DEF SetArduino
  <2>6. CASE x = Nowhere
    <3>1. mark = <<>> /\ a = ArduinoEnd(flash)
      BY <1>1, <2>1, <2>2, <2>6, NothingWritten
    <3>2. a \in Room(flash, S)
      BY <1>1, <1>4, <1>6, <3>1, ArduinoEndAnswers
    <3>3. CASE room
      <4>1. a + 3 + Len(v) <= Size
        BY <2>3, <3>3
      <4>2. ToWrite("arduino", flash, S, a, <<k, v>>, Entry(k, v), Len(v))
        BY <1>1, <1>4, <1>6, <3>2, <4>1, EntryToWrite
      <4>3. Cells(a, Entry(k, v)) \in Seq(Writes)
        BY <4>2 DEF ToWrite
      <4>4. todo = Cells(a, Entry(k, v))
        BY <2>4, <3>1, <3>3, <4>3, ConcatEmptySeq
      <4>5. room = TRUE
        BY <2>3, <3>3
      <4>6. job' = Job(k, v, Cells(a, Entry(k, v)), TRUE)
        BY <2>5, <4>4, <4>5
      <4>7. wiped' = wiped
        BY <1>1, <2>5, <2>6 DEF StoreTypes, StoreTypeOK
      <4>8. UNCHANGED <<port, flash, acked, cut, shadow, blobs, wiped>>
        BY <1>3, <2>5, <4>7
      <4> QED
        BY <1>2, <1>3, <3>2, <4>1, <4>6, <4>8, SetStarts
    <3>4. CASE ~room
      <4>1. todo = <<>> \o <<>>
        BY <2>4, <3>1, <3>4
      <4>2. <<>> \o <<>> = <<>>
        BY EmptySeq, ConcatEmptySeq
      <4> QED
        BY <2>5, <4>1, <4>2
    <3> QED
      BY <2>3, <3>3, <3>4
  <2>7. CASE x # Nowhere
    <3>1. x \in Answers("arduino", given, flash, S, Torn({}), k)
      BY <1>1, <1>4, <1>6, <2>1, ArduinoFindAnswers
    <3>2. x \in S /\ x < Size
      BY <2>7, <3>1 DEF Answers
    <3>3. x \in Addr /\ x \in Nat
      BY <1>2, <3>2, StoreAssumption DEF Addr
    <3>4. PICK m2 : m2 = Written(flash, mark)
      OBVIOUS
    <3>5. mark = <<Byte(x, 0)>> /\ Byte(x, 0) \in Writes
      <4>1. Byte(x, 0) \in [{x} -> 0 .. Blank] /\ {x} \in SUBSET Addr
        BY <3>3 DEF Byte, Blank
      <4> QED
        BY <2>1, <2>7, <4>1 DEF Writes
    <3>6. m2 \in Memory /\ \A b \in Addr : m2[b] = IF b \in DOMAIN Byte(x, 0) THEN Byte(x, 0)[b] ELSE flash[b]
      BY <1>1, <3>4, <3>5, OneWrite
    <3>7. m2 = [flash EXCEPT ![x] = 0]
      <4>1. \A b \in Addr : m2[b] = IF b = x THEN 0 ELSE flash[b]
        BY <3>6 DEF Byte
      <4> QED
        BY <1>1, <3>3, <3>6, <4>1 DEF Memory
    <3>8. a \in Past
      BY <1>1, <1>4, <1>6, <2>1, <2>2, <3>2, <3>4, <3>6, <3>7, MarkedEnd
    <3>9. ~room
      <4>1. Len(v) \in 1 .. 2 /\ Size \in Nat
        BY StoreAssumption
      <4>2. a \in Nat /\ a >= Size
        BY <3>8, <4>1 DEF Past, Reach, Blank
      <4>3. ~(a + 3 + Len(v) <= Size)
        BY <4>1, <4>2
      <4> QED
        BY <2>3, <4>3
    <3>10. todo = <<Byte(x, 0)>>
      BY <2>4, <3>5, <3>9, ConcatEmptySeq
    <3>11. job' \in Jobs /\ job'.todo = <<Byte(ArduinoFind(flash, k), 0)>> /\ ~job'.ok
      <4>1. room = FALSE
        BY <2>3, <3>9
      <4>2. <<Byte(x, 0)>> \in Seq(Writes)
        BY <3>5
      <4> QED
        BY <2>1, <2>5, <3>10, <4>1, <4>2 DEF Job, Jobs
    <3>12. wiped' = TRUE
      BY <2>5, <2>7
    <3>13. given \subseteq given' /\ given' \subseteq Given /\ acked' \subseteq acked
      BY <1>1, <1>3 DEF Given
    <3>14. UNCHANGED <<port, flash, cut, shadow, blobs>>
      BY <1>3, <2>5
    <3> QED
      BY <1>2, <1>3, <1>6, <2>1, <2>7, <3>11, <3>12, <3>13, <3>14, MarkStarts
  <2> QED
    BY <2>6, <2>7
<1> QED
  BY <1>3, <1>5, <1>6

LEMMA FlashErase ==
  ASSUME FlashInv, NEW k \in Keys, Erase(k)
  PROVE  FlashInv'
<1>1. /\ flash \in Memory /\ given \in SUBSET Given /\ port \in {"stm32", "arduino"} /\ StoreTypes
  BY TypeFacts DEF FlashInv
<1>2. PICK S \in SUBSET (0 .. Size) : OnFlash(S)
  BY DEF FlashInv
<1>3. job = NoJob /\ UNCHANGED <<port, flash, shadow, given, cut>>
  BY DEF Erase
<1>4. CASE port = "stm32"
  <2>1. job' = Erasure(k, <<Wipe>>) /\ acked' = {} /\ UNCHANGED <<blobs, wiped>>
    BY <1>4 DEF Erase
  <2>2. <<Wipe>> \in Seq(Writes) /\ <<Wipe>> # <<>>
    BY <1>1, WipeAndPages
  <2>3. job' \in Jobs /\ job'.op = "erase" /\ job'.todo = <<Wipe>> /\ job'.key \in Keys
    BY <2>1, <2>2 DEF Erasure, Jobs
  <2>4. Wiping'
    BY <1>3, <1>4, <2>1, <2>3 DEF Wiping
  <2>5. Chain(port, given, flash, S, Torn({}))
    BY <1>2, <1>3 DEF OnFlash
  <2>6. Chain(port, given, flash, S, Torn({}))'
    BY <1>3, <2>5 DEF Torn
  <2>7. OnFlash(S)'
    BY <1>3, <1>4, <2>1, <2>4, <2>6 DEF OnFlash
  <2>8. StoreTypes'
    BY <1>1, <1>3, <2>1, <2>2, <2>3 DEF StoreTypes, StoreTypeOK
  <2> QED
    BY <1>1, <1>3, <2>7, <2>8 DEF FlashInv
<1>5. CASE port = "arduino"
  <2>1. PICK x : x = ArduinoFind(flash, k)
    OBVIOUS
  <2>2. /\ x # Nowhere /\ job' = Erasure(k, <<Byte(x, 0)>>)
        /\ acked' = acked \ {k} /\ wiped' = TRUE /\ UNCHANGED blobs
    BY <1>5, <2>1 DEF Erase
  <2>3. Chain("arduino", given, flash, S, Torn({}))
    BY <1>2, <1>3, <1>5 DEF OnFlash
  <2>4. x \in Answers("arduino", given, flash, S, Torn({}), k)
    BY <1>1, <2>1, <2>3, ArduinoFindAnswers
  <2>5. x \in Addr
    <3>1. x \in S /\ x < Size
      BY <2>2, <2>4 DEF Answers
    <3> QED
      BY <1>2, <3>1, StoreAssumption DEF Addr
  <2>6. Byte(x, 0) \in Writes
    <3>1. Byte(x, 0) \in [{x} -> 0 .. Blank] /\ {x} \in SUBSET Addr
      BY <2>5 DEF Byte, Blank
    <3> QED
      BY <3>1 DEF Writes
  <2>7. <<Byte(x, 0)>> \in Seq(Writes)
    BY <2>6
  <2>8. job' \in Jobs /\ job'.op = "erase" /\ job'.todo = <<Byte(ArduinoFind(flash, k), 0)>>
    BY <2>1, <2>2, <2>7 DEF Erasure, Jobs
  <2>9. given \subseteq given' /\ given' \subseteq Given /\ acked' \subseteq acked
    BY <1>1, <1>3, <2>2
  <2>10. UNCHANGED <<port, flash, cut, shadow, blobs>>
    BY <1>3, <2>2
  <2> QED
    BY <1>2, <1>3, <1>5, <2>1, <2>2, <2>8, <2>9, <2>10, MarkStarts
<1> QED
  BY <1>1, <1>4, <1>5

\* What one write does to the cells, to the job and to the acknowledged keys.
Answered == job' = NoJob /\ acked' = IF job.op = "set" /\ job.ok THEN acked \cup {job.key} ELSE acked
GoesOn ==
  /\ job' \in Jobs /\ job' # NoJob /\ acked' = acked
  /\ job'.op = job.op /\ job'.key = job.key /\ job'.val = job.val /\ job'.ok = job.ok
  /\ Len(job'.todo) = Len(job.todo) - 1 /\ \A i \in 1 .. Len(job.todo) - 1 : job'.todo[i] = job.todo[i + 1]

LEMMA ProgramStep ==
  ASSUME StoreTypes, Program
  PROVE  /\ flash' \in Memory
         /\ \A b \in Addr : flash'[b] = IF b \in DOMAIN job.todo[1] THEN job.todo[1][b] ELSE flash[b]
         /\ Len(job.todo) \in Nat \ {0} /\ (IF Len(job.todo) > 1 THEN GoesOn ELSE Answered)
         /\ UNCHANGED <<port, shadow, blobs, given, cut, wiped>> /\ StoreTypes'
<1>1. job \in Jobs /\ job.todo # <<>> /\ flash \in Memory /\ job # NoJob
  BY TypeFacts DEF Program
<1>2. PICK t : t = job.todo
  OBVIOUS
<1>3. t \in Seq(Writes) /\ t # <<>> /\ job.key \in Keys
  BY <1>1, <1>2 DEF Jobs
<1>4. Len(t) \in Nat \ {0} /\ Head(t) = t[1] /\ t[1] \in Writes
  BY <1>3
<1>5. /\ Tail(t) \in Seq(Writes) /\ Len(Tail(t)) = Len(t) - 1 /\ \A i \in 1 .. Len(Tail(t)) : Tail(t)[i] = t[i + 1]
  BY <1>3, HeadTailProperties
<1>6. /\ flash' \in Memory
      /\ \A b \in Addr : flash'[b] = IF b \in DOMAIN t[1] THEN t[1][b] ELSE flash[b]
  <2>1. flash' = Written(flash, <<t[1]>>)
    BY <1>2, <1>4 DEF Program
  <2> QED
    BY <1>1, <1>4, <2>1, OneWrite
<1>7. CASE Len(t) > 1
  <2>1. job' = [job EXCEPT !.todo = Tail(t)] /\ acked' = acked
    BY <1>2, <1>7 DEF Program
  <2>2. job' \in Jobs /\ job'.todo = Tail(t)
    BY <1>1, <1>5, <2>1 DEF Jobs
  <2>3. job'.op = job.op /\ job'.key = job.key /\ job'.val = job.val /\ job'.ok = job.ok
    BY <1>1, <2>1 DEF Jobs
  <2>4. job' # NoJob
    BY <2>2, StoreAssumption
  <2>5. Len(job'.todo) = Len(t) - 1 /\ \A i \in 1 .. Len(t) - 1 : job'.todo[i] = t[i + 1]
    BY <1>5, <2>2
  <2>6. GoesOn
    BY <1>2, <2>1, <2>2, <2>3, <2>4, <2>5 DEF GoesOn
  <2>7. job'.todo # <<>> /\ job'.key \in Keys
    <3>1. Len(Tail(t)) # 0
      BY <1>4, <1>5, <1>7
    <3>2. Tail(t) # <<>>
      <4>1. Len(<<>>) = 0
        OBVIOUS
      <4> QED
        BY <3>1, <4>1
    <3> QED
      BY <1>3, <2>2, <2>3, <3>2
  <2>8. UNCHANGED <<port, shadow, blobs, given, cut, wiped>>
    BY DEF Program
  <2>9. StoreTypes'
    BY <1>6, <2>1, <2>2, <2>7, <2>8 DEF StoreTypes, StoreTypeOK, Memory
  <2> QED
    BY <1>2, <1>4, <1>6, <1>7, <2>6, <2>8, <2>9
<1>8. CASE ~(Len(t) > 1)
  <2>1. Answered
    BY <1>2, <1>8 DEF Program, Answered
  <2>2. UNCHANGED <<port, shadow, blobs, given, cut, wiped>>
    BY DEF Program
  <2>3. acked' \subseteq Keys
    <3>1. acked \subseteq Keys
      BY TypeFacts
    <3> QED
      BY <1>3, <2>1, <3>1 DEF Answered
  <2>4. StoreTypes'
    BY <1>6, <2>1, <2>2, <2>3 DEF Answered, StoreTypes, StoreTypeOK, Memory
  <2> QED
    BY <1>2, <1>4, <1>6, <1>8, <2>1, <2>2, <2>4
<1> QED
  BY <1>7, <1>8

\* One more cell of the entry.
LEMMA AppendWrites ==
  ASSUME FlashInv, Program, NEW S \in SUBSET (0 .. Size), OnFlash(S), NEW a \in S,
         Chain(port, given, flash, S, Torn({a})), Appending(S, a)
  PROVE  FlashInv'
<1>1. /\ flash \in Memory /\ given \in SUBSET Given /\ port \in {"stm32", "arduino"} /\ StoreTypes
  BY TypeFacts DEF FlashInv
<1>2. /\ flash' \in Memory
      /\ \A b \in Addr : flash'[b] = IF b \in DOMAIN job.todo[1] THEN job.todo[1][b] ELSE flash[b]
      /\ Len(job.todo) \in Nat \ {0} /\ (IF Len(job.todo) > 1 THEN GoesOn ELSE Answered)
      /\ UNCHANGED <<port, shadow, blobs, given, cut, wiped>> /\ StoreTypes'
  BY <1>1, ProgramStep
<1>3. PICK g, e : g = <<job.key, job.val>> /\ e = Image(port, g)
  OBVIOUS
<1>4. job.op = "set" /\ job.ok /\ g \in given /\ g \in Given /\ Appends(port, flash, S, a, g, job.todo)
  BY <1>1, <1>3 DEF Appending
<1>5. PICK n \in 0 .. Len(e) - 1 :
        /\ Begun(port, flash, S, a, g, n)
        /\ Len(job.todo) = Len(e) - n /\ \A i \in 1 .. Len(e) - n : job.todo[i] = Cells(a, e)[n + i]
  BY <1>3, <1>4 DEF Appends
<1>6. e \in Seq(1 .. Blank - 1) /\ Len(e) \in Nat
  <2>1. e \in Seq(1 .. Blank - 1)
    BY <1>3, <1>4, ImageSeq
  <2> QED
    BY <2>1
<1>7. a \in Nat /\ a + Len(e) <= Size /\ n \in Nat /\ n + 1 \in 1 .. Len(e) /\ n + 1 \in n + 1 .. Len(e) /\ n < Len(e)
  BY <1>3, <1>5, <1>6, StoreAssumption DEF Begun
<1>8. Extends(flash, flash', a, e, n, n + 1)
  <2>1. job.todo[1] = [x \in {a + (n + 1) - 1} |-> e[n + 1]]
    <3>1. 1 \in 1 .. Len(e) - n
      BY <1>6, <1>7
    <3>2. job.todo[1] = Cells(a, e)[n + 1]
      BY <1>5, <3>1
    <3>3. \A i \in 1 .. Len(e) : Cells(a, e)[i] = [x \in {a + i - 1} |-> e[i]]
      BY <1>6, <1>7, CellsAre
    <3> QED
      BY <1>7, <3>2, <3>3
  <2>2. a + (n + 1) - 1 = a + n
    BY <1>7
  <2>3. ASSUME NEW b \in Addr PROVE flash'[b] = IF a + n <= b /\ b < a + (n + 1) THEN e[b - a + 1] ELSE flash[b]
    <3>1. b \in Nat
      BY StoreAssumption DEF Addr
    <3>2. b \in DOMAIN job.todo[1] <=> b = a + n
      BY <2>1, <2>2
    <3>3. b = a + n => job.todo[1][b] = e[n + 1]
      BY <2>1, <2>2
    <3>4. b = a + n <=> a + n <= b /\ b < a + (n + 1)
      BY <1>7, <3>1
    <3>5. b = a + n => b - a + 1 = n + 1
      BY <1>7, <3>1
    <3> QED
      BY <1>2, <3>2, <3>3, <3>4, <3>5
  <2> QED
    BY <2>3 DEF Extends
<1>9. PICK S2 : S2 = Longer(port, S, a, g, n + 1)
  OBVIOUS
<1>10. a \in S2
  BY <1>9 DEF Longer
<1>11. \A A : Torn(A)' = Torn(A)
  BY <1>2 DEF Torn
<1>b. /\ Extends(flash, flash', a, Image(port, g), n, n + 1) /\ n < Len(Image(port, g))
      /\ n + 1 \in n + 1 .. Len(Image(port, g)) /\ Begun(port, flash, S, a, g, n) /\ g \in given
  BY <1>3, <1>4, <1>5, <1>7, <1>8
<1>12. ASSUME NEW k, Kept(port, given, flash, S, k) PROVE Kept(port, given, flash', S2, k)
  <2>1. Kept(port, given, flash', Longer(port, S, a, g, n + 1), k)
    BY <1>1, <1>b, <1>2, <1>12, AppendKeepsOthers
  <2> QED
    BY <1>9, <2>1
<1>13. NoZero(flash, S) => NoZero(flash', S2)
  BY <1>1, <1>3, <1>4, <1>5, <1>7, <1>8, <1>9, AppendNoZero
<1>14. Begun(port, flash', S2, a, g, n + 1)
  BY <1>1, <1>3, <1>4, <1>5, <1>7, <1>8, <1>9, StillBegun
<1>15. (port = "arduino" /\ ~wiped => NoZero(flash, S2))'
  BY <1>2, <1>13 DEF OnFlash
<1>16. CASE n + 1 < Len(e)
  <2>1. Len(job.todo) > 1
    BY <1>5, <1>6, <1>7, <1>16
  <2>2. GoesOn
    BY <1>2, <2>1
  <2>3. Torn({a}) \ {a} \subseteq Torn({a}) /\ a \in Torn({a})
    BY <1>7, StoreAssumption DEF Torn
  <2>4. Chain(port, given, flash', S2, Torn({a}))
    <3>1. n + 1 < Len(Image(port, g)) => a \in Torn({a})
      BY <2>3
    <3>2. Chain(port, given, flash', Longer(port, S, a, g, n + 1), Torn({a}))
      BY <1>1, <1>b, <2>3, <3>1, AppendKeeps
    <3> QED
      BY <1>9, <3>2
  <2>5. Appends(port, flash', S2, a, g, job'.todo)
    <3>1. n + 1 \in 0 .. Len(e) - 1 /\ Len(e) - (n + 1) = (Len(e) - n) - 1
      BY <1>6, <1>7, <1>16
    <3>2. Len(job'.todo) = Len(e) - (n + 1)
      BY <1>5, <2>2, <3>1 DEF GoesOn
    <3>3. ASSUME NEW i \in 1 .. Len(e) - (n + 1) PROVE job'.todo[i] = Cells(a, e)[(n + 1) + i]
      <4>1. job'.todo[i] = job.todo[i + 1]
        BY <1>5, <2>2, <3>1 DEF GoesOn
      <4>2. i + 1 \in 1 .. Len(e) - n /\ n + (i + 1) = (n + 1) + i
        BY <1>6, <1>7
      <4> QED
        BY <1>5, <4>1, <4>2
    <3> QED
      BY <1>3, <1>14, <3>1, <3>2, <3>3 DEF Appends
  <2>6. Appending(S2, a)'
    BY <1>2, <1>3, <1>4, <2>2, <2>5 DEF Appending, GoesOn
  <2>7. \A k \in acked' : (port' = "arduino" /\ wiped') \/ Kept(port, given, flash, S2, k)'
    BY <1>2, <1>12, <2>2 DEF OnFlash, GoesOn
  <2>8. Chain(port, given, flash, S2, Torn({a}))'
    BY <1>2, <1>11, <2>4
  <2>9. OnFlash(S2)'
    BY <1>10, <1>15, <2>2, <2>6, <2>7, <2>8 DEF OnFlash, GoesOn
  <2>10. S2 \in SUBSET (0 .. Size)
    BY <2>4, ChainFacts
  <2> QED
    BY <1>1, <1>2, <2>9, <2>10 DEF FlashInv
<1>17. CASE n + 1 = Len(e)
  <2>1. Len(job.todo) = 1
    BY <1>5, <1>6, <1>7, <1>17
  <2>2. Answered
    BY <1>2, <2>1
  <2>3. Torn({a}) \ {a} \subseteq Torn({})
    BY DEF Torn
  <2>4. Chain(port, given, flash', S2, Torn({}))
    <3>1. n + 1 < Len(Image(port, g)) => a \in Torn({})
      BY <1>3, <1>17
    <3>2. Chain(port, given, flash', Longer(port, S, a, g, n + 1), Torn({}))
      BY <1>1, <1>b, <2>3, <3>1, AppendKeeps
    <3> QED
      BY <1>9, <3>2
  <2>5. Kept(port, given, flash', S2, job.key)
    <3>1. EntryAt(port, flash', S2, a, g, n + 1)
      BY <1>7, <1>14 DEF Begun
    <3>2. g[1] = job.key
      BY <1>3
    <3> QED
      BY <1>3, <1>4, <1>10, <1>17, <3>1, <3>2 DEF Kept
  <2>6. \A k \in acked' : (port' = "arduino" /\ wiped') \/ Kept(port, given, flash, S2, k)'
    <3>1. acked' = acked \cup {job.key}
      BY <1>4, <2>2 DEF Answered
    <3>2. \A k \in acked : (port = "arduino" /\ wiped) \/ Kept(port, given, flash', S2, k)
      BY <1>12 DEF OnFlash
    <3> QED
      BY <1>2, <2>5, <3>1, <3>2
  <2>7. Chain(port, given, flash, S2, Torn({}))'
    BY <1>2, <1>11, <2>4
  <2>8. OnFlash(S2)'
    BY <1>15, <2>2, <2>6, <2>7 DEF OnFlash, Answered
  <2>9. S2 \in SUBSET (0 .. Size)
    BY <2>4, ChainFacts
  <2> QED
    BY <1>1, <1>2, <2>8, <2>9 DEF FlashInv
<1> QED
  BY <1>6, <1>7, <1>16, <1>17

LEMMA MarkWrites ==
  ASSUME FlashInv, Program, NEW S \in SUBSET (0 .. Size), OnFlash(S),
         Chain(port, given, flash, S, Torn({})), Marking(S)
  PROVE  FlashInv'
<1>1. /\ flash \in Memory /\ given \in SUBSET Given /\ port \in {"stm32", "arduino"} /\ StoreTypes
  BY TypeFacts DEF FlashInv
<1>2. /\ flash' \in Memory
      /\ \A b \in Addr : flash'[b] = IF b \in DOMAIN job.todo[1] THEN job.todo[1][b] ELSE flash[b]
      /\ Len(job.todo) \in Nat \ {0} /\ (IF Len(job.todo) > 1 THEN GoesOn ELSE Answered)
      /\ UNCHANGED <<port, shadow, blobs, given, cut, wiped>> /\ StoreTypes'
  BY <1>1, ProgramStep
<1>3. port = "arduino" /\ wiped /\ (job.op = "erase" \/ ~job.ok)
  BY DEF Marking
<1>4. PICK x \in S, g \in given : \E n \in 2 .. Len(Image(port, g)) :
        EntryAt(port, flash, S, x, g, n) /\ job.todo = <<Byte(x, 0)>>
  BY DEF Marking
<1>5. PICK n \in 2 .. Len(Image(port, g)) : EntryAt(port, flash, S, x, g, n) /\ job.todo = <<Byte(x, 0)>>
  BY <1>4
<1>6. x \in Addr
  <2>1. Image(port, g) \in Seq(1 .. Blank - 1)
    BY <1>1, ImageSeq
  <2>2. Len(Image(port, g)) \in Nat /\ n \in Nat /\ n >= 2 /\ n <= Len(Image(port, g))
    BY <2>1
  <2>3. x + Len(Image(port, g)) <= Size
    BY <1>5 DEF EntryAt
  <2> QED
    BY <2>2, <2>3, StoreAssumption DEF Addr
<1>7. Answered /\ acked' = acked
  <2>1. Len(job.todo) = 1
    BY <1>5
  <2> QED
    BY <1>2, <1>3, <2>1 DEF Answered
<1>8. flash' = [flash EXCEPT ![x] = 0]
  <2>1. job.todo[1] = Byte(x, 0)
    BY <1>5
  <2>2. \A b \in Addr : flash'[b] = IF b = x THEN 0 ELSE flash[b]
    BY <1>2, <2>1 DEF Byte
  <2> QED
    BY <1>1, <1>2, <1>6, <2>2 DEF Memory
<1>9. Chain("arduino", given, flash', S, Torn({}))
  <2>1. Chain("arduino", given, flash, S, Torn({})) /\ EntryAt("arduino", flash, S, x, g, n) /\ n >= 2
    BY <1>3, <1>5
  <2> QED
    BY <1>1, <1>8, <2>1, MarkKeeps
<1>10. Chain(port, given, flash, S, Torn({}))'
  BY <1>2, <1>3, <1>9 DEF Torn
<1>11. OnFlash(S)'
  BY <1>2, <1>3, <1>7, <1>10 DEF OnFlash, Answered
<1> QED
  BY <1>1, <1>2, <1>11 DEF FlashInv

LEMMA WipeWrites ==
  ASSUME FlashInv, Program, Wiping
  PROVE  FlashInv'
<1>1. /\ port \in {"stm32", "arduino"} /\ StoreTypes /\ StoreTypes'
      /\ UNCHANGED <<port, shadow, blobs, given, cut, wiped>>
      /\ \A b \in Addr : flash'[b] = IF b \in DOMAIN job.todo[1] THEN job.todo[1][b] ELSE flash[b]
      /\ (IF Len(job.todo) > 1 THEN GoesOn ELSE Answered)
  <2>1. StoreTypes /\ port \in {"stm32", "arduino"}
    BY DEF FlashInv
  <2> QED
    BY <2>1, ProgramStep
<1>2. port = "stm32" /\ job.todo = <<Wipe>> /\ job.op = "erase" /\ acked = {}
  BY DEF Wiping
<1>3. Len(job.todo) = 1 /\ job.todo[1] = Wipe
  BY <1>2
<1>4. Answered /\ acked' = {}
  BY <1>1, <1>2, <1>3 DEF Answered
<1>5. \A b \in Addr : flash'[b] = Blank
  BY <1>1, <1>3 DEF Wipe
<1>6. Chain(port', given', flash', {0}, Torn({})')
  BY <1>5, BlankChain
<1>7. Chain(port, given, flash, {0}, Torn({}))'
  BY <1>6
<1>8. OnFlash({0})'
  BY <1>1, <1>2, <1>4, <1>7 DEF OnFlash, Answered
<1>9. {0} \in SUBSET (0 .. Size)
  BY StoreAssumption
<1> QED
  BY <1>1, <1>8, <1>9 DEF FlashInv

LEMMA FlashProgram ==
  ASSUME FlashInv, Program
  PROVE  FlashInv'
<1>1. PICK S \in SUBSET (0 .. Size) : OnFlash(S)
  BY DEF FlashInv
<1>2. job # NoJob
  BY DEF Program
<1>3. \/ Chain(port, given, flash, S, Torn({})) /\ (Marking(S) \/ Wiping)
      \/ \E a \in S : Chain(port, given, flash, S, Torn({a})) /\ Appending(S, a)
  BY <1>1, <1>2 DEF OnFlash
<1> QED
  BY <1>1, <1>3, MarkWrites, WipeWrites, AppendWrites

LEMMA FlashCut ==
  ASSUME FlashInv, WriteFails \/ PowerLoss
  PROVE  FlashInv'
<1>1. /\ flash \in Memory /\ shadow \in Memory /\ given \in SUBSET Given /\ port \in {"stm32", "arduino"} /\ StoreTypes
  BY TypeFacts DEF FlashInv
<1>2. /\ job' = NoJob /\ cut' = TRUE /\ UNCHANGED <<port, flash, blobs, given, acked, wiped>>
      /\ shadow' = shadow \/ shadow' = flash
  BY DEF WriteFails, PowerLoss
<1>3. PICK S \in SUBSET (0 .. Size) : OnFlash(S)
  BY DEF FlashInv
<1>4. \A A : Torn(A)' = 0 .. Size
  BY <1>2 DEF Torn
<1>5. Chain(port, given, flash, S, 0 .. Size)
  <2>1. PICK A \in SUBSET (0 .. Size) : Chain(port, given, flash, S, Torn(A))
    <3>1. CASE Chain(port, given, flash, S, Torn({}))
      <4>1. {} \in SUBSET (0 .. Size)
        OBVIOUS
      <4> QED
        BY <3>1, <4>1
    <3>2. ASSUME NEW a \in S, Chain(port, given, flash, S, Torn({a})) PROVE \E A \in SUBSET (0 .. Size) : Chain(port, given, flash, S, Torn(A))
      <4>1. {a} \in SUBSET (0 .. Size)
        BY <1>3
      <4> QED
        BY <3>2, <4>1
    <3> QED
      BY <1>3, <3>1, <3>2 DEF OnFlash
  <2>2. Torn(A) \subseteq 0 .. Size
    BY DEF Torn
  <2> QED
    BY <2>1, <2>2, ChainGrows
<1>6. Chain(port, given, flash, S, Torn({}))'
  BY <1>2, <1>4, <1>5
<1>7. OnFlash(S)'
  <2>1. (port = "arduino" /\ ~wiped => NoZero(flash, S))'
    BY <1>2, <1>3 DEF OnFlash
  <2>2. (\A k \in acked : (port = "arduino" /\ wiped) \/ Kept(port, given, flash, S, k))'
    BY <1>2, <1>3 DEF OnFlash
  <2> QED
    BY <1>2, <1>6, <2>1, <2>2 DEF OnFlash
<1>8. StoreTypes'
  BY <1>1, <1>2 DEF StoreTypes, StoreTypeOK, Memory
<1> QED
  BY <1>1, <1>2, <1>7, <1>8 DEF FlashInv

-----------------------------------------------------------------------------
(* The RP2040: the copy in memory, and the sector that follows it.           *)

CopyStarts(m, m2, S, a, g, e) ==
  /\ Begun("rp2040", m, S, a, g, 0) /\ Image("rp2040", g) = e /\ Len(e) \in 3 .. 4
  /\ m2 \in Memory /\ Extends(m, m2, a, e, 0, Len(e))

LEMMA EntryToCopy ==
  ASSUME NEW k \in Keys, NEW v \in Values, NEW m \in Memory, NEW G, NEW S, NEW torn,
         Chain("rp2040", G, m, S, torn), NEW a \in CopyRoom(m, S), a # Nowhere
  PROVE  CopyStarts(m, Written(m, Cells(a, ShortEntry(k, v))), S, a, <<k, v>>, ShortEntry(k, v))
<1>1. PICK g : g = <<k, v>>
  OBVIOUS
<1>2. g \in Given /\ g[1] = k /\ g[2] = v
  BY <1>1 DEF Given
<1>3. PICK e, l : e = ShortEntry(k, v) /\ l = Len(v)
  OBVIOUS
<1>4. Image("rp2040", g) = e /\ Header("rp2040") = 2
  BY <1>2, <1>3 DEF Image, Header
<1>5. ImageOf("rp2040", g, e, 2, l)
  BY <1>2, <1>3, <1>4, ImageFacts
<1>6. Len(e) = 2 + l /\ l \in 1 .. 2
  BY <1>5 DEF ImageOf, Shape
<1>7. Size \in Nat /\ S \in SUBSET (0 .. Size)
  BY ChainFacts
<1>8. a \in S /\ a + 3 < Size /\ Clear(m, a) /\ \A b \in S : b <= a
  BY DEF CopyRoom
<1>9. a \in Nat
  BY <1>7, <1>8
<1>10. a + 0 = a /\ a + Len(e) <= Size /\ 0 \in 0 .. Len(e) /\ Len(e) \in 3 .. 4
  BY <1>6, <1>7, <1>8, <1>9
<1>11. Begun("rp2040", m, S, a, g, 0)
  BY <1>4, <1>8, <1>10 DEF Begun
<1>12. e \in Seq(1 .. Blank - 1)
  BY <1>2, <1>4, ImageSeq
<1>13. Written(m, Cells(a, e)) \in Memory /\ Extends(m, Written(m, Cells(a, e)), a, e, 0, Len(e))
  BY <1>9, <1>10, <1>12, CellsWritten
<1> QED
  BY <1>1, <1>3, <1>4, <1>10, <1>11, <1>13 DEF CopyStarts

LEMMA PageCount ==
  NumPages \in Nat
<1>1. Size \in Nat \ {0} /\ PageSize \in Nat \ {0}
  BY StoreAssumption
<1>2. Size + PageSize - 1 \in Nat
  BY <1>1
<1>3. \A a \in Nat : a \div PageSize \in Nat
  BY <1>1
<1> QED
  BY <1>2, <1>3 DEF NumPages

SectorWrites(m, todo) ==
  /\ todo \in Seq(Writes) /\ Len(todo) = NumPages + 1
  /\ \A i \in 1 .. NumPages + 1 : todo[i] = IF i = 1 THEN Wipe ELSE Page(m, i - 1)

LEMMA SectorIsWritten ==
  ASSUME NEW m \in Memory
  PROVE  SectorWrites(m, <<Wipe>> \o [i \in 1 .. NumPages |-> Page(m, i)])
<1>1. PICK t : t = [i \in 1 .. NumPages |-> Page(m, i)]
  OBVIOUS
<1>2. NumPages \in Nat
  BY PageCount
<1>3. \A i \in 1 .. NumPages : t[i] = Page(m, i) /\ Page(m, i) \in Writes
  BY <1>1, WipeAndPages
<1>4. t \in Seq(Writes) /\ Len(t) = NumPages
  <2>1. t \in [1 .. NumPages -> Writes]
    BY <1>1, <1>3
  <2> QED
    BY <1>2, <2>1
<1>5. <<Wipe>> \in Seq(Writes) /\ Len(<<Wipe>>) = 1 /\ <<Wipe>>[1] = Wipe
  BY WipeAndPages
<1>6. PICK w : w = <<Wipe>>
  OBVIOUS
<1>7. w \in Seq(Writes) /\ Len(w) = 1 /\ w[1] = Wipe
  BY <1>5, <1>6
<1>8. /\ w \o t \in Seq(Writes) /\ Len(w \o t) = 1 + NumPages
      /\ \A i \in 1 .. 1 + NumPages : (w \o t)[i] = IF i <= 1 THEN w[i] ELSE t[i - 1]
  <2>1. /\ w \o t \in Seq(Writes) /\ Len(w \o t) = Len(w) + Len(t)
        /\ \A i \in 1 .. Len(w) + Len(t) : (w \o t)[i] = IF i <= Len(w) THEN w[i] ELSE t[i - Len(w)]
    BY <1>4, <1>7, ConcatProperties
  <2>2. Len(w) = 1 /\ Len(t) = NumPages
    BY <1>4, <1>7
  <2> QED
    BY <2>1, <2>2
<1>9. ASSUME NEW i \in 1 .. NumPages + 1 PROVE (w \o t)[i] = IF i = 1 THEN Wipe ELSE Page(m, i - 1)
  <2>1. i \in 1 .. 1 + NumPages /\ (i <= 1 <=> i = 1) /\ (i # 1 => i - 1 \in 1 .. NumPages)
    BY <1>2
  <2>2. (w \o t)[i] = IF i <= 1 THEN w[i] ELSE t[i - 1]
    BY <1>8, <2>1
  <2> QED
    BY <1>3, <1>7, <2>1, <2>2
<1>10. Len(w \o t) = NumPages + 1
  BY <1>2, <1>8
<1> QED
  BY <1>1, <1>6, <1>8, <1>9, <1>10 DEF SectorWrites

LEMMA CopySet ==
  ASSUME CopyInv, NEW k \in Keys, NEW v \in Values, Set(k, v)
  PROVE  CopyInv'
<1>1. /\ flash \in Memory /\ shadow \in Memory /\ given \in SUBSET Given /\ port = "rp2040" /\ StoreTypes
  BY TypeFacts DEF CopyInv
<1>2. PICK F \in SUBSET (0 .. Size) : Chain(port, given, flash, F, 0 .. Size)
  BY DEF CopyInv
<1>3. PICK S \in SUBSET (0 .. Size) : InShadow(S)
  BY DEF CopyInv
<1>4. job = NoJob /\ given' = given \cup {<<k, v>>} /\ UNCHANGED <<port, flash, cut, acked, blobs>> /\ SetRp2040(k, v)
  BY <1>1 DEF Set
<1>5. PICK a, g, e : a = Rp2040Free(shadow) /\ g = <<k, v>> /\ e = ShortEntry(k, v)
  OBVIOUS
<1>6. /\ a # Nowhere /\ shadow' = Written(shadow, Cells(a, e))
      /\ job' = Job(k, v, <<Wipe>> \o [i \in 1 .. NumPages |-> Page(shadow', i)], TRUE) /\ UNCHANGED wiped
  BY <1>4, <1>5 DEF SetRp2040
<1>7. Chain("rp2040", given, shadow, S, Torn({}))
  BY <1>1, <1>3 DEF InShadow
<1>8. a \in CopyRoom(shadow, S)
  BY <1>1, <1>5, <1>7, Rp2040FreeAnswers
<1>9. CopyStarts(shadow, shadow', S, a, g, e)
  BY <1>1, <1>5, <1>6, <1>7, <1>8, EntryToCopy
<1>10. given \subseteq given' /\ given' \in SUBSET Given /\ g \in given' /\ g \in Given /\ g[1] = k
  BY <1>1, <1>4, <1>5 DEF Given
<1>11. Chain("rp2040", given', shadow, S, Torn({}))
  BY <1>7, <1>10, ChainGrows
<1>12. PICK N : N = Len(Image("rp2040", g))
  OBVIOUS
<1>13. /\ Begun("rp2040", shadow, S, a, g, 0) /\ shadow' \in Memory /\ N \in 3 .. 4
       /\ Extends(shadow, shadow', a, Image("rp2040", g), 0, N) /\ N = Len(Image("rp2040", g))
       /\ N \in 0 + 1 .. Len(Image("rp2040", g)) /\ 0 < Len(Image("rp2040", g))
  BY <1>9, <1>12 DEF CopyStarts
<1>14. PICK S2 : S2 = Longer("rp2040", S, a, g, N)
  OBVIOUS
<1>15. Chain("rp2040", given', shadow', S2, Torn({}))
  <2>1. Torn({}) \ {a} \subseteq Torn({}) /\ (N < Len(Image("rp2040", g)) => a \in Torn({}))
    BY <1>13
  <2> QED
    BY <1>1, <1>10, <1>11, <1>13, <1>14, <2>1, AppendKeeps
<1>16. EntryAt("rp2040", shadow', S2, a, g, N)
  BY <1>1, <1>10, <1>11, <1>13, <1>14, EntryGrows
<1>17. a \in S2
  BY <1>13, <1>14 DEF Begun, Longer
<1>18. Kept("rp2040", given', shadow', S2, k)
  BY <1>10, <1>13, <1>16, <1>17 DEF Kept
<1>19. ASSUME NEW kk \in acked, ~cut PROVE Kept("rp2040", given', shadow', S2, kk)
  <2>1. Kept("rp2040", given, shadow, S, kk)
    BY <1>1, <1>3, <1>19 DEF InShadow
  <2>2. Kept("rp2040", given', shadow, S, kk)
    BY <1>10, <2>1, KeptGrows
  <2> QED
    BY <1>1, <1>10, <1>11, <1>13, <1>14, <2>2, AppendKeepsOthers
<1>20. SectorWrites(shadow', <<Wipe>> \o [i \in 1 .. NumPages |-> Page(shadow', i)])
  BY <1>13, SectorIsWritten
<1>21. PICK t : t = <<Wipe>> \o [i \in 1 .. NumPages |-> Page(shadow', i)]
  OBVIOUS
<1>22. SectorWrites(shadow', t) /\ job' = Job(k, v, t, TRUE)
  BY <1>6, <1>20, <1>21
<1>23. job' \in Jobs /\ job'.op = "set" /\ job'.ok /\ job'.key = k /\ job'.todo = t
  BY <1>22 DEF Job, Jobs, SectorWrites
<1>24. job' # NoJob /\ t # <<>>
  <2>1. Len(t) # 0
    BY <1>22, PageCount DEF SectorWrites
  <2>2. Len(<<>>) = 0
    OBVIOUS
  <2> QED
    BY <1>23, <2>1, <2>2, StoreAssumption
<1>25. Reprogramming'
  <2>1. NumPages \in Nat /\ 0 \in 0 .. NumPages /\ NumPages + 1 - 0 = NumPages + 1 /\ ~(0 > 0)
    BY PageCount
  <2>2. Len(job'.todo) = NumPages + 1 - 0
    BY <1>22, <1>23, <2>1 DEF SectorWrites
  <2>3. ASSUME NEW i \in 1 .. NumPages + 1 - 0 PROVE job'.todo[i] = IF 0 + i = 1 THEN Wipe ELSE Page(shadow', 0 + i - 1)
    <3>1. i \in 1 .. NumPages + 1 /\ 0 + i = i
      BY <2>1
    <3>2. t[i] = IF i = 1 THEN Wipe ELSE Page(shadow', i - 1)
      BY <1>22, <3>1 DEF SectorWrites
    <3> QED
      BY <1>23, <3>1, <3>2
  <2> QED
    BY <1>23, <2>1, <2>2, <2>3 DEF Reprogramming
<1>26. InShadow(S2)'
  <2>1. Chain(port, given, shadow, S2, Torn({}))'
    BY <1>1, <1>4, <1>15 DEF Torn
  <2>2. (~cut => \A kk \in acked : Kept(port, given, shadow, S2, kk))'
    BY <1>1, <1>4, <1>19
  <2>3. Kept(port, given, shadow, S2, job.key)'
    BY <1>1, <1>4, <1>18, <1>23
  <2> QED
    BY <1>25, <2>1, <2>2, <2>3 DEF InShadow
<1>27. S2 \in SUBSET (0 .. Size)
  BY <1>15, ChainFacts
<1>28. (\E T \in SUBSET (0 .. Size) : Chain(port, given, flash, T, 0 .. Size))'
  <2>1. Chain(port, given', flash, F, 0 .. Size)
    BY <1>2, <1>10, ChainGrows
  <2> QED
    BY <1>4, <2>1
<1>29. StoreTypes'
  <2>1. given' \subseteq Keys \X Values /\ shadow' \in [Addr -> 0 .. Blank]
    BY <1>10, <1>13 DEF Given, Memory
  <2> QED
    BY <1>1, <1>4, <1>6, <1>23, <1>24, <2>1 DEF StoreTypes, StoreTypeOK
<1> QED
  BY <1>1, <1>4, <1>26, <1>27, <1>28, <1>29 DEF CopyInv

LEMMA CopyErase ==
  ASSUME CopyInv, NEW k \in Keys, Erase(k)
  PROVE  CopyInv'
<1>1. port = "rp2040" /\ StoreTypes
  BY DEF CopyInv
<1>2. job = NoJob /\ acked' = acked \ {k} /\ UNCHANGED <<port, flash, shadow, blobs, job, given, cut, wiped>>
  BY <1>1 DEF Erase
<1>3. PICK F \in SUBSET (0 .. Size) : Chain(port, given, flash, F, 0 .. Size)
  BY DEF CopyInv
<1>4. PICK S \in SUBSET (0 .. Size) : InShadow(S)
  BY DEF CopyInv
<1>5. Chain(port, given, flash, F, 0 .. Size)'
  BY <1>2, <1>3
<1>6. Chain(port, given, shadow, S, Torn({}))'
  BY <1>2, <1>4 DEF InShadow, Torn
<1>7. (~cut => \A kk \in acked : Kept(port, given, shadow, S, kk))'
  BY <1>2, <1>4 DEF InShadow
<1>8. InShadow(S)'
  BY <1>2, <1>6, <1>7 DEF InShadow
<1>9. StoreTypes'
  BY <1>1, <1>2 DEF StoreTypes, StoreTypeOK
<1> QED
  BY <1>1, <1>2, <1>5, <1>8, <1>9 DEF CopyInv

\* A write wipes the sector or programs its next page.
LEMMA SectorWrite ==
  ASSUME NEW m \in Memory, NEW f \in Memory, NEW f2, NEW n \in Nat, NEW w,
         w = IF n = 0 THEN Wipe ELSE Page(m, n),
         n > 0 => \A b \in Addr : f[b] = IF b \in Before(n - 1) THEN m[b] ELSE Blank,
         \A b \in Addr : f2[b] = IF b \in DOMAIN w THEN w[b] ELSE f[b]
  PROVE  \A b \in Addr : f2[b] = IF b \in Before(n) THEN m[b] ELSE Blank
<1>1. Size \in Nat \ {0} /\ PageSize \in Nat \ {0}
  BY StoreAssumption
<1>2. \A a \in Nat : a \div PageSize \in Nat
  BY <1>1
<1> SUFFICES ASSUME NEW b \in Addr PROVE f2[b] = IF b \in Before(n) THEN m[b] ELSE Blank
  OBVIOUS
<1>3. PICK q \in Nat : q = b \div PageSize
  BY <1>1, <1>2 DEF Addr
<1>4. \A i : b \in Before(i) <=> q < i
  BY <1>3 DEF Before
<1>5. CASE n = 0
  <2>1. f2[b] = Blank
    BY <1>5 DEF Wipe
  <2> QED
    BY <1>3, <1>4, <1>5, <2>1
<1>6. CASE n > 0
  <2>1. w = Page(m, n)
    BY <1>6
  <2>2. CASE q = n - 1
    <3>1. f2[b] = m[b]
      BY <1>3, <2>1, <2>2 DEF Page
    <3> QED
      BY <1>4, <2>2, <3>1
  <2>3. CASE q # n - 1
    <3>1. f2[b] = f[b]
      BY <1>3, <2>1, <2>3 DEF Page
    <3>2. q < n <=> q < n - 1
      BY <2>3
    <3> QED
      BY <1>4, <1>6, <3>1, <3>2
  <2> QED
    BY <2>2, <2>3
<1> QED
  BY <1>5, <1>6

LEMMA CopyProgram ==
  ASSUME CopyInv, Program
  PROVE  CopyInv'
<1>1. /\ flash \in Memory /\ shadow \in Memory /\ given \in SUBSET Given /\ port = "rp2040" /\ StoreTypes
  BY TypeFacts DEF CopyInv
<1>2. /\ flash' \in Memory
      /\ \A b \in Addr : flash'[b] = IF b \in DOMAIN job.todo[1] THEN job.todo[1][b] ELSE flash[b]
      /\ Len(job.todo) \in Nat \ {0} /\ (IF Len(job.todo) > 1 THEN GoesOn ELSE Answered)
      /\ UNCHANGED <<port, shadow, blobs, given, cut, wiped>> /\ StoreTypes'
  BY <1>1, ProgramStep
<1>3. PICK S \in SUBSET (0 .. Size) : InShadow(S)
  BY DEF CopyInv
<1>4. /\ Chain(port, given, shadow, S, Torn({})) /\ (~cut => \A k \in acked : Kept(port, given, shadow, S, k))
      /\ Reprogramming /\ Kept(port, given, shadow, S, job.key)
  BY <1>3 DEF InShadow, Program
<1>5. job.op = "set" /\ job.ok /\ NumPages \in Nat
  BY <1>4, PageCount DEF Reprogramming
<1>6. PICK n \in 0 .. NumPages :
       /\ Len(job.todo) = NumPages + 1 - n
       /\ \A i \in 1 .. NumPages + 1 - n : job.todo[i] = IF n + i = 1 THEN Wipe ELSE Page(shadow, n + i - 1)
       /\ n > 0 => \A b \in Addr : flash[b] = IF b \in Before(n - 1) THEN shadow[b] ELSE Blank
  BY <1>4 DEF Reprogramming
<1>7. n \in Nat /\ 1 \in 1 .. NumPages + 1 - n /\ (n + 1 = 1 <=> n = 0) /\ n + 1 - 1 = n /\ (n + 1) - 1 = n
  BY <1>5
<1>8. job.todo[1] = IF n = 0 THEN Wipe ELSE Page(shadow, n)
  <2>1. job.todo[1] = IF n + 1 = 1 THEN Wipe ELSE Page(shadow, n + 1 - 1)
    BY <1>6, <1>7
  <2> QED
    BY <1>7, <2>1
<1>9. \A b \in Addr : flash'[b] = IF b \in Before(n) THEN shadow[b] ELSE Blank
  <2>1. PICK w : w = job.todo[1]
    OBVIOUS
  <2>2. w = IF n = 0 THEN Wipe ELSE Page(shadow, n)
    BY <1>8, <2>1
  <2>3. \A b \in Addr : flash'[b] = IF b \in DOMAIN w THEN w[b] ELSE flash[b]
    BY <1>2, <2>1
  <2>4. n > 0 => \A b \in Addr : flash[b] = IF b \in Before(n - 1) THEN shadow[b] ELSE Blank
    BY <1>6
  <2> QED
    BY <1>1, <1>7, <2>2, <2>3, <2>4, SectorWrite
<1>10. \E F \in SUBSET (0 .. Size) : Chain("rp2040", given, flash', F, 0 .. Size)
  <2>1. PICK d \in 0 .. Size : \A b \in Addr : b \in Before(n) <=> b < d
    BY <1>7, PagesAreAPrefix
  <2>2. \A b \in Addr : flash'[b] = IF b < d THEN shadow[b] ELSE Blank
    BY <1>9, <2>1
  <2>3. Chain("rp2040", given, shadow, S, Torn({}))
    BY <1>1, <1>4
  <2> QED
    BY <1>1, <2>2, <2>3, TruncatedChain
<1>11. (\E F \in SUBSET (0 .. Size) : Chain(port, given, flash, F, 0 .. Size))'
  BY <1>1, <1>2, <1>10
<1>12. Chain(port, given, shadow, S, Torn({}))'
  BY <1>2, <1>4 DEF Torn
<1>13. CASE n < NumPages
  <2>1. Len(job.todo) > 1
    BY <1>5, <1>6, <1>7, <1>13
  <2>2. GoesOn
    BY <1>2, <2>1
  <2>3. n + 1 \in 0 .. NumPages /\ NumPages + 1 - (n + 1) = (NumPages + 1 - n) - 1
    BY <1>5, <1>7, <1>13
  <2>4. Len(job'.todo) = NumPages + 1 - (n + 1)
    BY <1>6, <2>2, <2>3 DEF GoesOn
  <2>5. ASSUME NEW i \in 1 .. NumPages + 1 - (n + 1)
        PROVE  job'.todo[i] = IF (n + 1) + i = 1 THEN Wipe ELSE Page(shadow', (n + 1) + i - 1)
    <3>1. i + 1 \in 1 .. NumPages + 1 - n /\ i \in 1 .. (NumPages + 1 - n) - 1 /\ n + (i + 1) = (n + 1) + i
      BY <1>5, <1>7
    <3>2. job'.todo[i] = job.todo[i + 1]
      BY <1>6, <2>2, <3>1 DEF GoesOn
    <3>3. job.todo[i + 1] = IF n + (i + 1) = 1 THEN Wipe ELSE Page(shadow, n + (i + 1) - 1)
      BY <1>6, <3>1
    <3> QED
      BY <1>2, <3>1, <3>2, <3>3
  <2>6. n + 1 > 0 => \A b \in Addr : flash'[b] = IF b \in Before((n + 1) - 1) THEN shadow'[b] ELSE Blank
    BY <1>2, <1>7, <1>9
  <2>7. Reprogramming'
    BY <1>5, <2>2, <2>3, <2>4, <2>5, <2>6 DEF Reprogramming, GoesOn
  <2>8. (~cut => \A k \in acked : Kept(port, given, shadow, S, k))' /\ Kept(port, given, shadow, S, job.key)'
    BY <1>2, <1>4, <2>2 DEF GoesOn
  <2>9. InShadow(S)'
    BY <1>12, <2>7, <2>8 DEF InShadow
  <2> QED
    BY <1>1, <1>2, <1>11, <2>9 DEF CopyInv
<1>14. CASE n = NumPages
  <2>1. Len(job.todo) = 1
    BY <1>5, <1>6, <1>7, <1>14
  <2>2. job' = NoJob /\ acked' = acked \cup {job.key}
    BY <1>2, <1>5, <2>1 DEF Answered
  <2>3. (~cut => \A k \in acked : Kept(port, given, shadow, S, k))'
    BY <1>2, <1>4, <2>2
  <2>4. InShadow(S)'
    BY <1>12, <2>2, <2>3 DEF InShadow
  <2> QED
    BY <1>1, <1>2, <1>11, <2>4 DEF CopyInv
<1> QED
  BY <1>5, <1>7, <1>13, <1>14

LEMMA CopyCut ==
  ASSUME CopyInv, WriteFails \/ PowerLoss
  PROVE  CopyInv'
<1>1. /\ flash \in Memory /\ shadow \in Memory /\ given \in SUBSET Given /\ port = "rp2040" /\ StoreTypes
  BY TypeFacts DEF CopyInv
<1>2. job' = NoJob /\ cut' = TRUE /\ shadow' = flash /\ UNCHANGED <<port, flash, blobs, given, acked, wiped>>
  BY <1>1 DEF WriteFails, PowerLoss
<1>3. PICK S \in SUBSET (0 .. Size) : Chain(port, given, flash, S, 0 .. Size)
  BY DEF CopyInv
<1>4. Chain(port, given, flash, S, 0 .. Size)'
  BY <1>2, <1>3
<1>5. InShadow(S)'
  BY <1>2, <1>3 DEF InShadow, Torn
<1>6. StoreTypes'
  BY <1>1, <1>2 DEF StoreTypes, StoreTypeOK, Memory
<1> QED
  BY <1>1, <1>2, <1>4, <1>5, <1>6 DEF CopyInv

-----------------------------------------------------------------------------
(* The ESP32-S3, and the store as a whole.                                   *)

LEMMA LibraryStep ==
  ASSUME LibraryInv, StoreNext
  PROVE  LibraryInv'
<1>1. port = "esp32s3" /\ StoreTypes /\ job = NoJob /\ blobs \subseteq given /\ \A k \in acked : \E v \in Values : <<k, v>> \in blobs
  BY DEF LibraryInv
<1>2. given \subseteq Keys \X Values /\ blobs \subseteq Keys \X Values /\ acked \subseteq Keys
  BY <1>1 DEF StoreTypes, StoreTypeOK
<1>3. ASSUME NEW k \in Keys, Erase(k) PROVE LibraryInv'
  <2>1. blobs' = {b \in blobs : b[1] # k} /\ acked' = acked \ {k} /\ UNCHANGED <<job, wiped, port, flash, shadow, given, cut>>
    BY <1>1, <1>3 DEF Erase
  <2>2. \A kk \in acked' : \E v \in Values : <<kk, v>> \in blobs'
    BY <1>1, <2>1
  <2>3. StoreTypes'
    BY <1>1, <2>1 DEF StoreTypes, StoreTypeOK
  <2> QED
    BY <1>1, <2>1, <2>2, <2>3 DEF LibraryInv
<1>4. ASSUME NEW k \in Keys, NEW v \in Values, Set(k, v) PROVE LibraryInv'
  <2>1. /\ given' = given \cup {<<k, v>>} /\ blobs' = {b \in blobs : b[1] # k} \cup {<<k, v>>} /\ acked' = acked \cup {k}
        /\ UNCHANGED <<shadow, job, wiped, port, flash, cut>>
    BY <1>1, <1>4 DEF Set
  <2>2. \A kk \in acked' : \E vv \in Values : <<kk, vv>> \in blobs'
    BY <1>1, <2>1
  <2>3. blobs' \subseteq given'
    BY <1>1, <2>1
  <2>4. given' \subseteq Keys \X Values /\ blobs' \subseteq Keys \X Values /\ acked' \subseteq Keys
    BY <1>2, <2>1
  <2>5. StoreTypes'
    BY <1>1, <2>1, <2>4 DEF StoreTypes, StoreTypeOK
  <2> QED
    BY <1>1, <2>1, <2>2, <2>3, <2>5 DEF LibraryInv
<1>5. ~Program /\ ~WriteFails /\ ~PowerLoss
  BY <1>1 DEF Program, WriteFails, PowerLoss
<1> QED
  BY <1>3, <1>4, <1>5 DEF StoreNext

LEMMA StoreStart ==
  StoreInit => StoreInv
<1> SUFFICES ASSUME StoreInit PROVE StoreInv
  OBVIOUS
<1>1. /\ port \in StorePlatforms /\ port \in {"esp32s3", "rp2040", "stm32", "arduino"}
      /\ flash = [a \in Addr |-> Blank] /\ shadow = flash
      /\ blobs = {} /\ job = NoJob /\ given = {} /\ acked = {} /\ cut = FALSE /\ wiped = FALSE
  BY StoreAssumption DEF StoreInit
<1>2. \A b \in Addr : flash[b] = Blank /\ shadow[b] = Blank
  BY <1>1
<1>3. StoreTypes
  <2>1. flash \in [Addr -> 0 .. Blank] /\ shadow \in [Addr -> 0 .. Blank]
    <3>1. Blank \in 0 .. Blank
      BY DEF Blank
    <3> QED
      BY <1>1, <3>1
  <2>2. cut \in BOOLEAN /\ wiped \in BOOLEAN
    BY <1>1
  <2> QED
    BY <1>1, <2>1, <2>2 DEF StoreTypes, StoreTypeOK
<1>4. {0} \in SUBSET (0 .. Size)
  BY StoreAssumption
<1>5. \A A : Chain(port, given, flash, {0}, A) /\ Chain(port, given, shadow, {0}, A)
  BY <1>2, BlankChain
<1>6. CASE port \in {"stm32", "arduino"}
  <2>1. NoZero(flash, {0})
    BY <1>2, StoreAssumption DEF NoZero, Addr, Blank
  <2>2. OnFlash({0})
    BY <1>1, <1>5, <2>1 DEF OnFlash
  <2> QED
    BY <1>3, <1>4, <1>6, <2>2 DEF FlashInv, StoreInv
<1>7. CASE port = "rp2040"
  <2>1. InShadow({0})
    BY <1>1, <1>5 DEF InShadow
  <2> QED
    BY <1>3, <1>4, <1>5, <1>7, <2>1 DEF CopyInv, StoreInv
<1>8. CASE port = "esp32s3"
  BY <1>1, <1>3, <1>8 DEF LibraryInv, StoreInv
<1> QED
  BY <1>1, <1>6, <1>7, <1>8

LEMMA StoreStep ==
  StoreInv /\ (StoreNext \/ UNCHANGED storeVars) => StoreInv'
<1>1. ASSUME FlashInv, StoreNext PROVE FlashInv'
  BY <1>1, FlashErase, FlashSet, FlashProgram, FlashCut DEF StoreNext
<1>2. ASSUME CopyInv, StoreNext PROVE CopyInv'
  BY <1>2, CopyErase, CopySet, CopyProgram, CopyCut DEF StoreNext
<1>3. ASSUME LibraryInv, StoreNext PROVE LibraryInv'
  BY <1>3, LibraryStep
<1>4. ASSUME StoreInv, UNCHANGED storeVars PROVE StoreInv'
  <2>1. \A A : Torn(A)' = Torn(A)
    BY <1>4 DEF storeVars, Torn
  <2>2. StoreTypes' = StoreTypes
    BY <1>4 DEF storeVars, StoreTypes, StoreTypeOK
  <2>3. \A S : OnFlash(S)' = OnFlash(S)
    BY <1>4, <2>1 DEF storeVars, OnFlash, Marking, Wiping, Appending
  <2>4. Reprogramming' = Reprogramming
    BY <1>4 DEF storeVars, Reprogramming
  <2>5. \A S : InShadow(S)' = InShadow(S)
    BY <1>4, <2>1, <2>4 DEF storeVars, InShadow
  <2>6. FlashInv => FlashInv'
    BY <1>4, <2>2, <2>3 DEF storeVars, FlashInv
  <2>7. CopyInv => CopyInv'
    BY <1>4, <2>2, <2>5 DEF storeVars, CopyInv
  <2>8. LibraryInv => LibraryInv'
    BY <1>4, <2>2 DEF storeVars, LibraryInv
  <2> QED
    BY <1>4, <2>6, <2>7, <2>8 DEF StoreInv
<1> QED
  BY <1>1, <1>2, <1>3, <1>4 DEF StoreInv

-----------------------------------------------------------------------------
(* What get answers.                                                         *)

\* The value read at x is one that was given for k, or what was written of it.
Reads(G, m, x, h, k) ==
  /\ Run(m, x + h, m[x + h - 1]) # NotFound
  /\ ~cut => m[x + h - 1] \in 1 .. Longest
  /\ \E g \in G : /\ g[1] = k
                  /\ Run(m, x + h, m[x + h - 1]) = g[2] \/ (cut /\ TornFrom(Run(m, x + h, m[x + h - 1]), g[2]))

LEMMA ValueRead ==
  ASSUME NEW p, NEW G \in SUBSET Given, NEW m \in Memory, NEW S \in SUBSET (0 .. Size), NEW k,
         NEW x \in Answers(p, G, m, S, Torn({}), k), x # Nowhere
  PROVE  Reads(G, m, x, Header(p), k)
<1>1. x \in S /\ x \in Nat
  <2>1. x \in S
    BY DEF Answers
  <2> QED
    BY <2>1, StoreAssumption
<1>2. PICK g \in G : \E n \in 1 .. Len(Image(p, g)) :
         /\ g[1] = k /\ n >= Header(p) - 1 /\ EntryAt(p, m, S, x, g, n)
         /\ n < Len(Image(p, g)) => x \in Torn({})
  BY DEF Answers
<1>3. PICK n \in 1 .. Len(Image(p, g)) :
         /\ g[1] = k /\ n >= Header(p) - 1 /\ EntryAt(p, m, S, x, g, n)
         /\ n < Len(Image(p, g)) => x \in Torn({})
  BY <1>2
<1>4. PICK h, l, v : h = Header(p) /\ l = Len(g[2]) /\ v = g[2]
  OBVIOUS
<1>5. g \in Given
  BY <1>2
<1>6. Tells(p, m, x, g, n, h, l)
  BY <1>1, <1>3, <1>4, <1>5, EntryCells
<1>7. ImageOf(p, g, Image(p, g), h, l)
  BY <1>4, <1>5, ImageFacts
<1>8. h \in 2 .. 3 /\ l \in 1 .. 2 /\ Len(Image(p, g)) = h + l
  BY <1>7 DEF ImageOf, Shape
<1>9. n \in 1 .. h + l /\ n >= h - 1 /\ x + h + l <= Size /\ Size \in Nat /\ Blank = 255
  BY <1>3, <1>4, <1>8, <1>6, StoreAssumption DEF Tells, Blank
<1>10. n < h + l => cut
  BY <1>3, <1>8 DEF Torn
<1>11. m[x + h - 1] = IF h <= n THEN l ELSE 255
  BY <1>6, <1>9 DEF Tells
<1>12. \A i \in 1 .. l : Cell(m, x + h + i - 1) = IF h + i <= n THEN v[i] ELSE Blank
  <2> SUFFICES ASSUME NEW i \in 1 .. l PROVE Cell(m, x + h + i - 1) = IF h + i <= n THEN v[i] ELSE Blank
    OBVIOUS
  <2>1. m[x + h + i - 1] = IF h + i <= n THEN v[i] ELSE Blank
    BY <1>4, <1>6 DEF Tells
  <2>2. x + h + i - 1 < Size
    BY <1>1, <1>8, <1>9
  <2> QED
    BY <2>1, <2>2 DEF Cell
<1>13. v = [i \in 1 .. l |-> v[i]]
  <2>1. v \in Values
    BY <1>4, <1>5 DEF Given
  <2>2. v \in Seq(1 .. Blank - 1)
    BY <2>1, StoreAssumption
  <2> QED
    BY <1>4, <2>2
<1>14. CASE h <= n
  <2>1. Run(m, x + h, m[x + h - 1]) = [i \in 1 .. l |-> Cell(m, x + h + i - 1)]
    BY <1>8, <1>11, <1>14 DEF Run, Longest
  <2>2. PICK r : r = [i \in 1 .. l |-> Cell(m, x + h + i - 1)]
    OBVIOUS
  <2>3. \A i \in 1 .. l : r[i] = IF h + i <= n THEN v[i] ELSE Blank
    BY <1>12, <2>2
  <2>4. Len(r) = l /\ r # <<>>
    BY <1>8, <2>2
  <2>5. m[x + h - 1] \in 1 .. Longest
    BY <1>8, <1>11, <1>14 DEF Longest
  <2>6. CASE n < h + l
    <3>1. TornFrom(r, v)
      BY <1>4, <2>3, <2>4 DEF TornFrom
    <3> QED
      BY <1>3, <1>4, <1>10, <2>1, <2>2, <2>4, <2>5, <2>6, <3>1 DEF Reads, NotFound
  <2>7. CASE ~(n < h + l)
    <3>1. \A i \in 1 .. l : h + i <= n
      BY <1>8, <1>9, <2>7
    <3>2. r = v
      BY <1>13, <2>2, <2>3, <3>1
    <3> QED
      BY <1>3, <1>4, <2>1, <2>2, <2>4, <2>5, <3>2 DEF Reads, NotFound
  <2> QED
    BY <2>6, <2>7
<1>15. CASE ~(h <= n)
  <2>1. Run(m, x + h, m[x + h - 1]) = [i \in 1 .. 2 |-> Cell(m, x + h + i - 1)]
    BY <1>11, <1>15 DEF Run, Longest
  <2>2. PICK r : r = [i \in 1 .. 2 |-> Cell(m, x + h + i - 1)]
    OBVIOUS
  <2>3. cut
    BY <1>8, <1>9, <1>10, <1>15
  <2>4. Clear(m, x + n)
    BY <1>3, <1>4, <1>8, <1>9, <1>15 DEF EntryAt
  <2>5. \A i \in 1 .. 2 : r[i] = Blank
    <3> SUFFICES ASSUME NEW i \in 1 .. 2 PROVE Cell(m, x + h + i - 1) = Blank
      BY <2>2
    <3>1. x + h + i - 1 >= x + n /\ x + h + i - 1 \in Nat
      BY <1>1, <1>8, <1>9, <1>15
    <3>2. x + h + i - 1 < Size => x + h + i - 1 \in Addr
      BY <1>9, <3>1 DEF Addr
    <3> QED
      BY <2>4, <3>1, <3>2 DEF Cell, Clear
  <2>6. Len(r) = 2 /\ r # <<>>
    BY <2>2
  <2>7. TornFrom(r, v)
    BY <2>5, <2>6 DEF TornFrom
  <2> QED
    BY <1>3, <1>4, <2>1, <2>2, <2>3, <2>6, <2>7 DEF Reads, NotFound
<1> QED
  BY <1>8, <1>9, <1>14, <1>15

\* Where get looks, and in what.
Found(p, m, k) ==
  IF p = "rp2040" THEN Rp2040Find(m, k) ELSE IF p = "stm32" THEN Stm32Find(m, k) ELSE ArduinoFind(m, k)

LEMMA FoundAnswers ==
  ASSUME NEW p \in {"rp2040", "stm32", "arduino"}, NEW G \in SUBSET Given, NEW m \in Memory, NEW S, NEW torn,
         NEW k \in Keys, Chain(p, G, m, S, torn)
  PROVE  Found(p, m, k) \in Answers(p, G, m, S, torn, k)
<1>1. CASE p = "rp2040"
  BY <1>1, Rp2040FindAnswers DEF Found
<1>2. CASE p = "stm32"
  BY <1>2, Stm32FindAnswers DEF Found
<1>3. CASE p = "arduino"
  BY <1>3, ArduinoFindAnswers DEF Found
<1> QED
  BY <1>1, <1>2, <1>3

LEMMA KeptIsFound ==
  ASSUME NEW p \in {"rp2040", "stm32", "arduino"}, NEW G \in SUBSET Given, NEW m \in Memory, NEW S, NEW torn,
         NEW k \in Keys, Chain(p, G, m, S, torn), Kept(p, G, m, S, k), p = "arduino" => NoZero(m, S)
  PROVE  Found(p, m, k) # Nowhere
<1>1. CASE p = "rp2040"
  BY <1>1, Rp2040FindKept DEF Found
<1>2. CASE p = "stm32"
  BY <1>2, Stm32FindKept DEF Found
<1>3. CASE p = "arduino"
  BY <1>3, ArduinoFindKept DEF Found
<1> QED
  BY <1>1, <1>2, <1>3

LEMMA GotInFlash ==
  ASSUME NEW k, port \in {"stm32", "arduino"}
  PROVE  Got(k) = LET x == Found(port, flash, k) IN IF x = Nowhere THEN NotFound ELSE Run(flash, x + 3, flash[x + 2])
BY DEF Got, Found

LEMMA GotInCopy ==
  ASSUME NEW k, port = "rp2040"
  PROVE  Got(k) = LET x == Found(port, shadow, k) IN
                  IF x = Nowhere \/ shadow[x + 1] > Longest THEN NotFound ELSE Run(shadow, x + 2, shadow[x + 1])
BY DEF Got, Found

LEMMA FlashServed ==
  FlashInv => AnswersWhatWasSet /\ AcknowledgedFound
<1> SUFFICES ASSUME FlashInv, NEW k \in Keys, job = NoJob
             PROVE  /\ Got(k) # NotFound => \E g \in given : g[1] = k /\ (Got(k) = g[2] \/ (cut /\ TornFrom(Got(k), g[2])))
                    /\ k \in acked => (port = "arduino" /\ wiped) \/ Got(k) # NotFound
  <2>1. acked \subseteq Keys \/ ~FlashInv
    BY TypeFacts DEF FlashInv
  <2> QED
    BY <2>1 DEF AnswersWhatWasSet, AcknowledgedFound
<1>1. /\ flash \in Memory /\ given \in SUBSET Given /\ port \in {"stm32", "arduino"} /\ wiped \in BOOLEAN
  BY TypeFacts DEF FlashInv
<1>2. PICK S \in SUBSET (0 .. Size) : OnFlash(S)
  BY DEF FlashInv
<1>3. /\ Chain(port, given, flash, S, Torn({})) /\ (port = "arduino" /\ ~wiped => NoZero(flash, S))
      /\ k \in acked => (port = "arduino" /\ wiped) \/ Kept(port, given, flash, S, k)
  BY <1>2 DEF OnFlash
<1>4. PICK x : x = Found(port, flash, k)
  OBVIOUS
<1>5. x \in Answers(port, given, flash, S, Torn({}), k)
  BY <1>1, <1>3, <1>4, FoundAnswers
<1>6. Got(k) = IF x = Nowhere THEN NotFound ELSE Run(flash, x + 3, flash[x + 2])
  BY <1>1, <1>4, GotInFlash
<1>7. x # Nowhere => Reads(given, flash, x, 3, k) /\ x + 3 - 1 = x + 2
  <2> SUFFICES ASSUME x # Nowhere PROVE Reads(given, flash, x, 3, k) /\ x + 3 - 1 = x + 2
    OBVIOUS
  <2>1. Reads(given, flash, x, Header(port), k)
    BY <1>1, <1>5, ValueRead
  <2>2. Header(port) = 3
    BY <1>1 DEF Header
  <2>3. x \in Nat
    <3>1. x \in S
      BY <1>5 DEF Answers
    <3> QED
      BY <3>1, StoreAssumption
  <2> QED
    BY <2>1, <2>2, <2>3
<1>8. x # Nowhere => Got(k) # NotFound /\ \E g \in given : g[1] = k /\ (Got(k) = g[2] \/ (cut /\ TornFrom(Got(k), g[2])))
  BY <1>6, <1>7 DEF Reads
<1>9. k \in acked => (port = "arduino" /\ wiped) \/ x # Nowhere
  <2> SUFFICES ASSUME k \in acked, ~(port = "arduino" /\ wiped) PROVE x # Nowhere
    OBVIOUS
  <2>1. Kept(port, given, flash, S, k) /\ (port = "arduino" => NoZero(flash, S))
    BY <1>1, <1>3
  <2> QED
    BY <1>1, <1>3, <1>4, <2>1, KeptIsFound
<1> QED
  BY <1>6, <1>8, <1>9

LEMMA CopyServed ==
  CopyInv => AnswersWhatWasSet /\ AcknowledgedFound
<1> SUFFICES ASSUME CopyInv, NEW k \in Keys, job = NoJob
             PROVE  /\ Got(k) # NotFound => \E g \in given : g[1] = k /\ (Got(k) = g[2] \/ (cut /\ TornFrom(Got(k), g[2])))
                    /\ k \in acked => cut \/ Got(k) # NotFound
  <2>1. (acked \subseteq Keys /\ port = "rp2040") \/ ~CopyInv
    BY TypeFacts DEF CopyInv
  <2> QED
    BY <2>1 DEF AnswersWhatWasSet, AcknowledgedFound
<1>1. /\ shadow \in Memory /\ given \in SUBSET Given /\ port = "rp2040"
  BY TypeFacts DEF CopyInv
<1>2. PICK S \in SUBSET (0 .. Size) : InShadow(S)
  BY DEF CopyInv
<1>3. /\ Chain(port, given, shadow, S, Torn({})) /\ (k \in acked => cut \/ Kept(port, given, shadow, S, k))
  BY <1>2 DEF InShadow
<1>4. PICK x : x = Found(port, shadow, k)
  OBVIOUS
<1>5. x \in Answers(port, given, shadow, S, Torn({}), k)
  BY <1>1, <1>3, <1>4, FoundAnswers
<1>6. Got(k) = IF x = Nowhere \/ shadow[x + 1] > Longest THEN NotFound ELSE Run(shadow, x + 2, shadow[x + 1])
  BY <1>1, <1>4, GotInCopy
<1>7. x # Nowhere => Reads(given, shadow, x, 2, k) /\ x + 2 - 1 = x + 1
  <2> SUFFICES ASSUME x # Nowhere PROVE Reads(given, shadow, x, 2, k) /\ x + 2 - 1 = x + 1
    OBVIOUS
  <2>1. Reads(given, shadow, x, Header(port), k)
    BY <1>1, <1>5, ValueRead
  <2>2. Header(port) = 2
    BY <1>1 DEF Header
  <2>3. x \in Nat
    <3>1. x \in S
      BY <1>5 DEF Answers
    <3> QED
      BY <3>1, StoreAssumption
  <2> QED
    BY <2>1, <2>2, <2>3
<1>8. Got(k) # NotFound => \E g \in given : g[1] = k /\ (Got(k) = g[2] \/ (cut /\ TornFrom(Got(k), g[2])))
  BY <1>6, <1>7 DEF Reads
<1>9. x # Nowhere /\ ~cut => Got(k) # NotFound
  <2> SUFFICES ASSUME x # Nowhere, ~cut PROVE Got(k) # NotFound
    OBVIOUS
  <2>1. shadow[x + 1] \in 1 .. 2 /\ Run(shadow, x + 2, shadow[x + 1]) # NotFound
    BY <1>7 DEF Reads, Longest
  <2>2. ~(shadow[x + 1] > Longest)
    BY <2>1 DEF Longest
  <2> QED
    BY <1>6, <2>1, <2>2
<1>10. k \in acked => cut \/ x # Nowhere
  BY <1>1, <1>3, <1>4, KeptIsFound
<1> QED
  BY <1>8, <1>9, <1>10

LEMMA StoreServed ==
  StoreInv => StoreTypeOK /\ AnswersWhatWasSet /\ AcknowledgedFound
<1>1. StoreInv => StoreTypeOK
  BY DEF StoreInv, FlashInv, CopyInv, LibraryInv, StoreTypes
<1>2. ASSUME LibraryInv, NEW k \in Keys
      PROVE  /\ Got(k) # NotFound => \E g \in given : g[1] = k /\ Got(k) = g[2]
             /\ k \in acked => Got(k) # NotFound
  <2>1. port = "esp32s3" /\ blobs \subseteq given /\ (k \in acked => \E v \in Values : <<k, v>> \in blobs)
    BY <1>2 DEF LibraryInv
  <2>2. Got(k) = IF \E v \in Values : <<k, v>> \in blobs THEN CHOOSE v \in Values : <<k, v>> \in blobs ELSE NotFound
    BY <2>1 DEF Got
  <2>3. CASE \E v \in Values : <<k, v>> \in blobs
    <3>1. PICK v : v = CHOOSE w \in Values : <<k, w>> \in blobs
      OBVIOUS
    <3>2. v \in Values /\ <<k, v>> \in blobs /\ Got(k) = v
      BY <2>2, <2>3, <3>1
    <3>3. v # <<>>
      <4>1. Len(v) \in 1 .. 2
        BY <3>2, StoreAssumption
      <4>2. Len(<<>>) = 0
        OBVIOUS
      <4> QED
        BY <4>1, <4>2
    <3>4. PICK g : g = <<k, v>>
      OBVIOUS
    <3>5. g \in given /\ g[1] = k /\ g[2] = v
      BY <2>1, <3>2, <3>4
    <3> QED
      BY <3>2, <3>3, <3>5 DEF NotFound
  <2>4. CASE ~ \E v \in Values : <<k, v>> \in blobs
    BY <2>1, <2>2, <2>4
  <2> QED
    BY <2>3, <2>4
<1>3. LibraryInv => AnswersWhatWasSet /\ AcknowledgedFound
  <2> SUFFICES ASSUME LibraryInv PROVE AnswersWhatWasSet /\ AcknowledgedFound
    OBVIOUS
  <2>1. acked \subseteq Keys
    BY TypeFacts DEF LibraryInv
  <2> QED
    BY <1>2, <2>1 DEF AnswersWhatWasSet, AcknowledgedFound
<1> QED
  BY <1>1, <1>3, FlashServed, CopyServed DEF StoreInv

(* For any keys, values and sizes of the region, on each of the four platforms: get answers
   with a value that was given to set for the key, or with the part of it that was written
   before a power loss; and a key whose set was answered with OK is found until it is erased,
   where AcknowledgedFound promises it. *)
THEOREM StoreAlwaysKeeps == HardwareSpec => []StoreKeeps
<1>1. HardwareInit => StoreInv
  BY StoreStart DEF HardwareInit
<1>2. StoreInv /\ [HardwareNext]_hardwareVars => StoreInv'
  <2>1. [HardwareNext]_hardwareVars => StoreNext \/ UNCHANGED storeVars
    BY DEF HardwareNext, hardwareVars, palVars
  <2> QED
    BY <2>1, StoreStep
<1>3. StoreInv => StoreKeeps
  BY StoreServed DEF StoreKeeps
<1> QED
  BY <1>1, <1>2, <1>3, PTL DEF HardwareSpec
=============================================================================
