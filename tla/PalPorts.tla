---- MODULE PalPorts ----
(* The ports of the platform abstraction layer: the buses, the UARTs, the PWM and ADC
   channels and the I2S ports of hal/*/pal_impl, opened (pal_*_init), closed
   (pal_*_deinit) and set to another rate (pal_pwm_set_freq).

   A platform keeps a flag or a handle for each port; the hardware behind a port is a unit
   that several ports may share.  A port is used by code that sees the answers of the
   calls only: "user" is what that code may believe.

   The implementations of two peripherals share no state, nor do those of two platforms:
   "row" is the peripheral of one platform, one of Rows, and never changes. *)
EXTENDS Naturals

CONSTANTS
    Rows,      \* the peripherals of the platforms, the records of PalTable
    Settings,  \* speeds, rates, pins: what a port is asked for
    Unset      \* no setting

ASSUME UnsetAssumption == Unset \notin Settings

VARIABLES
    row,     \* the peripheral
    flag,    \* the ports whose flag or handle is set
    user,    \* what the last init of a port was asked for and answered with OK
    slot,    \* the units a port is driven by: of an RP2040 channel, kept in a table
    on,      \* the units that are switched on
    speed,   \* the setting a unit has, or the handle remembers
    latest   \* the port that set a unit last

portVars == <<row, flag, user, slot, on, speed, latest>>

Units == 0 .. 4

(* Where init looks at the flag of a port, the driver behind the flag is the port's own, and
   off when the device starts.  The ports of a table that init fills are the channels of the
   slices, two of each.  A rate is stored in a variable where init only sets the handle. *)
ASSUME RowsAssumption ==
    \A r \in Rows :
        /\ r.power \in [r.ports -> Units] /\ r.clock \in [r.ports -> Units]
        /\ r.init \in {"kept", "install"} =>
              ~r.boot /\ \A p \in r.ports : \A q \in r.ports \ {p} : r.power[q] # r.power[p]
        /\ r.zeroed => /\ r.init = "always"
                       /\ \A p \in r.ports : r.power[p] = 0 => \E q \in r.ports \ {p} : r.power[q] = 0
        /\ r.tune = "stored" => r.init = "handle"

Ports == row.ports
Power(p) == row.power[p]
Clock(p) == row.clock[p]

PortsInit ==
    /\ row \in Rows
    /\ flag = {}
    /\ user = [p \in Ports |-> Unset]
    /\ slot = [p \in Ports |-> IF row.zeroed THEN [power |-> 0, clock |-> 0]
                            ELSE [power |-> Power(p), clock |-> Clock(p)]]
    /\ on = IF row.boot THEN Units ELSE {}
    /\ \E s \in Settings : speed = [u \in Units |-> IF row.boot THEN s ELSE Unset]
    /\ latest = [u \in Units |-> Unset]

(* What init does to the hardware of port p asked for s, when all goes well. *)
Configured(p, s) ==
    /\ on' = on \cup {Power(p)}
    /\ speed' = [speed EXCEPT ![Clock(p)] = s]
    /\ latest' = [latest EXCEPT ![Clock(p)] = p]
    /\ slot' = [slot EXCEPT ![p] = [power |-> Power(p), clock |-> Clock(p)]]

(* The configuration is left out: the port has its flag already, the handle remembers
   the setting asked for, or the code takes the unit as the board's start-up left it. *)
Skips(p, s) ==
    \/ row.init = "kept" /\ p \in flag
    \/ row.init = "changed" /\ speed[Clock(p)] = s
    \/ row.init = "handle"

Open(p, s) ==
    /\ row.init # "absent"
    /\ ~(row.init = "install" /\ p \in flag)
    /\ IF Skips(p, s) THEN UNCHANGED <<slot, on, speed, latest>> ELSE Configured(p, s)
    /\ flag' = flag \cup {p}
    /\ user' = [user EXCEPT ![p] = s]
    /\ UNCHANGED row

(* A configuration that fails.  It may have come as far as the setting and have switched
   the unit off; the handle of "changed" was taken before, and remembers the setting.
   The I2S code of the ESP32-S3 looks at no result, and has a handle when the channel was
   made and only its mode or its start failed. *)
OpenFails(p, s) ==
    /\ row.fails /\ ~Skips(p, s)
    /\ ~(row.init = "install" /\ p \in flag)
    /\ on' \in {on, on \ {Power(p)}}
    /\ row.init = "changed" => on' = on \ {Power(p)}
    /\ \/ speed' = [speed EXCEPT ![Clock(p)] = s] /\ latest' = [latest EXCEPT ![Clock(p)] = p]
       \/ row.init # "changed" /\ UNCHANGED <<speed, latest>>
    /\ CASE row.init = "changed" -> flag' = flag \cup {p}
         [] ~row.honest -> flag' \in {flag, flag \cup {p}}
         [] OTHER -> flag' = flag
    /\ user' = [user EXCEPT ![p] = IF row.honest THEN Unset ELSE s]
    /\ UNCHANGED <<row, slot>>

(* Mutated form of Close: the flag stays set. *)
CloseKeepsFlag(p) ==
    /\ row.close # "none" /\ row.init # "absent"
    /\ row.strict => p \in flag
    /\ flag' = flag
    /\ on' = IF row.close = "off" THEN on \ {slot[p].power} ELSE on
    /\ user' = [user EXCEPT ![p] = Unset]
    /\ UNCHANGED <<row, slot, speed, latest>>

Close(p) ==
    /\ row.close # "none" /\ row.init # "absent"
    /\ row.strict => p \in flag
    /\ flag' = flag \ {p}
    /\ on' = IF row.close = "off" THEN on \ {slot[p].power} ELSE on
    /\ user' = [user EXCEPT ![p] = Unset]
    /\ UNCHANGED <<row, slot, speed, latest>>

Tune(p, s) ==
    /\ row.tune # "none"
    /\ row.tune # "free" => p \in flag
    /\ IF row.tune = "stored" THEN UNCHANGED <<speed, latest>>
       ELSE /\ speed' = [speed EXCEPT ![slot[p].clock] = s]
            /\ latest' = [latest EXCEPT ![slot[p].clock] = p]
    /\ user' = [user EXCEPT ![p] = IF user[p] = Unset THEN Unset ELSE s]
    /\ UNCHANGED <<row, flag, slot, on>>

PortsNext ==
    \E p \in Ports :
        \/ Close(p)
        \/ \E s \in Settings : Open(p, s) \/ OpenFails(p, s) \/ Tune(p, s)

(* A read or a write on port p: it is refused, it goes to a unit that is off, or it is
   carried out. *)
Outcome(p) ==
    CASE row.guarded /\ p \notin flag -> "refused"
      [] slot[p].power \notin on -> "lost"
      [] OTHER -> "done"

-----------------------------------------------------------------------------

PortsTypeOK ==
    /\ row \in Rows
    /\ flag \subseteq Ports
    /\ user \in [Ports -> Settings \cup {Unset}]
    /\ slot \in [Ports -> [power : Units, clock : Units]]
    /\ on \subseteq Units
    /\ speed \in [Units -> Settings \cup {Unset}]
    /\ latest \in [Units -> Ports \cup {Unset}]

Shared(p) == \E q \in Ports \ {p} : Power(q) = Power(p) \/ slot[q].power = Power(p)

(* A port its user opened serves it: an operation on it is carried out.  Left out are the
   three ways in which the platforms really break this: another port has the same unit,
   and its deinit switches it off for both; the init of an STM32 bus compares the setting
   and configures nothing after a deinit; an init that reports no failure. *)
OpenServes ==
    \A p \in Ports :
        user[p] # Unset /\ ~Shared(p) /\ row.init \notin {"changed", "handle"} /\ row.honest
            => Outcome(p) = "done"

(* Where init looks at the flag of the port, the flag says whether the driver is there:
   otherwise the port could be neither used nor opened again. *)
FlagTellsDriver ==
    row.init \in {"kept", "install"} /\ row.honest /\ row.close = "off" =>
        \A p \in Ports : p \in flag <=> Power(p) \in on

(* The port that set a unit last, and is open, has the setting it was told it has: across
   shared timers and slices, reopened buses and failed calls.  (An RP2040 or ESP32-S3 bus
   that is opened twice keeps the first setting and answers OK; an STM32 SPI bus and an
   Arduino PWM channel never take one.) *)
SettingInForce ==
    row.init \in {"always", "changed", "install"} /\ row.honest =>
        \A p \in Ports :
            user[p] # Unset /\ latest[Clock(p)] = p => speed[Clock(p)] = user[p]

(* Every platform provides the same functions (parakram_pal.h:5): an init that answers OK
   leaves a port that works, whatever calls were made before. *)
InitMeansReady == \A p \in Ports : user[p] # Unset => Outcome(p) # "lost"
====
