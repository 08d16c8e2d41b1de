---- MODULE Drivers ----
(* The driver registry (main/drivers/driver_registry.c) and the drivers behind it.

   The registry keeps one slot per device of the board.  Its passes driver_registry_init_all
   and driver_registry_deinit_all call init and deinit of one driver after the other, and
   each call takes milliseconds to seconds, so that a program running on the scheduler's
   task may read and write between two of them.

   A handle carries the index of the REGISTRY slot; a driver uses it as an index into the
   array of its OWN instances, which it fills in the order in which its inits succeed and
   never shortens.  Which device a slot reaches therefore depends on the whole board, on
   the inits that failed and on the passes made before.

   The registry has no caller yet but its initialisation (app_main.c): the caller assumed
   here registers the whole board, then makes passes one at a time. *)
EXTENDS Naturals, Sequences

CONSTANTS
    NumSlots,   \* registry slots looked at, of SYS_MAX_DEVICES
    Types,      \* the drivers
    Drv,        \* their records, see DriverTable
    NoDriver,   \* a slot of the board that is not used, a resource without owner
    Boards,     \* the boards: a driver or NoDriver for every slot
    MaxPasses   \* bound: passes of init_all

Slots == 0 .. NumSlots - 1
Kinds == {"measured", "held", "invented", "error"}

ASSUME NumSlotsAssumption == NumSlots \in Nat \ {0} /\ MaxPasses \in Nat
ASSUME NoDriverAssumption == NoDriver \notin Types
ASSUME BoardsAssumption == Boards \subseteq [Slots -> Types \cup {NoDriver}]
ASSUME DrvAssumption ==
    Drv \in [Types -> [max : Nat \ {0}, index : {"fold", "reject", "single"},
                       needs : SUBSET {"hw", "isr", "adc"}, wants : SUBSET {"isr"},
                       installs : BOOLEAN, timer : (0 .. 3) \X Nat,
                       reads : {"device", "paced", "kept", "none"},
                       onFail : SUBSET {"error", "stale", "madeup"}, checked : BOOLEAN,
                       accepts : SUBSET {"write", "pwm", "text", "value"},
                       deinit : {"counted", "live", "first", "always"},
                       off : BOOLEAN, frees : BOOLEAN]]

\* What deinit switches off or deletes is the instance of the handle.
ASSUME DeinitAssumption ==
    \A t \in Types : Drv[t].off \/ Drv[t].frees =>
        Drv[t].index # "single" /\ Drv[t].deinit \in {"counted", "live"}

VARIABLES
    board,    \* the driver of every slot
    reg,      \* the slots: "absent", "known" (registered) or "up" (initialized)
    pass,     \* the pass under way and the slot it has come to
    begun,    \* passes of init_all begun
    failed,   \* the drivers of which an init has failed
    inst,     \* the instances of every driver; their number is its s_count
    adc,      \* the driver that has claimed the ADC unit
    isr,      \* the interrupt service is installed
    rate,     \* the rate of the LEDC timers, 0 when not configured
    timed,    \* the drivers that have configured their timer
    faulty,   \* the devices that may fail a call
    out,      \* the outputs that are switched on
    reply,    \* the last read: the slot asked, the device that answered and with what
    misuse    \* a channel has been used after its deletion

vars == <<board, reg, pass, begun, failed, inst, adc, isr, rate, timed, faulty, out, reply, misuse>>

Instance == [dev : Slots, live : BOOLEAN, held : BOOLEAN, wired : BOOLEAN, open : BOOLEAN]

D(i) == Drv[board[i]]
Own(i) == inst[board[i]]

(* Mutated form of Serves: the slots are taken to count from one. *)
ServesBelow(i) == IF i > 0 /\ i <= Len(Own(i)) THEN i ELSE 1

(* The instance that a read or a write through slot i selects, 0 when it is refused. *)
Serves(i) ==
    IF D(i).index = "single" THEN 1
    ELSE IF i < Len(Own(i)) THEN i + 1
    ELSE IF D(i).index = "fold" THEN 1 ELSE 0

(* Mutated form of Ends: deinit works on the first instance, whatever the handle. *)
EndsFirst(i) == IF Own(i) = <<>> THEN 0 ELSE 1

(* The instance that deinit through slot i works on, 0 for none. *)
Ends(i) ==
    IF D(i).deinit \in {"always", "first"} THEN 1
    ELSE IF i >= Len(Own(i)) THEN 0
    ELSE IF D(i).deinit = "counted" \/ Own(i)[i + 1].live THEN i + 1 ELSE 0

Init ==
    /\ board \in Boards
    /\ reg = [i \in Slots |-> "absent"]
    /\ pass = [kind |-> "idle", pos |-> 0]
    /\ begun = 0
    /\ failed = {}
    /\ inst = [t \in Types |-> <<>>]
    /\ adc = NoDriver
    /\ isr = FALSE
    /\ rate = [k \in 0 .. 3 |-> 0]
    /\ timed = {}
    /\ faulty = {}
    /\ out = [i \in Slots |-> FALSE]
    /\ reply = [slot |-> 0, dev |-> 0, kind |-> "error"]
    /\ misuse = FALSE

----
(* driver_registry_register, as boot calls it for every device of the board. *)
Register(i) ==
    /\ board[i] # NoDriver /\ reg[i] = "absent" /\ pass.kind = "idle"
    /\ reg' = [reg EXCEPT ![i] = "known"]
    /\ UNCHANGED <<board, pass, begun, failed, inst, adc, isr, rate, timed, faulty, out, reply, misuse>>

(* A pass begins; boot has registered the whole board. *)
BeginPass(kind) ==
    /\ pass.kind = "idle"
    /\ \A i \in Slots : board[i] # NoDriver => reg[i] # "absent"
    /\ kind = "init" => begun < MaxPasses
    /\ pass' = [kind |-> kind, pos |-> 0]
    /\ begun' = IF kind = "init" THEN begun + 1 ELSE begun
    /\ UNCHANGED <<board, reg, failed, inst, adc, isr, rate, timed, faulty, out, reply, misuse>>

(* The pass goes on to the next slot, over those it has nothing to do for. *)
NextSlot == pass' = [pass EXCEPT !.pos = pass.pos + 1]

SkipSlot(i) ==
    /\ pass.kind # "idle" /\ pass.pos = i
    /\ reg[i] = "absent" \/ (pass.kind = "deinit" /\ reg[i] # "up")
    /\ NextSlot
    /\ UNCHANGED <<board, reg, begun, failed, inst, adc, isr, rate, timed, faulty, out, reply, misuse>>

EndPass ==
    /\ pass.kind # "idle" /\ pass.pos = NumSlots
    /\ pass' = [kind |-> "idle", pos |-> 0]
    /\ UNCHANGED <<board, reg, begun, failed, inst, adc, isr, rate, timed, faulty, out, reply, misuse>>

(* What init of slot i claims of the resources that the drivers share. *)
Claim(i) ==
    /\ adc' = IF "adc" \in D(i).needs THEN board[i] ELSE adc
    /\ isr' = (isr \/ D(i).installs)
    /\ IF D(i).timer[2] = 0 \/ board[i] \in timed
       THEN UNCHANGED <<rate, timed>>
       ELSE /\ rate' = [rate EXCEPT ![D(i).timer[1]] = D(i).timer[2]]
            /\ timed' = timed \cup {board[i]}

Full(i) == D(i).index # "single" /\ Len(Own(i)) >= D(i).max

(* The shared resource that init of slot i needs and cannot have. *)
Missing(i) ==
    \/ "adc" \in D(i).needs /\ adc \notin {NoDriver, board[i]}
    \/ "isr" \in D(i).needs /\ ~ isr /\ ~ D(i).installs

(* init returns ESP_OK: the instance at s_count is the device of slot i from now on. *)
InitOk(i) ==
    /\ pass.kind = "init" /\ pass.pos = i /\ reg[i] # "absent"
    /\ ~ Full(i) /\ ~ Missing(i)
    /\ Claim(i)
    /\ LET usesIsr == "isr" \in D(i).needs \cup D(i).wants
           new == [dev |-> i, live |-> TRUE, held |-> FALSE,
                   wired |-> usesIsr => isr', open |-> D(i).frees]
       IN inst' = [inst EXCEPT ![board[i]] =
                     IF D(i).index = "single" THEN <<new>> ELSE Append(@, new)]
    /\ out' = [out EXCEPT ![i] = FALSE]
    /\ reg' = [reg EXCEPT ![i] = "up"]
    /\ NextSlot
    /\ UNCHANGED <<board, begun, failed, faulty, reply, misuse>>

(* init gives up, before or after it has claimed what it shares; the instance at
   s_count stays unused and the slot keeps the flag it had. *)
InitFails(i) ==
    /\ pass.kind = "init" /\ pass.pos = i /\ reg[i] # "absent"
    /\ Full(i) \/ Missing(i) \/ (i \in faulty /\ "hw" \in D(i).needs)
    /\ \/ UNCHANGED <<adc, isr, rate, timed>>
       \/ ~ Full(i) /\ ~ Missing(i) /\ Claim(i)
    /\ failed' = failed \cup {board[i]}
    /\ NextSlot
    /\ UNCHANGED <<board, reg, begun, inst, faulty, out, reply, misuse>>

(* deinit, and the registry clears the flag whatever deinit found. *)
Deinit(i) ==
    /\ pass.kind = "deinit" /\ pass.pos = i /\ reg[i] = "up"
    /\ IF Ends(i) = 0 THEN UNCHANGED <<inst, out, misuse>>
       ELSE /\ inst' = [inst EXCEPT ![board[i]][Ends(i)] = [@ EXCEPT !.live = FALSE, !.open = FALSE]]
            /\ out' = IF D(i).off THEN [out EXCEPT ![Own(i)[Ends(i)].dev] = FALSE] ELSE out
            /\ misuse' = (misuse \/ (D(i).frees /\ ~ Own(i)[Ends(i)].open))
    /\ reg' = [reg EXCEPT ![i] = "known"]
    /\ NextSlot
    /\ UNCHANGED <<board, begun, failed, adc, isr, rate, timed, faulty, reply>>

----
Hold(i, k, h) == inst' = [inst EXCEPT ![board[i]][k] = [@ EXCEPT !.held = h]]
Answer(i, k, kind) == reply' = [slot |-> i, dev |-> Own(i)[k].dev, kind |-> kind]

(* What the instance holds: a measurement, or the value init put there. *)
Held(x) == IF x.held THEN "held" ELSE "invented"

(* A read that fetches a value: the device answers, or fails when it is faulty. *)
Fetch(i, k) ==
    \/ Answer(i, k, "measured") /\ Hold(i, k, TRUE)
    \/ /\ Own(i)[k].dev \in faulty
       /\ \/ "error" \in D(i).onFail /\ Answer(i, k, "error") /\ UNCHANGED inst
          \/ "stale" \in D(i).onFail /\ Answer(i, k, Held(Own(i)[k])) /\ UNCHANGED inst
          \/ "madeup" \in D(i).onFail /\ Answer(i, k, "invented") /\ Hold(i, k, FALSE)

(* OP_DRV_READ of the VM, and the read of the driver it calls. *)
Read(i) ==
    /\ reg[i] = "up"
    /\ LET k == Serves(i) IN
       IF k = 0 \/ D(i).reads = "none" \/ (D(i).checked /\ ~ Own(i)[k].live)
       THEN reply' = [slot |-> i, dev |-> i, kind |-> "error"] /\ UNCHANGED inst
       ELSE \/ D(i).reads \in {"device", "paced"} /\ Fetch(i, k)
            \/ D(i).reads = "paced" /\ Answer(i, k, Held(Own(i)[k])) /\ UNCHANGED inst
            \/ /\ D(i).reads = "kept"
               /\ Answer(i, k, IF Own(i)[k].live /\ Own(i)[k].wired THEN "measured" ELSE "held")
               /\ UNCHANGED inst
    /\ UNCHANGED <<board, reg, pass, begun, failed, adc, isr, rate, timed, faulty, out, misuse>>

(* OP_DRV_WRITE, OP_DRV_PWM, OP_DISP_TEXT and OP_DISP_VAL, when the driver obeys; a
   command it refuses changes nothing here. *)
Write(i, command, on) ==
    /\ reg[i] = "up" /\ command \in D(i).accepts
    /\ Serves(i) # 0 /\ Own(i)[Serves(i)].live
    /\ out' = [out EXCEPT ![Own(i)[Serves(i)].dev] = on]
    /\ UNCHANGED <<board, reg, pass, begun, failed, inst, adc, isr, rate, timed, faulty, reply, misuse>>

(* A device begins to fail calls, or works again. *)
Fault(i) ==
    /\ board[i] # NoDriver
    /\ faulty' = IF i \in faulty THEN faulty \ {i} ELSE faulty \cup {i}
    /\ UNCHANGED <<board, reg, pass, begun, failed, inst, adc, isr, rate, timed, out, reply, misuse>>

Next ==
    \/ \E kind \in {"init", "deinit"} : BeginPass(kind)
    \/ EndPass
    \/ \E i \in Slots :
          \/ Register(i)
          \/ SkipSlot(i)
          \/ InitOk(i)
          \/ InitFails(i)
          \/ Deinit(i)
          \/ Read(i)
          \/ \E command \in {"write", "pwm", "text", "value"}, on \in BOOLEAN : Write(i, command, on)
          \/ Fault(i)

Spec == Init /\ [][Next]_vars

----
TypeOK ==
    /\ board \in Boards
    /\ reg \in [Slots -> {"absent", "known", "up"}]
    /\ pass \in [kind : {"idle", "init", "deinit"}, pos : 0 .. NumSlots]
    /\ begun \in 0 .. MaxPasses
    /\ failed \subseteq Types
    /\ inst \in [Types -> Seq(Instance)]
    /\ adc \in Types \cup {NoDriver}
    /\ isr \in BOOLEAN
    /\ rate \in [0 .. 3 -> Nat]
    /\ timed \subseteq Types
    /\ faulty \subseteq Slots
    /\ out \in [Slots -> BOOLEAN]
    /\ reply \in [slot : Slots, dev : Slots, kind : Kinds]
    /\ misuse \in BOOLEAN

(* The only device of its driver. *)
Sole(i) == \A j \in Slots : board[j] = board[i] => j = i

(* The devices of the driver of slot i take the first slots, and it has room for them. *)
Leading(i) ==
    \A j \in Slots : board[j] = board[i] => j < D(i).max /\ \A h \in 0 .. j : board[h] = board[i]

(* One pass of init_all, in which every device of the driver of slot i came up. *)
Smooth(i) == begun <= 1 /\ board[i] \notin failed

(* A read through the slot of the only device of a driver is never answered by another
   device, and neither is one where the devices of a driver come first on the board and
   all came up in the first pass: the drivers index their instances by the slot of the
   registry (h.driver_index), so on other boards it may be. *)
OwnDevice ==
    LET i == reply.slot IN
    /\ board[i] # NoDriver /\ reply.kind # "error"
    /\ Sole(i) \/ (Leading(i) /\ Smooth(i) /\ D(i).index # "single")
    => reply.dev = i

(* On such a board a slot that is up can be served: its handle selects its own instance,
   that instance is initialized, and if its value comes from an interrupt that init must
   have, the interrupt is there.  A driver that folds serves its only device wherever it
   is on the board. *)
Serviceable ==
    \A i \in Slots :
       /\ reg[i] = "up" /\ Smooth(i) /\ D(i).index # "single"
       /\ Leading(i) \/ (Sole(i) /\ D(i).index = "fold")
       => /\ Serves(i) # 0
          /\ LET x == Own(i)[Serves(i)] IN
             x.dev = i /\ x.live /\ ("isr" \in D(i).needs => x.wired)

(* On such a board an output is on only while its driver is up: deinit of a slot reaches
   the instance that drives the output of the slot (solenoid_deinit: "close valve on
   deinit"). *)
OffWhenDown ==
    \A i \in Slots :
       out[i] /\ Leading(i) /\ Smooth(i) /\ D(i).index # "single" /\ D(i).off => reg[i] = "up"

(* Nobody on the board asks for another rate of the timer of t. *)
Agreed(t) ==
    \A i \in Slots :
       board[i] # NoDriver /\ D(i).timer[2] # 0 /\ D(i).timer[1] = Drv[t].timer[1]
       => D(i).timer = Drv[t].timer

(* What the drivers share is theirs while they use it.  Every instance that reads the ADC
   belongs to the driver that claimed the unit, as the analogue drivers each ask for it
   under a handle of their own (s_adc_handle); and an LEDC output runs at the rate its
   driver asks for unless the board has a driver that asks the same timer for another, as
   fan_pwm ("LEDC timer 3, 25 kHz") and mosfet do: the timer is set once per driver. *)
SharedResources ==
    \A t \in Types : inst[t] # <<>> =>
       /\ "adc" \in Drv[t].needs => adc = t
       /\ Drv[t].timer[2] # 0 /\ Agreed(t) => rate[Drv[t].timer[1]] = Drv[t].timer[2]

(* In the first life of the drivers no channel is used after its deletion: the registry
   calls deinit of a slot once and lets nobody use it afterwards. *)
DeletedChannelUntouched == begun <= 1 => ~ misuse

(* What a slot reaches: its own device, over the resources it shares with the others. *)
SlotsServed == TypeOK /\ OwnDevice /\ Serviceable /\ SharedResources

(* What deinit leaves behind: no output that is on, no channel that is deleted again. *)
LeftClean == OffWhenDown /\ DeletedChannelUntouched

(* "Turn off relay (safe state) before de-initializing": once every driver is down, no
   output is on. *)
DeinitSwitchesOff ==
    pass.kind = "idle" /\ (\A i \in Slots : reg[i] # "up") => \A i \in Slots : ~ out[i]
====
