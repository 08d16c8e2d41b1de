---- MODULE PalPins ----
(* GPIO interrupts in the platform abstraction layer: pal_gpio_set_interrupt,
   pal_gpio_remove_interrupt, pal_gpio_set_direction and the dispatchers of the four
   implementations.  A callback is known by the pin it was installed for.

   ESP32-S3 and RP2040 keep a table by pin.  The STM32 keeps one too, but its hardware has
   one interrupt line for all pins with the same number in their ports, and its dispatcher
   is told the line only.  The Arduino has a few slots, each with a wrapper of its own,
   because its interrupts carry no argument. *)
EXTENDS Naturals, FiniteSets, FiniteSetsExt

CONSTANTS
    PinPlatforms,  \* of "esp32s3", "rp2040", "stm32", "arduino"
    Pins,          \* the pins used
    LineWidth,     \* pins of a port, and so lines: 16 on the STM32
    NumIsrSlots,   \* slots of the Arduino table: PAL_ISR_SLOTS
    Interrupting,  \* the pins of the Arduino that have an interrupt
    NoPin

ASSUME PinsAssumption ==
    /\ Pins \subseteq Nat /\ NoPin \notin Pins
    /\ LineWidth \in Nat \ {0} /\ NumIsrSlots \in Nat \ {0}
    /\ PinPlatforms \subseteq {"esp32s3", "rp2040", "stm32", "arduino"}

VARIABLES
    plat,     \* the platform
    cbs,      \* the pins that have a callback in the table by pin
    slots,    \* the Arduino slots: the pin that uses one
    armed,    \* the interrupts the hardware raises: from a pin, to a wrapper's slot
    asked     \* the pins with an interrupt: set_interrupt was answered with OK, and since then
              \* it was not removed, nor the direction of an ESP32-S3 pin set

pinVars == <<plat, cbs, slots, armed, asked>>

IsrSlots == 0 .. NumIsrSlots - 1
Line(p) == p % LineWidth
Edges == {"edge", "level"}

PinsInit ==
    /\ plat \in PinPlatforms
    /\ cbs = {} /\ asked = {}
    /\ slots = [i \in IsrSlots |-> NoPin]
    /\ armed = {}

\* The hardware raises the interrupt of pin p, for the wrapper of slot i.
Raise(p, i) == [pin |-> p, slot |-> i]
Raised(p) == \E a \in armed : a.pin = p
Silent(p) == {a \in armed : a.pin # p}

InstallEsp32s3(p, e) ==
    /\ cbs' = cbs \cup {p} /\ armed' = armed \cup {Raise(p, 0)} /\ asked' = asked \cup {p}
    /\ UNCHANGED slots

(* Only the two edges have an event: a level arms nothing, and the answer is OK. *)
InstallRp2040(p, e) ==
    /\ cbs' = cbs \cup {p} /\ asked' = asked \cup {p}
    /\ armed' = IF e = "edge" THEN armed \cup {Raise(p, 0)} ELSE armed
    /\ UNCHANGED slots

(* The line is given to the port of the pin that was set last; a level is refused. *)
InstallStm32(p, e) ==
    /\ e = "edge"
    /\ cbs' = cbs \cup {p} /\ asked' = asked \cup {p}
    /\ armed' = {a \in armed : Line(a.pin) # Line(p)} \cup {Raise(p, 0)}
    /\ UNCHANGED slots

Mine(p) == {i \in IsrSlots : slots[i] = p}
Vacant == {i \in IsrSlots : slots[i] = NoPin}
SlotFor(p) == IF Mine(p) # {} THEN Min(Mine(p)) ELSE Min(Vacant)


(* The slot is filled before the pin is looked at: it stays taken when the pin has no
   interrupt and the answer is an error. *)
InstallArduino(p, e) ==
    /\ Mine(p) \cup Vacant # {}
    /\ LET i == SlotFor(p) IN
       /\ slots' = [slots EXCEPT ![i] = p]
       /\ IF p \in Interrupting
          THEN armed' = Silent(p) \cup {Raise(p, i)} /\ asked' = asked \cup {p}
          ELSE UNCHANGED <<armed, asked>>
    /\ UNCHANGED cbs

SetInterrupt(p) ==
    /\ \E e \in Edges :
         \/ plat = "esp32s3" /\ InstallEsp32s3(p, e)
         \/ plat = "rp2040" /\ InstallRp2040(p, e)
         \/ plat = "stm32" /\ InstallStm32(p, e)
         \/ plat = "arduino" /\ InstallArduino(p, e)
    /\ UNCHANGED plat

(* Mutated form of RemoveInterrupt: the slot is freed and the hardware left armed. *)
RemoveArmed(p) ==
    /\ armed' = armed
    /\ cbs' = cbs \ {p}
    /\ slots' = [i \in IsrSlots |-> IF slots[i] = p THEN NoPin ELSE slots[i]]
    /\ asked' = asked \ {p}
    /\ UNCHANGED plat

RemoveInterrupt(p) ==
    /\ armed' = Silent(p)
    /\ cbs' = cbs \ {p}
    /\ slots' = [i \in IsrSlots |-> IF slots[i] = p THEN NoPin ELSE slots[i]]
    /\ asked' = asked \ {p}
    /\ UNCHANGED plat

(* set_direction, which every bit of the one-wire protocol calls.  On the ESP32-S3 it
   configures the whole pin, and the interrupt type with it: off. *)
SetDirection(p) ==
    /\ plat = "esp32s3"
    /\ armed' = Silent(p)
    /\ asked' = asked \ {p}
    /\ UNCHANGED <<plat, cbs, slots>>

PinsNext == \E p \in Pins : SetInterrupt(p) \/ RemoveInterrupt(p) \/ SetDirection(p)

(* The callbacks an interrupt of pin p runs: at most one. *)
Called(p) ==
    IF ~Raised(p) THEN {}
    ELSE CASE plat \in {"esp32s3", "rp2040"} -> cbs \cap {p}
           [] plat = "stm32" -> LET S == {q \in cbs : Line(q) = Line(p)} IN IF S = {} THEN {} ELSE {Min(S)}
           [] plat = "arduino" -> {slots[a.slot] : a \in {b \in armed : b.pin = p}} \ {NoPin}

-----------------------------------------------------------------------------

PinsTypeOK ==
    /\ plat \in PinPlatforms
    /\ cbs \subseteq Pins /\ asked \subseteq Pins
    /\ slots \in [IsrSlots -> Pins \cup {NoPin}]
    /\ armed \subseteq [pin : Pins, slot : IsrSlots]

LineShared(p) == \E q \in Pins \ {p} : Line(q) = Line(p)

(* An interrupt runs the callback installed for its pin and no other, however the slots
   and the table were reused; and a pin whose interrupt was asked for and not removed has it,
   whatever became of the others.  On the STM32 this is so for a pin with a line of its own:
   of two pins on a line the second takes the line, and to remove it does not give the line
   back.  The RP2040 arms nothing for a level, and answers OK. *)
OwnCallback ==
    \A p \in Pins : (plat = "stm32" => ~LineShared(p)) =>
        /\ Called(p) \subseteq {p}
        /\ p \in asked /\ plat # "rp2040" => Called(p) = {p}
====
