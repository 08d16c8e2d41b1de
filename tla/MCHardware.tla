------------------------------ MODULE MCHardware -------------------------------
(* Instances of Hardware for TLC: boards with the real drivers of DriverTable, and the
   platforms of PalTable with values of one and of two cells. *)
EXTENDS DriverTable, PalTable, Hardware

TableOf == [t \in Types |-> Table[t]]
AllDrivers == DOMAIN Table

(* A board with t in its first two slots, and one with t behind another driver. *)
Twice(t) == [i \in Slots |-> IF i < 2 THEN t ELSE NoDriver]
Behind(t, first) == [i \in Slots |-> IF i = 1 THEN t ELSE IF i = 0 THEN first ELSE NoDriver]

(* Every driver twice; every driver that drives an output behind a sensor; the drivers
   that share the ADC unit, the interrupt service or a timer side by side; three of a
   driver of which only two fit; two of a driver behind another, with a gap. *)
AllBoards ==
    {Twice(t) : t \in Types}
    \cup {Behind(t, "aht20") : t \in {u \in Types : Table[u].accepts # {} \/ Table[u].frees}}
    \cup {Behind("rain", "ph"), Behind("reed", "pir"), Behind("pir", "reed"), Behind("fan_pwm", "mosfet"),
          Behind("yf_s201", "reed"), Behind("drv8833", "motor_dc")}
    \cup {[i \in Slots |-> "bme280"], [i \in Slots |-> IF i = 0 THEN "bme280" ELSE "relay"]}

OutputBoards == {Behind("relay", "aht20"), Twice("relay")}

AllRows == {Peripherals[f][b] : f \in DOMAIN Peripherals, b \in {"esp32s3", "rp2040", "stm32", "arduino"}}
ShortAndLong == {<<1>>, <<2, 3>>}

(* What is not exercised stays in its first state, which may be any one of them. *)
MCInit ==
    /\ HardwareInit
    /\ part # "drivers" => board = Twice("relay")
    /\ part # "ports" => row = Esp32s3I2c /\ speed = [u \in Units |-> Unset]
    /\ part # "pins" => plat = "esp32s3"
    /\ part # "store" => port = "esp32s3"

MCSpec == MCInit /\ [][HardwareNext]_hardwareVars
================================================================================
