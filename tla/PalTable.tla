---- MODULE PalTable ----
(* The platform abstraction layer (hal/include/parakram_pal.h) is one header and four
   implementations.  Here every peripheral of every platform is one record of what its
   code decides; the module PalPorts gives the records their behaviour.

   ports   the ports, buses or channels init accepts, of those the model looks at
   init    "always" configures the hardware; "kept" does nothing when the port's flag is
           set; "changed" takes the handle, and configures only when the handle remembers
           another setting; "handle" only sets the flag; "install" fails when the driver
           is there; "absent" has no such function or refuses every call
   fails   the configuration may fail
   honest  a failure is reported
   power   the unit that serves a port and is switched on and off with it
   clock   the unit that holds the setting (the speed or the rate) of a port
   zeroed  the unit of a port is read from a table that init fills: before, it is unit 0
   guarded an operation is refused when the flag of its port is not set
   close   "off" switches the unit off, "mark" clears the flag only, "none": no deinit
   strict  deinit is refused when the flag is not set
   tune    set_freq: "set", "stored" (kept in a variable only), "free" (the flag is not
           asked), "none"
   boot    the unit is on before init, configured by the board's start-up code *)
EXTENDS Naturals

Itself(p) == p
One(p) == 0

(* Ports 0 and 1 stand for the buses; the PWM channels are 0, 1 and 4, of which pairs
   share a timer or a slice on one platform or another. *)
Buses == {0, 1}
Channels == {0, 1, 4}
UartPorts == {0, 1, 2}
Each(f(_), S) == [p \in S |-> f(p)]

Shape(ports, init) ==
    [ports |-> ports, init |-> init, fails |-> FALSE, honest |-> TRUE,
     power |-> Each(Itself, ports), clock |-> Each(Itself, ports), zeroed |-> FALSE,
     guarded |-> TRUE, close |-> "off", strict |-> FALSE, tune |-> "none", boot |-> FALSE]
Absent == Shape(Buses, "absent")

Esp32s3I2c == [Shape(Buses, "kept") EXCEPT !.fails = TRUE]
Rp2040I2c == Shape(Buses, "kept")
Stm32I2c == [Shape(Buses, "changed") EXCEPT !.fails = TRUE, !.strict = TRUE, !.boot = TRUE]
ArduinoI2c == [Shape(Buses, "always") EXCEPT
                 !.power = Each(One, Buses), !.clock = Each(One, Buses), !.guarded = FALSE, !.boot = TRUE]

Esp32s3Spi == Absent
Rp2040Spi == [Shape(Buses, "always") EXCEPT !.guarded = FALSE]
Stm32Spi == [Shape(Buses, "handle") EXCEPT !.strict = TRUE, !.boot = TRUE]
ArduinoSpi == [Shape(Buses, "always") EXCEPT !.power = Each(One, Buses), !.guarded = FALSE]

Esp32s3Timer(c) == c % 4
Esp32s3Pwm == [Shape(Channels, "always") EXCEPT !.fails = TRUE, !.clock = Each(Esp32s3Timer, Channels), !.tune = "set"]
(* The caller drives channel c on pin c: two neighbouring pins have one slice. *)
Rp2040Slice(c) == c \div 2
Rp2040Pwm == [Shape(Channels, "always") EXCEPT
                !.power = Each(Rp2040Slice, Channels), !.clock = Each(Rp2040Slice, Channels),
                !.zeroed = TRUE, !.guarded = FALSE, !.tune = "free"]
Stm32Timer(c) == c \div 4
Stm32Pwm == [Shape(Channels, "always") EXCEPT !.clock = Each(Stm32Timer, Channels), !.strict = TRUE, !.tune = "set"]
ArduinoPwm == [Shape(Channels, "handle") EXCEPT !.close = "mark", !.strict = TRUE, !.tune = "stored", !.boot = TRUE]

Esp32s3Adc == [Shape(Buses, "always") EXCEPT !.fails = TRUE, !.guarded = FALSE, !.close = "none"]
Rp2040Adc == [Shape(Buses, "kept") EXCEPT !.guarded = FALSE, !.close = "none"]
Stm32Adc == [Shape(Buses, "always") EXCEPT !.fails = TRUE, !.close = "none"]
ArduinoAdc == [Shape(Buses, "handle") EXCEPT !.close = "none", !.boot = TRUE]

Esp32s3Uart == [Shape(UartPorts, "install") EXCEPT !.fails = TRUE, !.guarded = FALSE]
Rp2040Uart == [Shape(Buses, "always") EXCEPT !.guarded = FALSE]
Stm32Uart == [Shape(UartPorts, "changed") EXCEPT !.fails = TRUE, !.strict = TRUE, !.boot = TRUE]
ArduinoUart == [Shape(UartPorts, "always") EXCEPT
                  !.power = Each(One, UartPorts), !.clock = Each(One, UartPorts), !.guarded = FALSE, !.boot = TRUE]

Esp32s3I2s == [Shape(Buses, "kept") EXCEPT !.fails = TRUE, !.honest = FALSE]
Rp2040I2s == Absent
Stm32I2s == [Shape(Buses, "always") EXCEPT
               !.fails = TRUE, !.power = Each(One, Buses), !.clock = Each(One, Buses), !.guarded = FALSE, !.boot = TRUE]
ArduinoI2s == Absent

Peripherals ==
    [i2c |-> [esp32s3 |-> Esp32s3I2c, rp2040 |-> Rp2040I2c, stm32 |-> Stm32I2c, arduino |-> ArduinoI2c],
     spi |-> [esp32s3 |-> Esp32s3Spi, rp2040 |-> Rp2040Spi, stm32 |-> Stm32Spi, arduino |-> ArduinoSpi],
     pwm |-> [esp32s3 |-> Esp32s3Pwm, rp2040 |-> Rp2040Pwm, stm32 |-> Stm32Pwm, arduino |-> ArduinoPwm],
     adc |-> [esp32s3 |-> Esp32s3Adc, rp2040 |-> Rp2040Adc, stm32 |-> Stm32Adc, arduino |-> ArduinoAdc],
     uart |-> [esp32s3 |-> Esp32s3Uart, rp2040 |-> Rp2040Uart, stm32 |-> Stm32Uart, arduino |-> ArduinoUart],
     i2s |-> [esp32s3 |-> Esp32s3I2s, rp2040 |-> Rp2040I2s, stm32 |-> Stm32I2s, arduino |-> ArduinoI2s]]
====
