---- MODULE DriverTable ----
(* The drivers of the device (main/drivers/drv_*.c), one record each.  A driver is a
   vtable over an array of instances of its own; the module Drivers gives these records
   their behaviour.  The fields are the decisions the code of a driver takes:

   max      instances the driver has room for
   index    the instance a handle selects: "fold" takes instance 0 for an index beyond
            the count, "reject" refuses such a handle, "single" has one static state
   needs    what init checks and gives up on: "hw" the pins, the channel or the device
            itself, "isr" the GPIO interrupt service, "adc" the ADC unit
   wants    what init asks for and goes on without
   installs init installs the interrupt service
   timer    the LEDC timer init configures once per driver, and the rate it asks for
   reads    "device": a read fetches a value; "paced": only 2 s after the last one;
            "kept": a read returns what the instance holds; "none": no read
   onFail   what a read answers when the device does not: "error", "stale" (the value
            held before, answered as good) or "madeup" (a value of no measurement)
   checked  a read asks whether its instance is initialized
   accepts  the commands of the VM a write obeys, of those in Commands
   deinit   "counted": the handle is below the count; "live": the instance is
            initialized, too; "first": whatever the handle; "always": single state
   off      deinit switches the output off
   frees    deinit deletes the channel of the instance and does not ask if it is there *)
EXTENDS Naturals

(* What the VM sends a driver: "write" is a number under the capability 0, "pwm" a
   float under CAP_SPEED_PERCENT, "text" an empty string and "value" a float, both
   under CAP_TEXT_DISPLAY. *)
Commands == {"write", "pwm", "text", "value"}
Numbers == Commands \ {"text"}

Sensor ==
    [max |-> 4, index |-> "fold", needs |-> {"hw"}, wants |-> {}, installs |-> FALSE, timer |-> <<0, 0>>,
     reads |-> "device", onFail |-> {"error"}, checked |-> TRUE, accepts |-> {},
     deinit |-> "counted", off |-> FALSE, frees |-> FALSE]

(* The sensors that refuse a handle beyond their two instances. *)
Pair == [Sensor EXCEPT !.max = 2, !.index = "reject"]

(* The sensors on an analogue channel of the unit their file claims. *)
Analog == [Sensor EXCEPT !.needs = {"hw", "adc"}]

Actuator == [Sensor EXCEPT !.reads = "kept", !.checked = FALSE, !.deinit = "live", !.off = TRUE]

(* An LEDC output: its driver configures timer t at hz when it is first initialised. *)
Pwm(n, t, hz) == [Actuator EXCEPT !.max = n, !.timer = <<t, hz>>]

Display == [Actuator EXCEPT !.max = 2, !.reads = "none"]

(* The I2S channels: deinit deletes the channel for every handle below the count. *)
Audio == [Pair EXCEPT !.frees = TRUE]

(* The services behind the driver interface, with one state for all their handles. *)
Service == [Sensor EXCEPT !.max = 1, !.index = "single", !.needs = {}, !.reads = "kept",
                          !.checked = FALSE, !.deinit = "always"]

----
(* Sensors on I2C that check the device at init and report a failing bus. *)
adxl345  == Sensor
aht20    == Sensor
bme280   == Pair
bmp280   == Sensor
bh1750   == Sensor
hts221   == Sensor
ina219   == Sensor
lis3dh   == [Sensor EXCEPT !.deinit = "live"]
mcp9808  == Sensor
mlx90614 == Sensor
mpu6050  == Sensor
tsl2561  == Sensor
vl53l0x  == Sensor

(* Nothing is asked of the device at init: a missing one is found by the first read. *)
sht31    == [Sensor EXCEPT !.needs = {}]
si7021   == [Sensor EXCEPT !.needs = {}]
veml7700 == [Pair EXCEPT !.needs = {}]

(* A failing read answers the values held, 400 ppm or 75 bpm before any measurement. *)
ccs811   == [Pair EXCEPT !.onFail = {"stale", "madeup"}]
max30102 == [Sensor EXCEPT !.onFail = {"stale"}]
scd40    == [Pair EXCEPT !.needs = {}, !.onFail = {"stale"}]
sgp30    == [Pair EXCEPT !.needs = {}, !.onFail = {"stale"}]
cst816s  == [Pair EXCEPT !.onFail = {"stale"}]
ft6236   == [Pair EXCEPT !.needs = {}, !.onFail = {"stale"}]

(* A failing read answers the bytes of its unwritten buffer, or zeros. *)
apds9960 == [Pair EXCEPT !.onFail = {"madeup"}]
ens160   == [Pair EXCEPT !.onFail = {"stale", "madeup"}]
lps22hb  == [Pair EXCEPT !.onFail = {"madeup"}]
mfrc522  == [Pair EXCEPT !.onFail = {"madeup"}]

(* Sensors on pins, one wire, UART, SPI and I2S. *)
dht22    == [Sensor EXCEPT !.reads = "paced"]
ds18b20  == Sensor
hcsr04   == Sensor
hx711    == Sensor
max6675  == [Sensor EXCEPT !.index = "reject", !.needs = {}]
mq2      == Sensor
soil_cap == Sensor
neo6m    == [Pair EXCEPT !.onFail = {"stale"}]
ov2640   == [Pair EXCEPT !.max = 1, !.onFail = {"stale"}, !.deinit = "first"]
inmp441  == [Audio EXCEPT !.onFail = {"stale"}]

(* Sensors on the ADC unit: each file asks for the unit under a handle of its own. *)
ph       == Analog
rain     == Analog
tds      == Analog

(* Sensors an interrupt keeps up to date; only pir installs the interrupt service. *)
pir      == [Sensor EXCEPT !.needs = {"hw", "isr"}, !.installs = TRUE, !.reads = "kept"]
reed     == [Sensor EXCEPT !.wants = {"isr"}, !.reads = "kept", !.deinit = "live"]
yf_s201  == [Sensor EXCEPT !.needs = {"hw", "isr"}, !.reads = "kept", !.deinit = "live"]

(* Outputs.  A command under a capability the driver does not name is refused, so of
   the VM's commands most outputs obey none. *)
relay         == [Actuator EXCEPT !.accepts = Numbers, !.deinit = "counted"]
solenoid      == Actuator
motor_stepper == Actuator
ws2812        == Actuator
servo         == [Pwm(8, 0, 50) EXCEPT !.deinit = "counted"]
buzzer        == Pwm(4, 1, 1000)
motor_dc      == [Pwm(4, 2, 1000) EXCEPT !.accepts = {"pwm"}]
tb6612        == [Pwm(8, 2, 1000) EXCEPT !.accepts = {"pwm"}]
drv8833       == [Pwm(8, 2, 20000) EXCEPT !.accepts = {"pwm"}]
fan_pwm       == [Pwm(4, 3, 25000) EXCEPT !.accepts = {"pwm"}, !.wants = {"isr"}]
mosfet        == [Pwm(4, 3, 1000) EXCEPT !.accepts = {"pwm"}]
max98357a     == [Audio EXCEPT !.reads = "kept", !.checked = FALSE, !.accepts = Numbers, !.off = TRUE]
pam8403       == [Audio EXCEPT !.reads = "kept", !.checked = FALSE, !.accepts = Numbers, !.off = TRUE]

(* Displays.  Text is accepted as a string only, so a value is never shown; the colour
   panels answer ESP_OK to a command they ignore. *)
lcd_i2c      == [Display EXCEPT !.needs = {}, !.accepts = {"text"}]
oled_ssd1306 == [Display EXCEPT !.accepts = {"text"}]
sh1106       == [Display EXCEPT !.index = "reject", !.needs = {}, !.accepts = {"text"}, !.deinit = "counted"]
ili9341      == [Display EXCEPT !.index = "reject", !.needs = {}, !.deinit = "counted"]
st7789       == [Display EXCEPT !.index = "reject", !.needs = {}, !.deinit = "counted"]

(* Services with one static state. *)
ble_ota        == Service
bt_a2dp        == Service
dumbdisplay    == Service
http_ota       == Service
i2c_scanner    == Service
wake_word      == Service
wifi_provision == Service
uvc_camera     == [Service EXCEPT !.needs = {"hw"}]

(* The vtables, by name. *)
Table ==
    [adxl345 |-> adxl345, aht20 |-> aht20, bme280 |-> bme280, bmp280 |-> bmp280,
     bh1750 |-> bh1750, hts221 |-> hts221, ina219 |-> ina219, lis3dh |-> lis3dh,
     mcp9808 |-> mcp9808, mlx90614 |-> mlx90614, mpu6050 |-> mpu6050, tsl2561 |-> tsl2561,
     vl53l0x |-> vl53l0x, sht31 |-> sht31, si7021 |-> si7021, veml7700 |-> veml7700,
     ccs811 |-> ccs811, max30102 |-> max30102, scd40 |-> scd40, sgp30 |-> sgp30,
     cst816s |-> cst816s, ft6236 |-> ft6236, apds9960 |-> apds9960, ens160 |-> ens160,
     lps22hb |-> lps22hb, mfrc522 |-> mfrc522, dht22 |-> dht22, ds18b20 |-> ds18b20,
     hcsr04 |-> hcsr04, hx711 |-> hx711, max6675 |-> max6675, mq2 |-> mq2,
     soil_cap |-> soil_cap, neo6m |-> neo6m, ov2640 |-> ov2640, inmp441 |-> inmp441, ph |-> ph,
     rain |-> rain, tds |-> tds, pir |-> pir, reed |-> reed, yf_s201 |-> yf_s201,
     relay |-> relay, solenoid |-> solenoid, motor_stepper |-> motor_stepper, ws2812 |-> ws2812,
     servo |-> servo, buzzer |-> buzzer, motor_dc |-> motor_dc, tb6612 |-> tb6612,
     drv8833 |-> drv8833, fan_pwm |-> fan_pwm, mosfet |-> mosfet, max98357a |-> max98357a,
     pam8403 |-> pam8403, lcd_i2c |-> lcd_i2c, oled_ssd1306 |-> oled_ssd1306, sh1106 |-> sh1106,
     ili9341 |-> ili9341, st7789 |-> st7789, ble_ota |-> ble_ota, bt_a2dp |-> bt_a2dp,
     dumbdisplay |-> dumbdisplay, http_ota |-> http_ota, i2c_scanner |-> i2c_scanner,
     wake_word |-> wake_word, wifi_provision |-> wifi_provision, uvc_camera |-> uvc_camera]
====
