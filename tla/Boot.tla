--------------------------------- MODULE Boot ----------------------------------
(***************************************************************************)
(* Starting the device (app_main.c): the main task runs the steps in order *)
(* while the transports that are already started serve, WiFi comes and     *)
(* goes, the configuration is saved or reset, and the power fails at any   *)
(* point.  The steps with a state of their own are those of BootManifest   *)
(* and DeviceConfig; of the others it matters when they have run.          *)
(***************************************************************************)
EXTENDS BootManifest, DeviceConfig

CONSTANT MaxRestarts    \* bound on power losses and restarts

ASSUME RestartAssumption == MaxRestarts \in Nat

VARIABLES
    board,  \* the board, and whether the build is for development
    pc,     \* the step that is next
    ready,  \* what has been initialised
    ble,    \* the radio: "off", "idle", "advertising" or "connected"
    wifi,   \* the station: "off", "joining", "lost" or "online"
    given,  \* what was ready when a payload was last handed over
    starts  \* how often the device was restarted

bootVars == <<board, pc, ready, ble, wifi, given, starts>>
vars == <<bootVars, manifestVars, configVars>>

\* Mutated form of Steps: WiFi is started before the payload verifier.
StepsWifiEarly ==
    <<"nvs", "board", "config", "bus", "faults", "state", "vm", "registry", "i2c", "manifest",
      "identity", "scheduler", "ble", "ble callback", "wifi", "wifi callback", "start wifi",
      "verifier", "advertise", "dumbdisplay", "ota", "program", "watchdog">>

Steps ==
    <<"nvs", "board", "config", "bus", "faults", "state", "vm", "registry", "i2c", "manifest",
      "identity", "verifier", "scheduler", "ble", "ble callback", "wifi", "wifi callback",
      "start wifi", "advertise", "dumbdisplay", "ota", "program", "watchdog">>

At(s) == pc \in 1 .. Len(Steps) /\ Steps[pc] = s
Running == pc > Len(Steps)

\* Steps that initialise a module and do nothing else that matters here.
Plain == {"bus", "faults", "state", "vm", "registry", "i2c", "identity", "verifier", "scheduler",
          "ble callback", "wifi", "wifi callback", "dumbdisplay", "ota", "watchdog"}

\* What on_payload_received uses, itself or by way of the scheduler it starts.
Uses == {"bus", "faults", "state", "vm", "registry", "i2c", "identity", "verifier", "scheduler"}

BootInit ==
    /\ board \in [kind : {"genuine", "foreign", "wrong"}, dev : BOOLEAN]
    /\ pc = 1 /\ ready = {} /\ ble = "off" /\ wifi = "off" /\ given = Uses /\ starts = 0
    /\ ManifestInit /\ ConfigInit

Done(s) == pc' = pc + 1 /\ ready' = ready \cup {s}

\* nvs_flash_init.  A partition without a free page is erased; any other error is ignored.
NvsInit(outcome) ==
    /\ At("nvs")
    /\ IF outcome = "fails" THEN pc' = pc + 1 /\ UNCHANGED ready ELSE Done("nvs")
    /\ IF outcome = "erased"
       THEN nvs' = Blank /\ torn' = FALSE /\ mixed' = FALSE /\ saved' = None
       ELSE UNCHANGED <<nvs, torn, mixed, saved>>
    /\ UNCHANGED <<board, ble, wifi, given, starts, bus, scan, json, config, call>>

\* board_auth_init: in production the wrong chip or the wrong hash restarts the board.
BoardAuth ==
    /\ At("board") /\ (board.dev \/ board.kind = "genuine")
    /\ IF board.kind = "wrong" THEN pc' = pc + 1 /\ UNCHANGED ready ELSE Done("board")
    /\ UNCHANGED <<board, ble, wifi, given, starts, manifestVars, configVars>>

LoadConfig ==
    /\ At("config") /\ Done("config") /\ Load("nvs" \in ready)
    /\ UNCHANGED <<board, ble, wifi, given, starts, manifestVars>>

InitModule ==
    /\ \E s \in Plain : At(s) /\ Done(s)
    /\ UNCHANGED <<board, ble, wifi, given, starts, manifestVars, configVars>>

ScanBus ==
    /\ At("manifest") /\ (Probe \/ WriteEntry)
    /\ UNCHANGED <<bootVars, configVars>>

EndManifest(room) ==
    /\ At("manifest") /\ SaveManifest(room /\ "nvs" \in ready) /\ Done("manifest")
    /\ UNCHANGED <<board, ble, wifi, given, starts, configVars>>

\* ble_gatt_init.  A controller that does not start leaves the device with WiFi only.
BleInit(ok) ==
    /\ At("ble") /\ Done("ble")
    /\ ble' = IF ok THEN "idle" ELSE "off"
    /\ UNCHANGED <<board, wifi, given, starts, manifestVars, configVars>>

\* ble_gatt_start_advertising.
Advertise ==
    /\ At("advertise") /\ Done("advertise")
    /\ ble' = IF ble = "idle" THEN "advertising" ELSE ble
    /\ UNCHANGED <<board, wifi, given, starts, manifestVars, configVars>>

\* wifi_mgr_start: without the driver there is no TCP server either.
WifiStart(ok) ==
    /\ At("start wifi") /\ Done("start wifi")
    /\ wifi' = IF ok THEN "joining" ELSE "off"
    /\ UNCHANGED <<board, ble, given, starts, manifestVars, configVars>>

HandOver == given' = ready \cap Uses

\* try_load_from_flash: the program of an earlier deployment, if there is one.
LoadProgram(stored) ==
    /\ At("program") /\ Done("program")
    /\ IF stored THEN HandOver ELSE UNCHANGED given
    /\ UNCHANGED <<board, ble, wifi, starts, manifestVars, configVars>>

BootStep ==
    \/ \E o \in {"opened", "erased", "fails"} : NvsInit(o)
    \/ BoardAuth \/ LoadConfig \/ InitModule \/ ScanBus \/ Advertise
    \/ \E ok \in BOOLEAN : EndManifest(ok) \/ BleInit(ok) \/ WifiStart(ok) \/ LoadProgram(ok)

\* The main task feeds the watchdog and sleeps.
MainLoop == Running /\ UNCHANGED vars

(***************************************************************************)
(* The transports                                                          *)
(***************************************************************************)

\* A phone connects while the device advertises, and the connection ends.
BlePeer ==
    /\ \/ ble = "advertising" /\ ble' = "connected"
       \/ ble = "connected" /\ ble' = "advertising"
    /\ UNCHANGED <<board, pc, ready, wifi, given, starts, manifestVars, configVars>>

\* A payload is complete, over BLE or TCP, and a callback has been set.
Payload ==
    /\ \/ ble = "connected" /\ "ble callback" \in ready
       \/ wifi = "online" /\ "wifi callback" \in ready
    /\ HandOver
    /\ UNCHANGED <<board, pc, ready, ble, wifi, starts, manifestVars, configVars>>

\* IP_EVENT_STA_GOT_IP.
GotIp ==
    /\ wifi = "joining" /\ wifi' = "online"
    /\ UNCHANGED <<board, pc, ready, ble, given, starts, manifestVars, configVars>>

\* The access point refuses the station or is gone: the event is on its way.
Lost ==
    /\ wifi \in {"joining", "online"} /\ wifi' = "lost"
    /\ UNCHANGED <<board, pc, ready, ble, given, starts, manifestVars, configVars>>

\* Mutated form of OnDisconnected: it is only recorded.
OnDisconnectedRecord ==
    /\ wifi = "lost" /\ UNCHANGED vars

\* WIFI_EVENT_STA_DISCONNECTED: connect again.
OnDisconnected ==
    /\ wifi = "lost" /\ wifi' = "joining"
    /\ UNCHANGED <<board, pc, ready, ble, given, starts, manifestVars, configVars>>

\* The power fails, or board_auth_init restarts a board that is not genuine.
Restart ==
    /\ \/ starts < MaxRestarts /\ starts' = starts + 1
       \/ At("board") /\ ~board.dev /\ board.kind # "genuine" /\ UNCHANGED starts
    /\ pc' = 1 /\ ready' = {} /\ ble' = "off" /\ wifi' = "off" /\ given' = Uses
    /\ ManifestRestart /\ ConfigRestart
    /\ UNCHANGED <<board, saved, nvs>>

\* The configuration is saved or reset. A reset is over when the manifest is erased too:
\* boot_manifest_save keeps it in the same namespace.
Pair ==
    /\ Running /\ ConfigNext
    /\ EndReset => saved = None
    /\ UNCHANGED <<bootVars, manifestVars>>

EraseManifest ==
    /\ Running /\ call.op = "reset" /\ saved # None
    /\ saved' = None
    /\ UNCHANGED <<bootVars, bus, scan, json, configVars>>

Next ==
    \/ BootStep \/ MainLoop \/ BlePeer \/ Payload \/ GotIp \/ Lost \/ OnDisconnected \/ Restart
    \/ Pair \/ EraseManifest

Fairness == WF_vars(BootStep) /\ WF_vars(OnDisconnected) /\ SF_vars(GotIp)

Spec == BootInit /\ [][Next]_vars /\ Fairness

(***************************************************************************)
(* Properties                                                              *)
(***************************************************************************)

BootTypeOK ==
    /\ ManifestTypeOK /\ ConfigTypeOK
    /\ pc \in 1 .. Len(Steps) + 1 /\ ready \subseteq {Steps[i] : i \in 1 .. Len(Steps)}
    /\ ble \in {"off", "idle", "advertising", "connected"}
    /\ wifi \in {"off", "joining", "lost", "online"}
    /\ given \subseteq Uses /\ starts \in 0 .. MaxRestarts

\* A payload reaches on_payload_received, from a phone, a TCP client or flash, only when all
\* it uses has been initialised in this start, and in production only on a genuine board.
ReadyWhenGiven ==
    /\ given = Uses
    /\ (wifi # "off" \/ ble # "off") => (board.dev \/ board.kind = "genuine")

\* The station of a device that is not restarted comes back online after every loss.
Reconnects == wifi = "lost" ~> (wifi = "online" \/ pc = 1)

\* Whatever part of it fails, the NVS, the bus, BLE or WiFi, a device that is allowed to
\* start comes up: every step is followed by the next.
BootCompletes == (board.dev \/ board.kind = "genuine") => <>[]Running

\* The variables have their types, and a payload that arrives while the device
\* starts finds what its deployment uses.
ServesWhenReady == BootTypeOK /\ ReadyWhenGiven

\* The device starts and stays within reach, whatever fails.
ComesUp == Reconnects /\ BootCompletes

=============================================================================
