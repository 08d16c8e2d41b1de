----------------------------- MODULE DeviceConfig ------------------------------
(***************************************************************************)
(* The configuration of the device in NVS (device_config.c).  Each of its  *)
(* fields is an entry of its own, written when it is set; the results of   *)
(* the sets are not looked at.  NVS may have no room for an entry, and the *)
(* power may fail between any two of them.  Nothing in the firmware calls  *)
(* device_config_save or device_config_reset yet: any task may.  An entry  *)
(* holds the configuration it comes from.                                  *)
(***************************************************************************)
EXTENDS Integers, Sequences

CONSTANTS
    Configs,    \* what a device may be paired with, provisioned in all of them
    Default     \* no entry: the default is taken

ASSUME ConfigAssumption == Default \notin Configs

Fields == {"backend_url", "device_id", "auth_token", "wifi_ssid", "wifi_pass"}

\* Mutated form of WriteOrder: the flag is written first.
WriteOrderFlag == <<"provisioned", "backend_url", "device_id", "auth_token", "wifi_ssid", "wifi_pass">>

WriteOrder == <<"backend_url", "device_id", "auth_token", "wifi_ssid", "wifi_pass", "provisioned">>

VARIABLES
    nvs,        \* the entries
    config,     \* s_dev_cfg
    call,       \* the save or reset under way
    torn,       \* since NVS was last empty an entry was refused, or a reset interrupted
    mixed       \* a save over an earlier pairing was cut off, and none completed since

configVars == <<nvs, config, call, torn, mixed>>

Blank == [e \in Fields \cup {"provisioned"} |-> Default]
Idle == [op |-> "none", cfg |-> Default, left |-> <<>>]

ConfigInit == nvs = Blank /\ config = Blank /\ call = Idle /\ torn = FALSE /\ mixed = FALSE

\* device_config_load: every entry that is not there gets its default.  Without NVS, all.
Load(opened) ==
    /\ config' = IF opened THEN nvs ELSE Blank
    /\ UNCHANGED <<nvs, call, torn, mixed>>

BeginSave(c) ==
    /\ call.op = "none"
    /\ call' = [op |-> "save", cfg |-> c, left |-> WriteOrder]
    /\ UNCHANGED <<nvs, config, torn, mixed>>

\* One nvs_set of device_config_save; the last is followed by the commit.
SetEntry(room) ==
    LET e == Head(call.left)
        last == Len(call.left) = 1
    IN
    /\ call.op = "save"
    /\ nvs' = IF room THEN [nvs EXCEPT ![e] = call.cfg] ELSE nvs
    /\ torn' = (torn \/ ~room)
    /\ mixed' = (mixed /\ ~last)
    /\ call' = IF last THEN Idle ELSE [call EXCEPT !.left = Tail(@)]
    /\ UNCHANGED config

BeginReset ==
    /\ call.op = "none"
    /\ call' = [Idle EXCEPT !.op = "reset"]
    /\ UNCHANGED <<nvs, config, torn, mixed>>

\* nvs_erase_all erases the entries of the namespace one by one, the manifest that boot
\* saves there too (Boot).
EraseEntry(e) ==
    /\ call.op = "reset" /\ nvs[e] # Default
    /\ nvs' = [nvs EXCEPT ![e] = Default]
    /\ UNCHANGED <<config, call, torn, mixed>>

EndReset ==
    /\ call.op = "reset" /\ nvs = Blank
    /\ call' = Idle /\ torn' = FALSE /\ mixed' = FALSE
    /\ UNCHANGED <<nvs, config>>

\* The power fails, or the board restarts.
ConfigRestart ==
    /\ config' = Blank /\ call' = Idle
    /\ torn' = (torn \/ call.op = "reset")
    /\ mixed' = (mixed \/ (call.op = "save" /\ nvs["provisioned"] # Default))

ConfigNext ==
    \/ \E c \in Configs : BeginSave(c)
    \/ \E room \in BOOLEAN : SetEntry(room)
    \/ BeginReset \/ EndReset
    \/ \E e \in DOMAIN nvs : EraseEntry(e)

(***************************************************************************)
(* Properties                                                              *)
(***************************************************************************)

ConfigTypeOK ==
    /\ nvs \in [Fields \cup {"provisioned"} -> Configs \cup {Default}]
    /\ config \in [Fields \cup {"provisioned"} -> Configs \cup {Default}]
    /\ call.op \in {"none", "save", "reset"} /\ call.left \in Seq(Fields \cup {"provisioned"})
    /\ torn \in BOOLEAN /\ mixed \in BOOLEAN

Provisioned == nvs["provisioned"] # Default

OnePairing == \A f \in Fields : nvs[f] = nvs["provisioned"]

\* At no moment would a device that starts come up as paired with an entry missing, though
\* the power fails in the middle of a pairing, a second one included; and when no save is
\* under way all it has is of the one pairing that was saved last. Three things leave it
\* otherwise: an entry that NVS refused, a reset cut off, and, for the second part, a save
\* over an earlier pairing that was cut off: that leaves the flag of the earlier pairing
\* over entries of both (see NeverMixed) until the next save or reset is over.
PairedWhole ==
    Provisioned /\ ~torn /\ call.op # "reset" =>
        /\ \A f \in Fields : nvs[f] # Default
        /\ call.op = "none" /\ ~mixed => OnePairing

\* A paired device that is not being paired again or reset has the entries of one pairing.
\* The code does not keep this: a second pairing leaves the flag of the first one set while
\* it replaces the entries, so a power loss between two of them leaves some of each.
NeverMixed == Provisioned /\ ~torn /\ call.op = "none" => OnePairing

=============================================================================
