---------------------------- MODULE MCDbusFacade ----------------------------
(* One radio, two profiles that both apply to it, one thread of the object *)
(* server and one of the embedding program.                                *)
EXTENDS DbusFacade

MCDevice == [kind |-> "Wifi", interface_name |-> "wlan0", mac_address |-> "m0"]
MCDevices == {MCDevice}
MCInfoAt == 2 :> MCDevice

MCSettings ==
    { [kind |-> "Wifi", interface_name |-> None, mac_address |-> None,
       priority |-> 0, enabled |-> TRUE, autoconnect |-> TRUE] }

(* A caller the policy grants everything, and one that it refuses.         *)
MCPolicy ==
    [c \in {"admin", "guest"} |->
        [a \in {NetworkControl, SettingsModify} |->
            IF c = "admin" THEN "Yes" ELSE "No"]]
MCCallers == {"admin", "guest", None}

=============================================================================
