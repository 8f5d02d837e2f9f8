------------------------ MODULE MCActivationManager ------------------------
(* A small daemon: two radios, two profile ids, whose contents may   *)
(* be pinned to an interface, compete by priority, or be switched off.     *)
EXTENDS ActivationManager

MCDevices ==
    { [kind |-> "Wifi", interface_name |-> "wlan0", mac_address |-> "m0"],
      [kind |-> "Wifi", interface_name |-> "wlan1", mac_address |-> None] }

MCSettings ==
    { [kind |-> "Wifi", interface_name |-> None, mac_address |-> None,
       priority |-> 0, enabled |-> TRUE, autoconnect |-> TRUE],
      [kind |-> "Wifi", interface_name |-> "wlan0", mac_address |-> "m0",
       priority |-> 5, enabled |-> TRUE, autoconnect |-> FALSE] }

=============================================================================
