---------------------- MODULE MCLinuxActivationEngine ----------------------
(* Two profiles for one interface: "auto" takes its IPv4 side from DHCP,   *)
(* with a static route, and adds a manual IPv6 section; "static" has the   *)
(* same static route and an IPv4 address of its own. One path more than    *)
(* there are faults: the supplicant always has a new one.                  *)
EXTENDS LinuxActivationEngine, TLC

MCAddresses == {"a4", "b4", "a6"}
MCRoutes == {"0/0", "::/0", "net"}

Section(method, address, gateway, routes, via, dns) ==
    [method |-> method, address |-> address, gateway |-> gateway,
     routes |-> routes, via |-> via, dns |-> dns]

MCConfig ==
    [p \in {"auto", "static"} |->
        IF p = "auto"
        THEN [v4 |-> Section("Automatic", "a4", FALSE, <<"net">>, FALSE, FALSE),
              v6 |-> Section("Manual", "a6", TRUE, <<>>, FALSE, TRUE)]
        ELSE [v4 |-> Section("Manual", "b4", FALSE, <<"net">>, TRUE, TRUE),
              v6 |-> Section("Automatic", "a6", FALSE, <<>>, FALSE, FALSE)]]

Paths == Permutations(Networks)

=============================================================================
