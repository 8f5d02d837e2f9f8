-------------------------- MODULE MCDbusConversion --------------------------
(* Octets of two bits, two of them in an IPv4 address and three in an IPv6 *)
(* one; prefixes are stored modulo 16. Profiles vary in one part at a time.*)
EXTENDS DbusConversion, TLC

MCOctets == "V4" :> 2 @@ "V6" :> 3

A4 == IP("V4", <<1, 2>>)
A6 == IP("V6", <<3, 0, 1>>)

Route(f, octets, prefix, gateway, metric, scope) ==
    [family |-> f, destination |-> IP(f, octets), prefix |-> prefix,
     gateway |-> gateway, interface |-> None, metric |-> metric,
     kind |-> "Unicast", scope |-> scope]

(* The last two are what only a hand-written file can have: a prefix out   *)
(* of range, and a route whose interface, kind and scope are set.          *)
Routes4 == { Route("V4", <<0, 0>>, 0, A4, None, "Universe"),
             Route("V4", <<1, 2>>, 3, None, 7, "Link"),
             Route("V4", <<2, 0>>, 2, A4, 0, "Universe"),
             Route("V4", <<1, 0>>, 9, None, None, "Link"),
             [Route("V4", <<2, 2>>, 4, A6, None, "Host") EXCEPT
                 !.kind = "Blackhole", !.interface = 3] }
Routes6 == { Route("V6", <<3, 1, 0>>, 4, A6, None, "Link"),
             Route("V6", <<0, 0, 0>>, 0, A6, 9, "Universe") }

Ip(method, address, prefix, gateway, dns, routes) ==
    [method |-> method, address |-> address, prefix |-> prefix,
     gateway |-> gateway, dns |-> dns, routes |-> routes]

Ip4s == { DefaultIp, Ip("Disabled", A4, None, A4, <<>>, <<>>) }
        \cup { Ip("Manual", A4, n, g, d, <<>>) :
                 n \in {0, 4}, g \in {None, A4, A6}, d \in {<<>>, <<A6, A4>>} }
        \cup { Ip("Automatic", None, None, None, <<>>, <<r>> \o s) :
                 r \in Routes4 \cup Routes6,
                 s \in {<<>>, <<Route("V4", <<1, 2>>, 3, None, 7, "Link")>>} }
Ip6s == { DefaultIp, Ip("Manual", A6, 6, None, <<A6>>, <<>>) }
        \cup { Ip("Automatic", None, None, None, <<>>, <<r, s>>) :
                 r \in Routes6, s \in Routes6 }

Wifi(km, secret, identity) ==
    [NewProfile("home", "Wifi") EXCEPT !.ssid = 4, !.km = km, !.secret = secret,
                                       !.identity = identity]

Plain == { Wifi("Open", None, None), Wifi("Owe", None, None),
           Wifi("WpaPsk", "own", None), Wifi("Sae", "own", None),
           [Wifi("WpaEap", None, "alice") EXCEPT !.bssid = "ap"],
           NewProfile("home", "Ethernet"),
           [NewProfile("home", "Ethernet") EXCEPT !.speed = 100] }

MCProfiles ==
    { p \in
        { [q EXCEPT !.hidden = h, !.enabled = e, !.autoconnect = a, !.priority = n,
                    !.interface_name = i, !.mac_address = m, !.name = l] :
            q \in Plain, h, e, a \in BOOLEAN, n \in {0, 5}, i \in {None, "wlan0"},
            m \in {None, "mac"}, l \in {"home", "My network"} }
        \cup { [q EXCEPT !.ipv4 = c, !.ipv6 = d] :
                 q \in {NewProfile("home", "Ethernet")}, c \in Ip4s, d \in Ip6s } :
      Validate(p) /\ (p.kind = "Ethernet" => ~p.hidden) }

E(section, key, value) == [section |-> section, key |-> key, value |-> value]

Data(address, n) == <<[address |-> address, prefix |-> n]>>

(* Dictionaries of every kind the readers tell apart.                      *)
MCEdits ==
    { E("connection", None, None), E("wireless", None, None),
      E("security", None, None), E("ipv4", None, None), E("ipv6", None, None),
      E("connection", "id", None), E("connection", "id", "other"),
      E("connection", "type", None), E("connection", "type", "vpn"),
      E("connection", "type", "802-11-wireless"),
      E("connection", "type", "802-3-ethernet"),
      E("connection", "autoconnect", None), E("connection", "priority", None),
      E("wireless", "ssid", None), E("wireless", "ssid", 0), E("wireless", "ssid", 33),
      E("security", None, [key_mgmt |-> "sae"]), E("security", "key_mgmt", "wep"),
      E("security", "key_mgmt", ""), E("security", "key_mgmt", "wpa-psk") }
    \cup { E(f, "method", m) : f \in {"ipv4", "ipv6"},
                               m \in {None, "", "auto", "manual", "disabled", "shared"} }
    \cup { E("ipv4", None, [method |-> "manual", address_data |-> d, gateway |-> g,
                            dns |-> n, routes |-> None]) :
             d \in {None, <<>>, Data(A6, 3), Data(Garbage, 3)}
                   \cup { Data(A4, n) : n \in {None, 0, 4, 5, 15, 16, 20, 21} },
             g \in {None, Garbage, A4, A6}, n \in {<<Garbage, A4>>} }
    \cup { E("ipv4", "routes", r) :
             r \in {None, Garbage, <<>>, << <<6, 2, 9>> >>, << <<6, 5, 9, 0>> >>,
                    << <<6, 4, 0, 0>>, <<0, 0, 9, 3>> >>} }
    \cup { E("ipv6", "routes", r) :
             r \in {Garbage, << << <<3, 0>>, 2, <<0, 0, 0>>, 0>> >>,
                    << << <<3, 0, 1>>, 7, <<0, 0, 0>>, 0>> >>,
                    << << <<3, 0, 1>>, 6, <<1, 0, 0>>, 2>> >>} }

MCOutcomes ==
    { "of" :> NewProfile("home", "Ethernet") @@ "V6" :> None @@
      "V4" :> [address |-> IP("V4", o), prefix |-> n, gateway |-> g, dns |-> <<A6, A4>>,
               routes |-> <<Route("V4", o, n, g, None, "Link")>>, lease |-> l] :
         o \in {<<1, 2>>, <<3, 3>>}, n \in 0 .. 4, g \in {None, A4}, l \in BOOLEAN }
    \cup
    { "of" :> NewProfile("home", "Ethernet") @@ "V4" :> None @@
      "V6" :> [address |-> a, prefix |-> 4, gateway |-> None, dns |-> <<A6, A4>>,
               routes |-> <<r>>, link_local |-> k] :
         a \in {None, A6}, r \in Routes6, k \in {None, A6} }

(* The settings and the outcome do not meet: outcomes are rendered for     *)
(* a profile that nobody is editing.                                       *)
OneAtATime ==
    outcome # None => dict = None /\ updates = 0

=============================================================================
