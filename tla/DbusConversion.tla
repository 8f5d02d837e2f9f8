--------------------------- MODULE DbusConversion ---------------------------
(***************************************************************************)
(* What the D-Bus facade converts: a profile to the settings dictionary of *)
(* GetSettings and back for Update and AddConnection (dbus/convert.rs,     *)
(* with the validation of connection/profile.rs), and the outcome of an    *)
(* activation to the IP4Config, IP6Config and DHCP4Config properties       *)
(* (dbus/ipconfig.rs).                                                     *)
(*                                                                         *)
(* A client reads the settings of one profile, edits entries and sends     *)
(* the dictionary back. Strings are themselves, with Garbage for text that *)
(* does not parse as what the reader asks for; an entry that is missing or *)
(* of another type is None.                                                *)
(*                                                                         *)
(* An address is a sequence of octets. Octets have OctetBits bits, and     *)
(* Octets[f] of them make an address of family f: 8, and 4 or 16, in the   *)
(* code; the conversions do not depend on the numbers.                     *)
(***************************************************************************)
EXTENDS Integers, Sequences, FiniteSets, SequencesExt

CONSTANTS
    None, Garbage,
    OctetBits,    \* bits of an octet
    Octets,       \* octets of an address, by family
    PrefixSpan,   \* values of the integer a prefix length is stored in: 2^8
    Profiles,     \* valid profiles on disk, written by nmd or by hand
    Edits,        \* what a client may put in a dictionary: section, key, value
    Outcomes,     \* outcomes of activations: of which profile, V4, V6
    MaxUpdates    \* bound: updates that are accepted

Families == {"V4", "V6"}

(* 1 << n.                                                                 *)
Pow2[n \in Nat] == IF n = 0 THEN 1 ELSE 2 * Pow2[n - 1]

Base == Pow2[OctetBits]
Octet == 0 .. Base - 1
Width(f) == OctetBits * Octets[f]

ASSUME ConversionAssumption ==
    /\ OctetBits \in Nat \ {0}
    /\ Octets \in [Families -> Nat \ {0}]
    /\ PrefixSpan \in Nat /\ \A f \in Families : PrefixSpan > Width(f)
    /\ MaxUpdates \in Nat

VARIABLES
    stored,    \* the profile in the store
    updates,   \* how many dictionaries have replaced it
    dict,      \* the client's copy of the settings, or None
    touched,   \* whether the client has edited it
    outcome    \* of the active connection, or None

vars == <<stored, updates, dict, touched, outcome>>
viaBus == updates > 0

-----------------------------------------------------------------------------
(* Addresses and their encodings.                                          *)

Zero(f) == [k \in 1 .. Octets[f] |-> 0]
IsOf(f, a) == a \notin {None, Garbage} /\ a.family = f
IP(f, octets) == [family |-> f, octets |-> octets]

(* ipv4_u32 and u32::from_le_bytes: the last octet is the highest.         *)
LittleEndian(octets) ==
    LET v[i \in 0 .. Len(octets)] ==
          IF i = 0 THEN 0 ELSE octets[Len(octets) - i + 1] + Base * v[i - 1]
    IN  v[Len(octets)]

(* n shifted right by some octets, and u32::to_le_bytes.                   *)
Shifted(n) == LET q[k \in Nat] == IF k = 0 THEN n ELSE q[k - 1] \div Base IN q

FromLittleEndian(f, n) == [k \in 1 .. Octets[f] |-> Shifted(n)[k - 1] % Base]

(* from_be_bytes and to_be_bytes.                                          *)
BigEndian(octets) == LittleEndian(Reverse(octets))
FromBigEndian(f, n) == Reverse(FromLittleEndian(f, n))

HostBits(f, prefix) == Width(f) - (IF prefix > Width(f) THEN Width(f) ELSE prefix)

(* Bug: the mask of a prefix of 0 is a shift by the whole width, which     *)
(* leaves every bit in place.                                              *)
MutNetworkAddress(f, octets, prefix) ==
    IF prefix = 0 THEN octets
    ELSE LET host == Pow2[HostBits(f, prefix)]
         IN  FromBigEndian(f, (BigEndian(octets) \div host) * host)

NetworkAddress(f, octets, prefix) ==
    LET host == Pow2[HostBits(f, prefix)]
    IN  FromBigEndian(f, (BigEndian(octets) \div host) * host)

SubnetMask(prefix) ==
    FromBigEndian("V4", Pow2[Width("V4")] - Pow2[HostBits("V4", prefix)])

BroadcastAddress(octets, prefix) ==
    LET host == Pow2[HostBits("V4", prefix)]
    IN  FromBigEndian("V4", (BigEndian(octets) \div host) * host + host - 1)

-----------------------------------------------------------------------------
(* profile.rs.                                                             *)

(* validate_ip_config; routes are not validated.                           *)
ValidIpConfig(c, f) ==
    c.method = "Manual" =>
        /\ IsOf(f, c.address)
        /\ c.prefix # None /\ c.prefix <= Width(f)

Validate(p) ==
    /\ p.name # ""
    /\ p.kind = "Wifi" =>
         /\ p.ssid \in 1 .. 32    \* the length of the SSID stands for it
         /\ p.km \in {"WpaPsk", "Sae"} => p.secret # None
         /\ p.km = "WpaEap" => p.identity \notin {None, ""}
         /\ p.km \in {"Open", "Owe"} => p.secret = None
    /\ p.kind = "Ethernet" => p.speed # 0
    /\ ValidIpConfig(p.ipv4, "V4") /\ ValidIpConfig(p.ipv6, "V6")

DefaultIp == [method |-> "Automatic", address |-> None, prefix |-> None,
              gateway |-> None, dns |-> <<>>, routes |-> <<>>]

(* ConnectionProfile::wifi and ::ethernet, with the security constructors. *)
NewProfile(id, kind) ==
    [id |-> id, name |-> id, kind |-> kind, ssid |-> 0, hidden |-> FALSE,
     bssid |-> None, km |-> "Open", secret |-> None, identity |-> None,
     speed |-> None, interface_name |-> None, mac_address |-> None,
     priority |-> 0, autoconnect |-> TRUE, enabled |-> TRUE,
     ipv4 |-> DefaultIp, ipv6 |-> DefaultIp]

-----------------------------------------------------------------------------
(* Profile to dictionary.                                                  *)

KeyManagement == {<<"Open", "none">>, <<"WpaPsk", "wpa-psk">>, <<"Sae", "sae">>,
                  <<"WpaEap", "wpa-eap">>, <<"Owe", "owe">>}
KeyManagementString(km) == (CHOOSE e \in KeyManagement : e[1] = km)[2]

Methods == {<<"Automatic", "auto">>, <<"Manual", "manual">>, <<"Disabled", "disabled">>}

OctetsOf(f, a) == IF IsOf(f, a) THEN a.octets ELSE Zero(f)
OrZero(n) == IF n = None THEN 0 ELSE n

(* route_v4_entry (aau) and route_v6_entry (a(ayuayu)).                    *)
RouteEntry(f, r) ==
    LET encode(o) == IF f = "V4" THEN LittleEndian(o) ELSE o
    IN  << encode(OctetsOf(f, r.destination)), r.prefix,
           encode(OctetsOf(f, r.gateway)), OrZero(r.metric) >>

MapSeq(F(_), s) == [i \in DOMAIN s |-> F(s[i])]

(* The elements of s that are in S, in their order: a filter and collect.  *)
Kept(s, S) ==
    LET g[i \in 0 .. Len(s)] ==
          IF i = 0 THEN <<>>
          ELSE IF s[i] \in S THEN Append(g[i - 1], s[i]) ELSE g[i - 1]
    IN  g[Len(s)]

OwnRoutes(routes, f) == Kept(routes, { r \in ToSet(routes) : r.family = f })

(* Bug: the routes of the other family are not left out.                   *)
MutIpConfigSection(c, f) ==
    LET manual == c.method = "Manual"
        entry(r) == RouteEntry(f, r)
    IN  [method |-> (CHOOSE m \in Methods : m[1] = c.method)[2],
         address_data |-> IF manual /\ c.address # None
                          THEN << [address |-> c.address, prefix |-> c.prefix] >>
                          ELSE None,
         gateway |-> IF manual THEN c.gateway ELSE None,
         dns     |-> IF manual /\ c.dns # <<>> THEN c.dns ELSE None,
         routes  |-> IF c.routes = <<>> THEN None ELSE MapSeq(entry, c.routes)]

IpConfigSection(c, f) ==
    LET manual == c.method = "Manual"
        entry(r) == RouteEntry(f, r)
    IN  [method |-> (CHOOSE m \in Methods : m[1] = c.method)[2],
         address_data |-> IF manual /\ c.address # None
                          THEN << [address |-> c.address, prefix |-> c.prefix] >>
                          ELSE None,
         gateway |-> IF manual THEN c.gateway ELSE None,
         dns     |-> IF manual /\ c.dns # <<>> THEN c.dns ELSE None,
         routes  |-> IF c.routes = <<>> THEN None
                     ELSE MapSeq(entry, OwnRoutes(c.routes, f))]

ProfileToSettings(p) ==
    [connection |-> [id |-> p.id,
                     type |-> IF p.kind = "Wifi" THEN "802-11-wireless"
                              ELSE "802-3-ethernet",
                     interface_name |-> p.interface_name,
                     autoconnect |-> p.autoconnect,
                     priority |-> p.priority],
     wireless   |-> IF p.kind = "Wifi"
                    THEN [ssid |-> p.ssid, hidden |-> IF p.hidden THEN TRUE ELSE None]
                    ELSE None,
     security   |-> IF p.kind = "Wifi" /\ p.km # "Open"
                    THEN [key_mgmt |-> KeyManagementString(p.km)] ELSE None,
     ipv4       |-> IpConfigSection(p.ipv4, "V4"),
     ipv6       |-> IpConfigSection(p.ipv6, "V6")]

-----------------------------------------------------------------------------
(* Dictionary to profile.                                                  *)

(* parse_routes: an array of four-element entries whose addresses have     *)
(* the right size and whose prefix is in range.                            *)
RoutesParse(routes, f) ==
    routes # None =>
        /\ routes # Garbage
        /\ \A i \in DOMAIN routes :
              /\ Len(routes[i]) = 4
              /\ routes[i][2] <= Width(f)
              /\ f = "V6" => Len(routes[i][1]) = Octets[f] /\ Len(routes[i][3]) = Octets[f]

(* Bug: the octets of an IPv4 route are read in network order.             *)
MutParseRoute(f, e) ==
    LET decode(x) == IF f = "V4" THEN FromBigEndian(f, x) ELSE x
    IN  [family |-> f, destination |-> IP(f, decode(e[1])), prefix |-> e[2],
         gateway |-> IF decode(e[3]) = Zero(f) THEN None ELSE IP(f, decode(e[3])),
         interface |-> None, metric |-> IF e[4] = 0 THEN None ELSE e[4],
         kind |-> "Unicast", scope |-> IF e[2] = 0 THEN "Universe" ELSE "Link"]

ParseRoute(f, e) ==
    LET decode(x) == IF f = "V4" THEN FromLittleEndian(f, x) ELSE x
    IN  [family |-> f, destination |-> IP(f, decode(e[1])), prefix |-> e[2],
         gateway |-> IF decode(e[3]) = Zero(f) THEN None ELSE IP(f, decode(e[3])),
         interface |-> None, metric |-> IF e[4] = 0 THEN None ELSE e[4],
         kind |-> "Unicast", scope |-> IF e[2] = 0 THEN "Universe" ELSE "Link"]

(* parse_ip_config. The gateway and the name servers may be of either      *)
(* family; what does not parse is dropped.                                 *)
IpAccepted(s, f) ==
    /\ s.method \in {None, ""} \cup { m[2] : m \in Methods }
    /\ s.method = "manual" =>
         /\ s.address_data \notin {None, <<>>}
         /\ IsOf(f, s.address_data[1].address)
         /\ s.address_data[1].prefix # None
    /\ RoutesParse(s.routes, f)

ParseIpConfig(s, f) ==
    LET manual == s.method = "manual"
        parse(e) == ParseRoute(f, e)
    IN  [method  |-> IF s.method \in {None, ""} THEN "Automatic"
                     ELSE (CHOOSE m \in Methods : m[2] = s.method)[1],
         address |-> IF manual THEN s.address_data[1].address ELSE None,
         prefix  |-> IF manual THEN s.address_data[1].prefix % PrefixSpan ELSE None,
         gateway |-> IF manual /\ s.gateway # Garbage THEN s.gateway ELSE None,
         dns     |-> IF manual /\ s.dns # None THEN Kept(s.dns, ToSet(s.dns) \ {Garbage})
                     ELSE <<>>,
         routes  |-> IF s.routes = None THEN <<>> ELSE MapSeq(parse, s.routes)]

(* parse_key_management: secrets and identities become references to       *)
(* generic ones.                                                           *)
SecretOf(km) == CASE km = "WpaPsk" -> "nmd/wifi-psk"
                  [] km = "Sae"    -> "nmd/wifi-sae"
                  [] OTHER         -> None

KeyMgmt(d) == IF d.security = None \/ d.security.key_mgmt \in {None, ""} THEN "none"
              ELSE d.security.key_mgmt

Accepted(d) ==
    /\ d.connection # None /\ d.connection.id # None
    /\ d.connection.type \in {"802-11-wireless", "802-3-ethernet"}
    /\ d.connection.type = "802-11-wireless" =>
         /\ d.wireless # None /\ d.wireless.ssid # None /\ d.wireless.ssid <= 32
         /\ \E e \in KeyManagement : e[2] = KeyMgmt(d)
    /\ d.ipv4 # None => IpAccepted(d.ipv4, "V4")
    /\ d.ipv6 # None => IpAccepted(d.ipv6, "V6")

(* The profile a dictionary describes, before it is validated.             *)
Described(d) ==
    LET c == d.connection
        wifi == c.type = "802-11-wireless"
        km == IF wifi THEN (CHOOSE e \in KeyManagement : e[2] = KeyMgmt(d))[1] ELSE "Open"
        or(x, default) == IF x = None THEN default ELSE x
    IN  [NewProfile(c.id, IF wifi THEN "Wifi" ELSE "Ethernet") EXCEPT
            !.ssid = IF wifi THEN d.wireless.ssid ELSE 0,
            !.km = km,
            !.secret = SecretOf(km),
            !.identity = IF km = "WpaEap" THEN "nmd-enterprise" ELSE None,
            !.interface_name = c.interface_name,
            !.autoconnect = or(c.autoconnect, TRUE),
            !.priority = or(c.priority, 0),
            !.ipv4 = IF d.ipv4 = None THEN DefaultIp ELSE ParseIpConfig(d.ipv4, "V4"),
            !.ipv6 = IF d.ipv6 = None THEN DefaultIp ELSE ParseIpConfig(d.ipv6, "V6")]

SettingsToProfile(d) ==
    IF Accepted(d) /\ Validate(Described(d)) THEN Described(d) ELSE None

-----------------------------------------------------------------------------
(* dbus/ipconfig.rs. The deprecated arrays and the data dictionaries.      *)

RouteDataEntry(r) ==
    [dest |-> NetworkAddress(r.family, r.destination.octets, r.prefix),
     prefix |-> r.prefix,
     next_hop |-> IF r.gateway = None THEN None ELSE r.gateway.octets,
     metric |-> OrZero(r.metric)]

NameserversOf(f, servers) == Kept(servers, { a \in ToSet(servers) : IsOf(f, a) })

(* Ip4ConfigIface.                                                         *)
Ip4ConfigProperties(o) ==
    LET entry(r)  == RouteEntry("V4", r)
        server(a) == LittleEndian(a.octets)
    IN  [addresses    |-> << << LittleEndian(o.address.octets), o.prefix,
                                LittleEndian(OctetsOf("V4", o.gateway)) >> >>,
         address_data |-> << [address |-> o.address.octets, prefix |-> o.prefix] >>,
         gateway      |-> IF o.gateway = None THEN "" ELSE o.gateway.octets,
         routes       |-> MapSeq(entry, o.routes),
         route_data   |-> MapSeq(RouteDataEntry, o.routes),
         nameservers  |-> MapSeq(server, NameserversOf("V4", o.dns))]

(* Ip6ConfigIface: the configured address, else the link-local one with    *)
(* half the width for a prefix; the deprecated array has no gateway.       *)
Ip6ConfigProperties(o) ==
    LET entry(r)  == RouteEntry("V6", r)
        server(a) == a.octets
        primary   == IF o.address # None
                     THEN << [address |-> o.address.octets, prefix |-> o.prefix] >>
                     ELSE IF o.link_local # None
                     THEN << [address |-> o.link_local.octets,
                              prefix |-> Width("V6") \div 2] >>
                     ELSE <<>>
        tuple(e)  == << e.address, e.prefix, Zero("V6") >>
    IN  [addresses    |-> MapSeq(tuple, primary),
         address_data |-> primary,
         gateway      |-> IF o.gateway = None THEN "" ELSE o.gateway.octets,
         routes       |-> MapSeq(entry, o.routes),
         route_data   |-> MapSeq(RouteDataEntry, o.routes),
         nameservers  |-> MapSeq(server, NameserversOf("V6", o.dns))]

(* Dhcp4ConfigIface, whose lease entries need a lease.                     *)
Dhcp4Options(o) ==
    [ip_address  |-> o.address.octets,
     subnet_mask |-> SubnetMask(o.prefix),
     routers     |-> IF o.gateway = None THEN None ELSE o.gateway.octets,
     broadcast   |-> IF o.lease THEN BroadcastAddress(o.address.octets, o.prefix)
                     ELSE None]

-----------------------------------------------------------------------------
(* What the data may be.                                                   *)

Addresses(f) == [family : {f}, octets : [1 .. Octets[f] -> Octet]]
Address == Addresses("V4") \cup Addresses("V6")

(* The strings that the code compares with or writes.                      *)
Words == {"", "auto", "manual", "disabled", "none", "wpa-psk", "sae", "wpa-eap",
          "owe", "802-11-wireless", "802-3-ethernet"}
Text == STRING \cup {None}

(* The settings a message can carry. An entry that does not have the type  *)
(* its reader asks for is None or Garbage.                                 *)
Connections == [id : Text, type : Text, interface_name : Text,
                autoconnect : BOOLEAN \cup {None}, priority : Int \cup {None}]
Wirelesses  == [ssid : Nat \cup {None}, hidden : BOOLEAN \cup {None}]
Securities  == [key_mgmt : Text]

AddressData == [address : Address \cup {None, Garbage}, prefix : Nat \cup {None}]
Entries(f)  == IF f = "V4" THEN Seq(Nat) ELSE Seq(Octet) \X Nat \X Seq(Octet) \X Nat
IpSections(f) ==
    [method  : Text, address_data : Seq(AddressData) \cup {None},
     gateway : Address \cup {None, Garbage},
     dns     : Seq(Address \cup {Garbage}) \cup {None},
     routes  : Seq(Entries(f)) \cup {None, Garbage}]

Section == [connection |-> Connections, wireless |-> Wirelesses, security |-> Securities,
            ipv4 |-> IpSections("V4"), ipv6 |-> IpSections("V6")]

(* Each section with no entry in it.                                       *)
Blank ==
    LET ip == [method |-> None, address_data |-> None, gateway |-> None,
               dns |-> None, routes |-> None]
    IN  [connection |-> [id |-> None, type |-> None, interface_name |-> None,
                         autoconnect |-> None, priority |-> None],
         wireless   |-> [ssid |-> None, hidden |-> None],
         security   |-> [key_mgmt |-> None],
         ipv4 |-> ip, ipv6 |-> ip]

(* A route goes to a destination of its own family, to which a gateway of  *)
(* the other may be named; its prefix length is not checked.               *)
Routes(f) == [family : {f}, destination : Addresses(f), prefix : Nat,
              gateway : Address \cup {None}, interface : Int \cup {None},
              metric : Nat \cup {None},
              kind : {"Unicast", "Local", "Broadcast", "Anycast", "Multicast",
                      "Blackhole", "Unreachable", "Other"},
              scope : {"Universe", "Link", "Host", "Other"}]

IpConfigs == [method : { m[1] : m \in Methods }, address : Address \cup {None},
              prefix : Nat \cup {None}, gateway : Address \cup {None},
              dns : Seq(Address), routes : Seq(Routes("V4") \cup Routes("V6"))]

(* A profile as it is read from disk. An Ethernet profile has no SSID.     *)
OnDisk(p) ==
    /\ Validate(p)
    /\ p.id \in STRING /\ p.kind \in {"Wifi", "Ethernet"}
    /\ p.km \in { e[1] : e \in KeyManagement }
    /\ p.kind = "Ethernet" => p.ssid = 0 /\ p.km = "Open"
    /\ p.interface_name \in Text /\ p.autoconnect \in BOOLEAN /\ p.priority \in Int
    /\ p.ipv4 \in IpConfigs /\ p.ipv6 \in IpConfigs

(* What an activation reports is configured: the engine leaves out routes  *)
(* of the other family, and the kernel accepts no longer prefix.           *)
OutRoutes(f) == { r \in Routes(f) : /\ r.prefix <= Width(f)
                                    /\ r.gateway \in Addresses(f) \cup {None} }
Outcome4 == [address : Addresses("V4"), prefix : 0 .. Width("V4"),
             gateway : Addresses("V4") \cup {None}, dns : Seq(Address),
             routes : Seq(OutRoutes("V4")), lease : BOOLEAN]
Outcome6 == [address : Addresses("V6") \cup {None}, prefix : 0 .. Width("V6"),
             gateway : Addresses("V6") \cup {None}, dns : Seq(Address),
             routes : Seq(OutRoutes("V6")), link_local : Addresses("V6") \cup {None}]

ASSUME DataAssumption ==
    /\ \A p \in Profiles : OnDisk(p)
    /\ \A e \in Edits :
          /\ e.section \in DOMAIN Section
          /\ IF e.key = None THEN e.value \in Section[e.section] \cup {None}
             ELSE /\ e.key \in DOMAIN Blank[e.section]
                  /\ [Blank[e.section] EXCEPT ![e.key] = e.value] \in Section[e.section]
    /\ \A o \in Outcomes : /\ o["V4"] \in Outcome4 \cup {None}
                            /\ o["V6"] \in Outcome6 \cup {None}

(* None and Garbage are none of the values they stand beside.              *)
ASSUME AbsentAssumption ==
    /\ None # Garbage /\ None \notin STRING /\ None \notin Int /\ None \notin BOOLEAN
    /\ Words \subseteq STRING
    /\ None \notin Address /\ Garbage \notin Address
    /\ None \notin Seq(AddressData) /\ None \notin Seq(Address \cup {Garbage})
    /\ \A f \in Families : None \notin Seq(Entries(f)) /\ Garbage \notin Seq(Entries(f))
    /\ \A s \in DOMAIN Section : None \notin Section[s]

-----------------------------------------------------------------------------

Init ==
    /\ stored \in Profiles /\ updates = 0
    /\ dict = None /\ touched = FALSE /\ outcome = None

GetSettings ==
    /\ dict' = ProfileToSettings(stored) /\ touched' = FALSE
    /\ UNCHANGED <<stored, updates, outcome>>

(* The client replaces one entry, one section or one key of it.            *)
ClientEdit(e) ==
    /\ dict # None /\ ~touched
    /\ e.key # None => dict[e.section] # None /\ e.key \in DOMAIN dict[e.section]
    /\ dict' = IF e.key = None THEN [dict EXCEPT ![e.section] = e.value]
               ELSE [dict EXCEPT ![e.section][e.key] = e.value]
    /\ touched' = TRUE
    /\ UNCHANGED <<stored, updates, outcome>>

(* Settings.Connection.Update: the id of a connection cannot change, and   *)
(* the store validates the profile once more.                              *)
Update ==
    /\ dict # None /\ updates < MaxUpdates
    /\ LET p == SettingsToProfile(dict) IN
       IF p # None /\ p.id = stored.id /\ Validate(p)
       THEN stored' = p /\ updates' = updates + 1
       ELSE UNCHANGED <<stored, updates>>
    /\ dict' = None /\ touched' = FALSE
    /\ UNCHANGED outcome

Activated(o) ==
    /\ o.of = stored
    /\ outcome' = o
    /\ UNCHANGED <<stored, updates, dict, touched>>

Next ==
    \/ GetSettings \/ Update
    \/ \E e \in Edits : ClientEdit(e)
    \/ \E o \in Outcomes : Activated(o)

Spec == Init /\ [][Next]_vars

-----------------------------------------------------------------------------
(* Properties.                                                             *)

(* A profile that came from a dictionary survives any number of reads and  *)
(* writes: the settings that GetSettings returns for it are accepted by    *)
(* Update and describe the same profile, whatever the client sent first.   *)
RoundTripIsStable ==
    viaBus => SettingsToProfile(ProfileToSettings(stored)) = stored

(* What is left of a route, of an ip configuration and of a profile when   *)
(* its settings are read and written back as they are.                     *)
RouteWrittenBack(r) ==
    [family |-> r.family, destination |-> r.destination, prefix |-> r.prefix,
     gateway |-> IF IsOf(r.family, r.gateway) /\ r.gateway.octets # Zero(r.family)
                 THEN r.gateway ELSE None,
     interface |-> None, metric |-> IF r.metric = 0 THEN None ELSE r.metric,
     kind |-> "Unicast", scope |-> IF r.prefix = 0 THEN "Universe" ELSE "Link"]

IpWrittenBack(c, f) ==
    LET manual == c.method = "Manual"
    IN  [method  |-> c.method,
         address |-> IF manual THEN c.address ELSE None,
         prefix  |-> IF manual THEN c.prefix ELSE None,
         gateway |-> IF manual THEN c.gateway ELSE None,
         dns     |-> IF manual THEN c.dns ELSE <<>>,
         routes  |-> MapSeq(RouteWrittenBack, OwnRoutes(c.routes, f))]

WrittenBack(p) ==
    [id |-> p.id, name |-> p.id, kind |-> p.kind, ssid |-> p.ssid, hidden |-> FALSE,
     bssid |-> None, km |-> p.km, secret |-> SecretOf(p.km),
     identity |-> IF p.km = "WpaEap" THEN "nmd-enterprise" ELSE None,
     speed |-> None, interface_name |-> p.interface_name, mac_address |-> None,
     priority |-> p.priority, autoconnect |-> p.autoconnect, enabled |-> TRUE,
     ipv4 |-> IpWrittenBack(p.ipv4, "V4"), ipv6 |-> IpWrittenBack(p.ipv6, "V6")]

(* Exactly what a client that reads the settings of any profile and writes *)
(* them back unchanged leaves of it, when the Update is accepted. Kept are *)
(* the id, the kind, the SSID, the key management, the interface name, the *)
(* priority, autoconnect, the methods, a manual address with its prefix,   *)
(* gateway and name servers, and of every route of the section's family    *)
(* the destination, prefix, gateway and metric. Reset are the name, hidden,*)
(* bssid, the secret reference, the identity, speed, the MAC address and   *)
(* enabled, and of every route its interface, kind and scope; routes of    *)
(* the other family are gone. convert.rs:8 speaks only of losing what the  *)
(* domain does not model. Nothing is kept in one encoding and read in      *)
(* another: routes pass through LittleEndian and back.                     *)
WriteBackIsExact ==
    [][ updates' > updates /\ ~touched => stored' = WrittenBack(stored) ]_vars

(* The deprecated arrays and the dictionaries that replaced them tell a    *)
(* client the same; the network of every route and the broadcast address   *)
(* are the lowest and the highest address that agree with the address on   *)
(* the prefix, at the boundaries 0 and the full width too.                 *)
RenderingsAgree ==
    \A f \in Families :
      outcome # None /\ outcome[f] # None =>
        LET o == outcome[f]
            r == IF f = "V4" THEN Ip4ConfigProperties(o) ELSE Ip6ConfigProperties(o)
            octets(x) == IF f = "V4" THEN FromLittleEndian(f, x) ELSE x
            addresses == [1 .. Octets[f] -> Octet]
            agree(a, b, n) == BigEndian(a) \div Pow2[Width(f) - n]
                                = BigEndian(b) \div Pow2[Width(f) - n]
        IN  /\ Len(r.addresses) = Len(r.address_data)
            /\ \A i \in DOMAIN r.addresses :
                  octets(r.addresses[i][1]) = r.address_data[i].address
            /\ \A i \in DOMAIN o.routes :
                  LET e == r.route_data[i]  dest == octets(r.routes[i][1]) IN
                  /\ agree(dest, e.dest, e.prefix)
                  /\ \A c \in addresses :
                        agree(dest, c, e.prefix) => BigEndian(e.dest) <= BigEndian(c)
                  /\ e.next_hop \in {None, octets(r.routes[i][3])}
            /\ f = "V4" /\ o.lease =>
                  LET d == Dhcp4Options(o) IN
                  /\ agree(d.ip_address, d.broadcast, o.prefix)
                  /\ \A c \in addresses : agree(d.ip_address, c, o.prefix) =>
                        BigEndian(c) <= BigEndian(d.broadcast)
                  /\ agree(d.subnet_mask, [k \in 1 .. Octets[f] |-> Base - 1], o.prefix)

=============================================================================
