-------------------------- MODULE MCNetlinkBackend --------------------------
(* A link, three addresses of which the configured one differs from        *)
(* another in its prefix length only, a local, a foreign default, a        *)
(* configured default and a truncated route, a station and a monitor       *)
(* interface of one wiphy, two access points of which one announces        *)
(* information elements that do not parse.                                 *)
EXTENDS NetlinkBackend

Link(k)        == [kind |-> "link", key |-> k, named |-> TRUE, long |-> FALSE]
Addr(k, prefix) == [kind |-> "addr", key |-> k, family |-> "V4", prefix |-> prefix,
                    long |-> FALSE]
RouteTo(k, via, main, long) ==
    [kind |-> "route", key |-> k, family |-> "V4", type |-> "unicast", via |-> via,
     main |-> main, long |-> long]
Iface(k, type) == [kind |-> "iface", key |-> k, type |-> type, wiphy |-> 1,
                   caps |-> FALSE, long |-> FALSE]
Wiphy(k)       == [kind |-> "wiphy", key |-> k, long |-> FALSE]
Bss(k, ies)    == [kind |-> "bss", key |-> k, ies |-> ies, long |-> FALSE]

MCInitial ==
    { Link(1), Addr(1, 24), Addr(2, 24), RouteTo(1, "none", FALSE, FALSE),
      RouteTo(2, "other", TRUE, FALSE), Iface(1, "monitor"), Iface(2, "station"),
      Wiphy(1), Bss(1, "wellformed") }

MCObjects ==
    MCInitial \cup
    { Addr(2, 16), RouteTo(2, "ours", TRUE, FALSE), RouteTo(3, "many", TRUE, TRUE),
      Bss(2, "malformed") }

MCConfigs ==
    { [addr |-> Addr(2, 16), route |-> RouteTo(2, "ours", TRUE, FALSE), valid |-> TRUE],
      [addr |-> Addr(2, 24), route |-> NoObject, valid |-> FALSE] }

=============================================================================
