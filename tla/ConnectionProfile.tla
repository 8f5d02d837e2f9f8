------------------------- MODULE ConnectionProfile -------------------------
(***************************************************************************)
(* What the daemon's decisions read of a connection profile                *)
(* (connection/profile.rs, connection/policy.rs): which devices it applies *)
(* to and where it stands in the autoconnect order. Everything else in a   *)
(* profile (names, secrets, addresses) is payload here.                    *)
(***************************************************************************)
EXTENDS Integers

CONSTANTS
    ProfileIds,   \* profile ids, numbered in their string order
    Devices,      \* the DeviceInfo records the backend enumerates
    Settings,     \* the validated profile contents that users store
    None          \* the absent value of an Option

DeviceKinds == {"Wifi", "Ethernet"}

ASSUME ProfileAssumption ==
    /\ ProfileIds \subseteq Int
    /\ \A d \in Devices : d.kind \in DeviceKinds
    /\ \A s \in Settings : /\ s.kind \in DeviceKinds
                           /\ s.priority \in Int
                           /\ s.enabled \in BOOLEAN
                           /\ s.autoconnect \in BOOLEAN
    /\ None \notin Settings

(* ConnectionProfile::matches.                                             *)
Matches(s, d) ==
    /\ s.kind = d.kind
    /\ s.interface_name \in {None, d.interface_name}
    /\ s.mac_address \in {None, d.mac_address}

(* order_for_autoconnect: what is eligible, and which of two eligible      *)
(* profiles comes first. `store` maps an id to its contents or to None.    *)
Eligible(store, p) ==
    /\ store[p] # None
    /\ store[p].enabled
    /\ store[p].autoconnect

Before(store, p, q) ==
    \/ store[p].priority > store[q].priority
    \/ store[p].priority = store[q].priority /\ p < q

=============================================================================
