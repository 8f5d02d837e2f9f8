----------------------- MODULE LinuxActivationEngine -----------------------
(***************************************************************************)
(* The composite activation engine of a Linux host (linux/activation.rs):  *)
(* wpa_supplicant brings the link up (connection/supplicant_engine.rs),    *)
(* then the IP engine (linux/ip_engine.rs) installs addresses, routes and  *)
(* resolv.conf through linux/ipconfig.rs and linux/dns.rs.                 *)
(*                                                                         *)
(* One call of the engine is a job: a list of system calls still to make.  *)
(* The engine runs one job at a time, but every system call is a step of   *)
(* its own, because each may fail, because other programs change the same  *)
(* interface and the same resolv.conf in between, and because the process  *)
(* may end at any point: nmd connect even does so after every activation.  *)
(*                                                                         *)
(* The host is a table of resources and their owners. An address stands    *)
(* for itself and the connected route the kernel keeps with it.            *)
(***************************************************************************)
EXTENDS Integers, Sequences, Functions

CONSTANTS
    Profiles,          \* ids of the stored Wi-Fi profiles
    Config,            \* the ipv4 and ipv6 sections of each profile
    Addresses,         \* interface addresses, as text
    Routes,            \* route destinations, the two defaults included
    Networks,          \* object paths of wpa_supplicant's networks
    Default4,          \* 0.0.0.0/0
    Default6,          \* ::/0
    None,              \* the absent Option; the owner of a free resource
    Foreign,           \* the owner of what another program put in place
    MaxFaults          \* bound on failed removals, process ends, interference

Methods == {"Disabled", "Automatic", "Manual"}

(* `via` tells whether a static route names a gateway. With Automatic, the *)
(* address is the one the server leases; routes are those of the family.   *)
IpConfig ==
    [method : Methods, address : Addresses, gateway : BOOLEAN,
     routes : Seq(Routes), via : BOOLEAN, dns : BOOLEAN]

ASSUME EngineAssumption ==
    /\ None \notin Profiles /\ Foreign \notin Profiles /\ None # Foreign
    /\ None \notin Networks
    /\ {Default4, Default6} \subseteq Routes
    /\ \A p \in Profiles : /\ Config[p].v4 \in IpConfig
                           /\ Config[p].v6 \in IpConfig
    /\ MaxFaults \in Nat

VARIABLES
    slot,        \* LinuxActivationEngine.active: a profile or None
    network,     \* active_network of the supplicant engine: its profile
    link,        \* its path, which the job has from AddNetwork on, or None
    ip,          \* ActiveIpState: what a teardown will visit
    want,        \* gateway and DNS that the profile or the lease asks for
    mode,        \* "idle", or what the job is doing: "up", "undo", "down"
    job,         \* the profile the current or last job is about
    todo,        \* the system calls the job still makes
    failed,      \* whether the running job has an error to report
    result,      \* answer of the last finished job, None at first
    outcome,     \* ActivationOutcome: resources reported as configured
    host,        \* external: the owner of every resource of the host
    residue,     \* history: what a failed removal or an exit left behind
    touched,     \* history: what others changed since this job began
    faults       \* how many of those have happened

engineVars ==
    <<slot, network, link, ip, want, mode, job, todo, failed, result, outcome>>
vars == <<engineVars, host, residue, touched, faults>>

Owners == Profiles \cup {None, Foreign}

Address(a) == <<"addr", a>>
Route(r)   == <<"route", r>>
Lease(p)   == <<"lease", p>>
Network(n) == <<"net", n>>
Resolv     == <<"resolv", "conf">>

Shared == {Address(a) : a \in Addresses} \cup {Route(r) : r \in Routes} \cup {Resolv}
Resources ==
    Shared \cup {Lease(p) : p \in Profiles} \cup {Network(n) : n \in Networks}

(* The system calls, and the resource each is about.                       *)
Ops ==
    {"add_network", "select_network", "wait_for_completed", "acquire",
     "configure_ipv4", "configure_ipv6", "add_route", "dns_check", "dns_write",
     "dns_owner", "dns_unlink", "release", "remove_route", "remove_address",
     "disconnect", "remove_network"}

Step(op, res) == [op |-> op, res |-> res]

Calls == [op : Ops, res : Resources]

NoIp == [v4 |-> FALSE, lease |-> FALSE, dns |-> FALSE, v6 |-> FALSE]

-----------------------------------------------------------------------------
(* The programs: what a profile makes the engine do, in order.             *)

Each(op, routes) == [i \in 1..Len(routes) |-> Step(op, Route(routes[i]))]

If(b, s) == IF b THEN s ELSE <<>>

LinkUp(n) ==
    << Step("add_network", Network(n)), Step("select_network", Network(n)),
       Step("wait_for_completed", Network(n)) >>

(* routes of ActiveIpv4 and ActiveIpv6, without the connected one.         *)
Routes4(p, w) == If(w.gateway, <<Default4>>) \o Config[p].v4.routes
Routes6(p) == If(Config[p].v6.gateway, <<Default6>>) \o Config[p].v6.routes

Configure4(p, w) ==
    << Step("configure_ipv4", Address(Config[p].v4.address)) >>
    \o Each("add_route", Routes4(p, w))
    \o If(w.dns, << Step("dns_check", Resolv), Step("dns_write", Resolv) >>)

(* Bug: install_routes is only called for IPv4.                            *)
MutConfigure6(p) ==
    If(Config[p].v6.method = "Manual",
       << Step("configure_ipv6", Address(Config[p].v6.address)) >>)

(* Automatic IPv6 only looks the link-local address up. The DNS servers of *)
(* the IPv6 section are never applied.                                     *)
Configure6(p) ==
    If(Config[p].v6.method = "Manual",
       << Step("configure_ipv6", Address(Config[p].v6.address)) >>
       \o Each("add_route", Routes6(p)))

(* LinuxIpEngine::activate. The rest of an automatic configuration depends *)
(* on the lease.                                                           *)
ManualWant(p) ==
    [gateway |-> Config[p].v4.method = "Manual" /\ Config[p].v4.gateway,
     dns     |-> Config[p].v4.method = "Manual" /\ Config[p].v4.dns]

IpUp(p) ==
    CASE Config[p].v4.method = "Disabled"  -> Configure6(p)
      [] Config[p].v4.method = "Automatic" -> << Step("acquire", Lease(p)) >>
      [] Config[p].v4.method = "Manual"    ->
             Configure4(p, ManualWant(p)) \o Configure6(p)

(* LinuxIpEngine::teardown. remove_ipv4 takes the first gateway it finds   *)
(* among the routes for that of the default route, and removes that too.   *)
Teardown(p, s, w) ==
    If(s.dns, << Step("dns_owner", Resolv) >>)
    \o If(s.v4,
          Each("remove_route", Routes4(p, w))
          \o If(s.lease, << Step("release", Lease(p)) >>)
          \o If(w.gateway \/ Config[p].v4.via,
                << Step("remove_route", Route(Default4)) >>)
          \o << Step("remove_address", Address(Config[p].v4.address)) >>)
    \o If(s.v6,
          Each("remove_route", Routes6(p))
          \o << Step("remove_address", Address(Config[p].v6.address)) >>)

(* Bug: the slot's profile id is passed where its network path is asked    *)
(* for: both are text.                                                     *)
MutLinkDown(n) ==
    << Step("disconnect", Network(n)), Step("remove_network", Network(network)) >>

LinkDown(n) ==
    << Step("disconnect", Network(n)), Step("remove_network", Network(n)) >>

-----------------------------------------------------------------------------
Init ==
    /\ slot = None /\ network = None /\ link = None
    /\ ip = NoIp
    /\ want = [gateway |-> FALSE, dns |-> FALSE]
    /\ mode = "idle" /\ job = None /\ todo = <<>> /\ failed = FALSE
    /\ result = None /\ outcome = {}
    /\ host = [r \in Resources |-> None]
    /\ residue = {} /\ touched = {} /\ faults = 0

(* activate: refused while the slot or the supplicant's slot is taken, and *)
(* by every check made before the first system call (no such interface, an *)
(* unsupported security, no secret): those calls change nothing. n is the  *)
(* path AddNetwork will answer with: wpa_supplicant names every network it *)
(* adds anew, next to those that earlier connections left behind.          *)
Activate(p, n) ==
    /\ mode = "idle" /\ slot = None /\ network = None
    /\ host[Network(n)] = None
    /\ mode' = "up" /\ job' = p /\ todo' = LinkUp(n) /\ failed' = FALSE
    /\ link' = n
    /\ ip' = NoIp
    /\ want' = [gateway |-> FALSE, dns |-> FALSE]
    /\ outcome' = {} /\ touched' = {}
    /\ UNCHANGED <<slot, network, result, host, residue, faults>>

(* deactivate: rollback takes the state out of the slot before it starts.  *)
Deactivate(p) ==
    /\ mode = "idle" /\ slot = p
    /\ slot' = None
    /\ mode' = "down" /\ job' = p /\ failed' = FALSE
    /\ todo' = Teardown(p, ip, want) \o LinkDown(link)
    /\ outcome' = {} /\ touched' = {}
    /\ UNCHANGED <<network, link, ip, want, result, host, residue, faults>>

Doing(op) == todo # <<>> /\ Head(todo).op = op

Target == Head(todo).res

-----------------------------------------------------------------------------
(* Steps of an activation. A resource that is installed is no longer the   *)
(* residue of an earlier connection.                                       *)

Install(r) ==
    /\ host' = [host EXCEPT ![r] = job]
    /\ residue' = residue \ {r}

AddNetwork ==
    /\ mode = "up" /\ Doing("add_network")
    /\ Install(Target)
    /\ todo' = Tail(todo)
    /\ UNCHANGED <<slot, network, link, ip, want, mode, job, failed, result,
                   outcome, touched, faults>>

SelectNetwork ==
    /\ mode = "up" /\ Doing("select_network")
    /\ todo' = Tail(todo)
    /\ UNCHANGED <<slot, network, link, ip, want, mode, job, failed, result,
                   outcome, host, residue, touched, faults>>

(* The supplicant engine is done; IP configuration starts.                 *)
WaitForCompleted ==
    /\ mode = "up" /\ Doing("wait_for_completed")
    /\ network' = job
    /\ want' = ManualWant(job)
    /\ todo' = IpUp(job)
    /\ UNCHANGED <<slot, link, ip, mode, job, failed, result,
                   outcome, host, residue, touched, faults>>

(* DhcpClient::acquire. The server decides on the router and the DNS       *)
(* servers; the state to tear down is recorded before anything is set up.  *)
Acquire(gateway, dns) ==
    /\ mode = "up" /\ Doing("acquire")
    /\ Install(Target)
    /\ want' = [gateway |-> gateway, dns |-> dns]
    /\ ip' = [ip EXCEPT !.v4 = TRUE, !.lease = TRUE]
    /\ todo' = Configure4(job, want') \o Configure6(job)
    /\ UNCHANGED <<slot, network, link, mode, job, failed, result,
                   outcome, touched, faults>>

(* ActiveIpv4 or ActiveIpv6 is recorded, then configure_ipv4/6 adds the    *)
(* address, exclusively.                                                   *)
Recorded ==
    [ip EXCEPT !.v4 = @ \/ Doing("configure_ipv4"),
               !.v6 = @ \/ Doing("configure_ipv6")]

AddAddress ==
    /\ mode = "up" /\ (Doing("configure_ipv4") \/ Doing("configure_ipv6"))
    /\ host[Target] = None
    /\ ip' = Recorded
    /\ Install(Target)
    /\ todo' = Tail(todo)
    /\ UNCHANGED <<slot, network, link, want, mode, job, failed, result,
                   outcome, touched, faults>>

(* Routes are created or replaced, whoever set them.                       *)
AddRoute ==
    /\ mode = "up" /\ Doing("add_route")
    /\ Install(Target)
    /\ todo' = Tail(todo)
    /\ UNCHANGED <<slot, network, link, ip, want, mode, job, failed, result,
                   outcome, touched, faults>>

(* Bug: any file may be taken over.                                        *)
MutDnsCheck ==
    /\ mode = "up" /\ Doing("dns_check")
    /\ todo' = Tail(todo)
    /\ UNCHANGED <<slot, network, link, ip, want, mode, job, failed, result,
                   outcome, host, residue, touched, faults>>

(* LinuxDnsManager::apply reads the owner, then writes.                    *)
DnsCheck ==
    /\ mode = "up" /\ Doing("dns_check")
    /\ host[Resolv] \in {None, job}
    /\ todo' = Tail(todo)
    /\ UNCHANGED <<slot, network, link, ip, want, mode, job, failed, result,
                   outcome, host, residue, touched, faults>>

(* Bug: the ownership is dropped instead of recorded.                      *)
MutDnsWrite ==
    /\ mode = "up" /\ Doing("dns_write")
    /\ Install(Resolv)
    /\ todo' = Tail(todo)
    /\ UNCHANGED <<slot, network, link, ip, want, mode, job, failed, result,
                   outcome, touched, faults>>

DnsWrite ==
    /\ mode = "up" /\ Doing("dns_write")
    /\ Install(Resolv)
    /\ ip' = [ip EXCEPT !.dns = TRUE]
    /\ todo' = Tail(todo)
    /\ UNCHANGED <<slot, network, link, want, mode, job, failed, result,
                   outcome, touched, faults>>

(* A step of an activation fails: before the link is up only the network   *)
(* is removed, afterwards the recorded IP state and the link are undone.   *)
StepFails ==
    /\ mode = "up" /\ todo # <<>>
    /\ ip' = Recorded
    /\ mode' = "undo"
    /\ todo' = IF network = job
               THEN Teardown(job, Recorded, want) \o LinkDown(link)
               ELSE If(Head(todo).op # "add_network",
                       << Step("remove_network", Network(link)) >>)
    /\ UNCHANGED <<slot, network, link, want, job, failed, result,
                   outcome, host, residue, touched, faults>>

-----------------------------------------------------------------------------
(* Steps of a rollback or a deactivation. Every step is made, whatever the *)
(* ones before it answered; `gone` is what the system call achieved.       *)

Removing(ops) == mode \in {"undo", "down"} /\ \E op \in ops : Doing(op)

Fault ==
    /\ faults < MaxFaults
    /\ faults' = faults + 1

Uninstall(r, gone) ==
    /\ host' = [host EXCEPT ![r] = IF gone THEN None ELSE @]
    /\ residue' = IF ~gone /\ host[r] \in Profiles
                  THEN residue \cup {r} ELSE residue \ {r}
    /\ IF ~gone /\ host[r] \in Profiles THEN Fault ELSE UNCHANGED faults

(* A route that is not there, and a lost release, are not reported.        *)
RemoveBestEffort(gone) ==
    /\ Removing({"remove_route", "release", "dns_unlink"})
    /\ Uninstall(Target, gone)
    /\ todo' = Tail(todo)
    /\ UNCHANGED <<slot, network, link, ip, want, mode, job, failed, result,
                   outcome, touched>>

(* Bug: the error is ignored, as it is for routes.                         *)
MutRemoveAddress(gone) ==
    /\ Removing({"remove_address"})
    /\ gone => host[Target] # None
    /\ Uninstall(Target, gone)
    /\ todo' = Tail(todo)
    /\ UNCHANGED <<slot, network, link, ip, want, mode, job, failed, result,
                   outcome, touched>>

(* An address that is not there cannot be removed: that is an error.       *)
RemoveAddress(gone) ==
    /\ Removing({"remove_address"})
    /\ gone => host[Target] # None
    /\ Uninstall(Target, gone)
    /\ failed' = (failed \/ ~gone)
    /\ todo' = Tail(todo)
    /\ UNCHANGED <<slot, network, link, ip, want, mode, job, result,
                   outcome, touched>>

(* LinuxDnsManager::remove reads the owner, then unlinks the file. What    *)
(* another program wrote is kept, and is an error if it is marked as owned. *)
DnsOwner(error) ==
    /\ Removing({"dns_owner"})
    /\ host[Target] = None => ~error
    /\ IF host[Target] = job /\ ~error
       THEN /\ todo' = << Step("dns_unlink", Target) >> \o Tail(todo)
            /\ UNCHANGED <<host, residue, faults>>
       ELSE /\ todo' = Tail(todo)
            /\ Uninstall(Target, FALSE)
    /\ failed' = (failed \/ error)
    /\ UNCHANGED <<slot, network, link, ip, want, mode, job, result,
                   outcome, touched>>

Disconnect(ok) ==
    /\ Removing({"disconnect"})
    /\ failed' = (failed \/ ~ok)
    /\ todo' = Tail(todo)
    /\ UNCHANGED <<slot, network, link, ip, want, mode, job, result,
                   outcome, host, residue, touched, faults>>

(* Bug: an early return on the error skips the reset of the slot.          *)
MutRemoveNetwork(gone) ==
    /\ Removing({"remove_network"})
    /\ Uninstall(Target, gone)
    /\ network' = IF gone THEN None ELSE network
    /\ failed' = (failed \/ ~gone)
    /\ todo' = Tail(todo)
    /\ UNCHANGED <<slot, link, ip, want, mode, job, result,
                   outcome, touched>>

(* The supplicant engine forgets its network even if it could not remove it. *)
RemoveNetwork(gone) ==
    /\ Removing({"remove_network"})
    /\ Uninstall(Target, gone)
    /\ network' = None
    /\ failed' = (failed \/ ~gone)
    /\ todo' = Tail(todo)
    /\ UNCHANGED <<slot, link, ip, want, mode, job, result,
                   outcome, touched>>

-----------------------------------------------------------------------------
(* The job returns. The outcome of an activation lists what was set up;    *)
(* the IPv6 part copies its DNS servers from the profile.                  *)

Configured(p) ==
    (IF Config[p].v4.method = "Disabled" THEN {}
     ELSE { Address(Config[p].v4.address) }
          \cup { Route(r) : r \in Range(Routes4(p, want)) }
          \cup (IF want.dns THEN {Resolv} ELSE {}))
    \cup (IF Config[p].v6.method # "Manual" THEN {}
          ELSE { Address(Config[p].v6.address) }
               \cup { Route(r) : r \in Range(Routes6(p)) })

Reported(p) ==
    Configured(p)
    \cup (IF Config[p].v6.method = "Manual" /\ Config[p].v6.dns
          THEN {Resolv} ELSE {})

Return ==
    /\ mode # "idle" /\ todo = <<>>
    /\ mode' = "idle"
    /\ slot' = IF mode = "up" THEN job ELSE slot
    /\ outcome' = IF mode = "up" THEN Reported(job) ELSE {}
    /\ result' = [op      |-> IF mode = "down" THEN "deactivate" ELSE "activate",
                  profile |-> job,
                  ok      |-> mode = "up" \/ (mode = "down" /\ ~failed)]
    /\ UNCHANGED <<network, link, ip, want, job, todo, failed, host, residue,
                   touched, faults>>

EngineStep ==
    \/ AddNetwork \/ SelectNetwork \/ WaitForCompleted
    \/ \E gateway, dns \in BOOLEAN : Acquire(gateway, dns)
    \/ AddAddress \/ AddRoute \/ DnsCheck \/ DnsWrite
    \/ StepFails
    \/ \E gone \in BOOLEAN : RemoveBestEffort(gone)
    \/ \E gone \in BOOLEAN : RemoveAddress(gone)
    \/ \E error \in BOOLEAN : DnsOwner(error)
    \/ \E ok \in BOOLEAN : Disconnect(ok)
    \/ \E gone \in BOOLEAN : RemoveNetwork(gone)
    \/ Return

-----------------------------------------------------------------------------
(* Other programs change addresses, routes and resolv.conf at any time.    *)
Interfere(r, owner) ==
    /\ Fault
    /\ host[r] # owner
    /\ host' = [host EXCEPT ![r] = owner]
    /\ residue' = residue \ {r}
    /\ touched' = touched \cup {r}
    /\ UNCHANGED engineVars

(* The process ends, by a crash or because nmd connect is done. Nothing is *)
(* torn down, and the next process starts with an empty engine.            *)
ProcessEnds ==
    /\ Fault
    /\ mode # "idle" \/ slot # None
    /\ slot' = None /\ network' = None /\ link' = None
    /\ ip' = NoIp
    /\ want' = [gateway |-> FALSE, dns |-> FALSE]
    /\ mode' = "idle" /\ job' = None /\ todo' = <<>> /\ failed' = FALSE
    /\ result' = None /\ outcome' = {}
    /\ residue' = { r \in Resources : host[r] \in Profiles }
    /\ UNCHANGED <<host, touched>>

Next ==
    \/ \E p \in Profiles, n \in Networks : Activate(p, n)
    \/ \E p \in Profiles : Deactivate(p)
    \/ EngineStep
    \/ \E r \in Shared, owner \in {None, Foreign} : Interfere(r, owner)
    \/ ProcessEnds

(* No fairness: a D-Bus call of the engine waits for its answer for ever.  *)
Spec == Init /\ [][Next]_vars

-----------------------------------------------------------------------------
(* Every variable holds what the engine's fields can hold.                 *)
TypeOK ==
    /\ slot \in Profiles \cup {None}
    /\ network \in Profiles \cup {None}
    /\ link \in Networks \cup {None}
    /\ ip \in [v4 : BOOLEAN, lease : BOOLEAN, dns : BOOLEAN, v6 : BOOLEAN]
    /\ want \in [gateway : BOOLEAN, dns : BOOLEAN]
    /\ mode \in {"idle", "up", "undo", "down"}
    /\ job \in Profiles \cup {None}
    /\ todo \in Seq(Calls)
    /\ failed \in BOOLEAN
    /\ outcome \subseteq Resources
    /\ host \in [Resources -> Owners]
    /\ residue \subseteq Resources
    /\ touched \subseteq Shared
    /\ faults \in 0..MaxFaults

Targets(steps) == { steps[i].res : i \in DOMAIN steps }

(* What the engine would still visit if everything went wrong from now on. *)
Reachable ==
    CASE mode \in {"undo", "down"} -> Targets(todo)
      [] mode = "idle" /\ slot = None -> {}
      [] mode = "up" /\ network # job -> { Network(link) }
      [] OTHER -> Targets(Teardown(job, ip, want) \o LinkDown(link))

(* Nothing is forgotten: at every moment, what the engine has put on the   *)
(* host is still within reach of the teardown it has recorded, unless a    *)
(* removal of it has failed or a process ended with it in place.           *)
NothingForgotten ==
    \A r \in Resources :
        host[r] \in Profiles /\ r \notin residue => r \in Reachable

(* Success is real: while a connection is up, everything the profile and   *)
(* the lease ask for is in place, but for what other programs changed.     *)
SuccessIsComplete ==
    mode = "idle" /\ slot # None =>
        \A r \in Configured(slot) \cup {Network(link)} :
            host[r] = slot \/ r \in touched

(* The two slots agree between calls: otherwise the supplicant engine      *)
(* would refuse every later activation.                                    *)
NeverWedged == mode = "idle" => slot = network

(* A deactivation that reports success has removed its supplicant network  *)
(* and the profile's addresses, even where earlier removals failed or a    *)
(* process ended on the way. Networks left by those remain: nothing knows  *)
(* their paths any more. (A profile has the same addresses every time      *)
(* here; those of an edited profile or an earlier lease would remain too.) *)
ReportedCleanIsClean ==
    ( /\ mode = "idle" /\ job # None
      /\ result = [op |-> "deactivate", profile |-> job, ok |-> TRUE] )
        => \A r \in {Network(link)} \cup {Address(a) : a \in Addresses} :
               host[r] # job

(* The check before a write or an unlink of resolv.conf holds good: the    *)
(* file is free or the engine's own, unless another program has written    *)
(* it during the same job.                                                 *)
ForeignDnsSpared ==
    Doing("dns_write") \/ Doing("dns_unlink") =>
        host[Resolv] \in {None, job} \/ Resolv \in touched

(* "everything installed so far ... is torn down": a rollback removes what *)
(* the activation installed, not an address that was there before it.      *)
RollbackSparesForeign ==
    [][ mode = "undo" /\ Doing("remove_address") /\ todo' = Tail(todo)
            => (host[Target] = Foreign /\ Target \notin touched
                    => host'[Target] = Foreign) ]_vars

(* The outcome is "everything an engine managed to configure".             *)
OutcomeIsConfigured ==
    \A r \in outcome : host[r] = slot \/ r \in touched

=============================================================================
