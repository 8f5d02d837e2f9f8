# network-manager-rs: a verification project in TLA+

`network-manager-rs` is a NetworkManager-compatible daemon in Rust. It stores
connection profiles, activates them on Wi-Fi interfaces (wpa_supplicant for the
link, then DHCP or static addresses, routes and `resolv.conf`), and shows the
result on D-Bus. This directory holds TLA+ models of that code, TLC
configurations that check them on small instances, and TLAPS proofs of the
properties that matter most for every instance.

All source paths below are relative to the repository root.

## 1. The system

| Component | Source | State | Operations |
|---|---|---|---|
| Connection state machine | `src/connection/state.rs` | none (a table) | `transition_to`, events |
| Profiles and policy | `src/connection/profile.rs`, `policy.rs`, `device.rs` | none | `matches`, `validate`, `order_for_autoconnect` |
| Profile stores | `src/connection/store.rs` | profiles by id, in memory or one TOML file each | list, get, create, update, delete |
| Activation manager | `src/connection/activation.rs` | list of active connections, handle counter, event queue | activate, activate_profile, deactivate, drain_events |
| Daemon | `src/daemon.rs` | store + manager + backend | delegates to them |
| Composite engine | `src/linux/activation.rs` | the one active connection and its IP state | activate, deactivate |
| Supplicant engine | `src/connection/supplicant_engine.rs` | the one supplicant network | activate, deactivate |
| IP engine | `src/linux/ip_engine.rs` | none between calls | activate, teardown |
| IP configurator, DNS manager | `src/linux/ipconfig.rs`, `dns.rs` | the kernel's tables, `resolv.conf` | add/remove address, route; apply/remove |
| DHCPv4 client | `src/linux/dhcp/` | a socket and a transaction id during one call | acquire, release |
| wpa_supplicant client | `src/linux/supplicant.rs` | none | add, select, remove, disconnect, wait_for_completed |
| D-Bus facade | `src/dbus/` | object registries, last emitted states | one handler per D-Bus method |
| Authorization | `src/authorization/` | none | check |
| rtnetlink, nl80211 | `src/linux/netlink.rs`, `nl80211.rs`, `wifi.rs` | sockets | dumps, event streams, scan |
| Command line | `src/bin/nmd.rs` | none | connect, disconnect, monitor, listings |

How they interact. A D-Bus handler (or `nmd connect`) takes the daemon mutex and
calls the manager. The manager gives the attempt a handle, calls the engine
synchronously, walks the entry through the state machine and queues events. The
engine calls the supplicant engine, then the IP engine, which calls the
configurator, the DHCP client and the DNS manager one system call after the
other. Afterwards the handler registers D-Bus objects and drains the events into
signals, taking the mutex anew for each of these.

What is hard here:

* **Partial failure.** An activation is up to a dozen system calls. Each can
  fail, and the rollback is itself a list of calls that can fail, some of them
  reported and some ignored on purpose.
* **Other programs.** Addresses, routes and `resolv.conf` are shared with every
  other program of the host, which may change them between two calls.
* **Ends of the process.** Nothing about a running connection is on disk, and
  `nmd connect` exits with the connection up. The next process meets what the
  last one left.
* **Two books.** The manager's list, the engine's slot and the supplicant's slot
  each record what is active, and the event queue tells a fourth party. They are
  updated at different moments.
* **Lock regions.** D-Bus handlers release the mutex between steps.

* **Wires and sockets.** DHCP packets get lost, late and doubled; kernel tables
  change while they are dumped; the monitor's socket buffer overflows; the
  supplicant moves between two property reads.
* **A directory without a lock.** Every `nmd` process opens the profile directory
  on its own, and `fs::write` truncates before it writes.

What makes each part correct is listed with the runs below. `PROJECT.json` lists the
hazards at their source lines.

## 2. Modules

    ConnectionState      states, transition table, events
    ConnectionProfile    device matching, autoconnect order
    ProfileLifecycle     abstract: Down / Up / Failed per profile
    ActivationManager    EXTENDS the first two, refines ProfileLifecycle
    ActivationManager_proofs
    LinuxActivationEngine    supplicant + IP + DNS, one system call per step
    LinuxActivationEngine_proofs
    DbusFacade           EXTENDS ActivationManager: handlers, registries, signals
    DbusFacade_proofs    EXTENDS ActivationManager_proofs too
    DbusConversion       settings dictionaries, IP config properties
    DbusConversion_proofs
    DhcpClient           acquire and release against servers and a network
    DhcpClient_proofs
    SupplicantClient     the supplicant calls and the polling loop
    SupplicantClient_proofs
    FileProfileStore     the profile directory under several processes
    FileProfileStore_proofs
    NetlinkBackend       dumps, acknowledged changes, the monitor
    NetlinkBackend_proofs
    MC*                  constants for TLC

`LinuxActivationEngine` treats a DHCP acquisition, a supplicant wait and a netlink
request as one step each; `DhcpClient`, `SupplicantClient` and `NetlinkBackend`
open these steps. What the engine relies on, that each of them ends and does not
report success without cause, is what their runs and proofs show.

### ActivationManager

`profiles`, `next_id`, `active` and `events` are the fields of the store and of
`ActivationManager`. Every public operation is one action, since it runs under
`&mut self` behind the daemon mutex. A call the code refuses before it changes
anything (unknown id, device mismatch, already active, wrong state) is a
stuttering step. `Transition` is the function of that name: it refuses an
illegal jump, and a refused jump ends the operation early as the `?` does, with
the events pushed so far still queued. The engine is a trait object: the action
parameters `ok` and `held` leave its answer open, and `engineUp` is a record of
what it holds, so that the manager's books can be compared with it. A failed
deactivation may or may not leave the link up (`held`); both are allowed.

`view` and `given` are not in the code. `view` is a consumer that drains the queue
at arbitrary points and applies the events in order; `given` counts how
often each handle was given out.

### LinuxActivationEngine

A call of the engine is a *job*, a list `todo` of system calls. `LinkUp`,
`Configure4`, `Configure6`, `Teardown` and `LinkDown` compute these lists from a
profile in the order of the code; `Acquire` extends the list by what the lease
says. One action executes one call. `slot`, `network` and `ip` are the fields
`active`, `active_network` and `ActiveIpState`; `ip` only records which parts a
teardown will visit, as the code does. `host` is the table of owners of
addresses, routes, leases, supplicant networks and `resolv.conf`:

* an address is added exclusively (`NLM_F_EXCL`), a route replaces what is there
  (`NLM_F_REPLACE`), `resolv.conf` is checked first and written later;
* a removal takes away whatever has the same key, whoever put it there; a foreign
  route may survive (its gateway differs);
* `Interfere` is any other program, `ProcessEnds` a crash or a normal exit.

`residue` and `touched` are history: what a failed removal or an exit has left,
and what others changed during the job. They appear in the properties as the only
excuses.

Every `AddNetwork` of the supplicant answers with a new object path, so a network is
a resource per path (`Networks`), and `link` is the path of the current job. The path
is chosen when the job starts, among those that are free, and the network is
registered under it by `AddNetwork`. A network that an ended process has left under
another path is not found again by anybody: it stays in `host` as residue.

A `fs::write` that fails may leave the temporary file of `resolv.conf` behind
(`dns.rs:142`); that file is left out, since nothing reads it.

A lease is what the client has accepted; a lease that the server bound although
the client gave up is not the engine's and not in the table. The connected route
the kernel maintains is part of its address.

### DbusFacade

The manager's actions are used as they are, under the daemon mutex. A handler
takes that mutex (or a registry's) several times, so a call is a sequence of
*regions*, and the record `th[t]` says in which region thread `t` is and what its
locals hold. A D-Bus method is one action (`ActivateConnection`, `Disconnect`, ...)
that authorizes and enters the first region; the regions (`Create`,
`ActivateUnderLock`, `RegisterActiveConnectionObject`, `Drain`, `Emit`, ...) are
shared by the handlers as the helpers of `shared.rs` and `root.rs` are. `Drain`
takes the whole queue into the thread, as `drain_events` does, and `Emit` mirrors
one event of it per step (`MirrorStateChanged`, `MirrorDeactivated`; `MirrorOutcome`
only drops an `Activated` or `Failed` event, which causes no signal).
`MirrorStateChanged` takes the look-up in the list, the one in the kernel and the
update of the tracked device states, three lock regions of the code, in one step.
`conn_objs`, `act_objs`, `device_states` and `root_state` are the fields of
`Shared`; `devSignal`, `actSignal` and `announced` are what a client that listens
has last been told. The properties of the interfaces are operators
(`RootProperties`, `DeviceProperties`, `ActiveProperties`, `ListConnections`).

Threads: zbus dispatches the calls of a connection on its executor, and the program
that embeds the facade holds the same `Shared` through `Server`, so it can take a
connection down with `Daemon::deactivate` and then call `emit_connection_events`
(`OwnerThreads`). The instance has one thread of each. An interface of the kernel
may disappear at any time. Enumeration may fail in the look-ups of a handler; while
events are mirrored it only misses an interface that is gone.

### DbusConversion

A state machine around pure functions: a client reads settings (`GetSettings`),
changes one entry (`ClientEdit`), sends them back (`Update`), and outcomes are
rendered (`Activated`). Addresses are sequences of octets; the byte order
conversions, masks and prefix casts are computed, on octets of `OctetBits` bits,
so that every address of a family can be enumerated. Prefixes are taken modulo
`PrefixSpan` where the code casts with `as u8`. Bit operations are arithmetic with
powers of two (`Pow2`), and shifts, byte order and filters are recursive functions, so
that the proofs can unfold them. `stable_uuid` (a hash) and secrets are left out.
`Update` validates twice, as the code does: in `settings_to_profile` and again in the
store. The checks of `validate` on the id are left out, since an update must have the
id of the profile that is stored.

The types of the code are sets: `Routes`, `IpConfigs` and `OnDisk` for profiles,
`IpSections` and its neighbours for what a message can carry, with `None` for an entry
that is missing or of another type and `Garbage` for text that does not parse,
`Outcome4` and `Outcome6` for outcomes.

### DhcpClient

`pc` is the place in `acquire`; `left` the time to the one deadline that both waits
share. A socket is named by the transaction that opened it and stays in `sockets`
until it is closed, which the exits through `?` do not do. Servers are those of
`examples/dhcp_test_server.rs`, or *selective* ones that answer only a REQUEST with
their identifier. Loss, duplication, failing calls, refusals and replies to other
clients are faults, bounded by `MaxFaults`; `hurt` says whether one of them, or a
delay, fell into the current call. A datagram that does not parse is skipped like
one of another transaction and is represented by it. A server that sends no option
54 sends no `siaddr` either, so the fallback of `acquire` to `siaddr` finds nothing.
A transaction id is a number that does not repeat; the code mixes nanoseconds with
the process id, and two equal ids are not modelled.

### SupplicantClient

One action per D-Bus call of the engine, with `State` and `DisconnectReason` read
by two separate calls. The supplicant is external: it associates, drops and
retries by itself, serves other clients and may be restarted, after which it hands
out the same paths again. It may also stop answering (`Hang`), for a time or for
ever: the zbus calls block, and no timeout is set on the connection. `SelectNetwork`
leaves the state from before in place until the scan starts, so the first read may
still say "inactive", which ends the wait as not connected. Each read sees the present value; a zbus proxy may answer
from its property cache, which lags behind by a signal in flight, and that only
widens what a read may see to values that `saw` already holds. `saw` is history:
what the supplicant has been like since the select.

### FileProfileStore

`files` is the directory. A write is two steps, truncation and the text, and the
text of two writers may mix; a file that is removed while it is open is orphaned.
A write that fails leaves the file truncated; part of the text may be there in
reality, which is as unreadable.
`list` reads the directory in one step and every file in one of its own. `torn` and
`edited` are history: which files a kill, a failed or a mixed write, or the user has
touched. The `Mem*` operators are `InMemoryProfileStore`, the reference.

### NetlinkBackend

An operation is a list of requests (`Programs`), each answered before the next is
sent. A dump is received datagram by datagram from the table as it is then. The
kernel walks some tables by key (links, routes) and others by position, where a
removal shifts what follows; both kinds are modelled. A table that is walked by key
is kept in the order of its keys and has one entry per key; others may have several,
as the same address may be there with two prefix lengths. The loops of the code that
push what parses and that sort are functions by recursion on the length (`Kept`,
`ByKey`), which the proofs can unfold. A send or a recv may fail at any point, and a
datagram longer than the buffer ends a dump as malformed (`Fails`). Notifications may
share a datagram. The monitor is `next_event` as a loop: pending events, then the shutdown
flag, then the socket. `shown`, `sent` and `asked` are history. The tables that
neither the running operation nor the monitor looks at are left unchanged, which
hides no behaviour of either.

The model keeps two oddities of the code that no run turns into a property: an
nl80211 source binds with the *id* of its multicast group as a bit mask (`Bit`), so
it hears the group only for some ids, and `resolve_nl80211_family` waits for ever
when the kernel answers with an error (`stuck`).

## 3. Runs

| Run | Checks | Size |
|---|---|---|
| `manager` | `ActivationManager` with two profiles, two radios, three activations | 60 thousand states |
| `engine` | `LinuxActivationEngine` with two profiles on one interface, three network paths, two faults | 660 thousand states |
| `facade` | `DbusFacade` with one radio, two profiles, two activations, a bus thread and an owner | 1.2 million states |
| `dhcp` | `DhcpClient` with an indiscriminate anonymous and a selective server, two calls, one fault | 780 thousand states |
| `store` | `FileProfileStore` with two processes, two ids, three calls, a fault and an edit | 1.6 million states |
| `conversion` | `DbusConversion` with some thousand profiles and every kind of edit, two updates | 360 thousand states |
| `supplicant` | `SupplicantClient` with two paths, two faults and two calls of others | 880 thousand states |
| `netlink` | `NetlinkBackend` with an operation, two outside changes, a fault and the monitor | 860 thousand states |
| `rollback_spares_foreign`, `outcome_is_configured`, `disconnect_is_announced`, `timeout_elapses` | expected violations, see section 6 | |

`manager` shows: no profile is tracked twice (`EntriesUnique`), entries are
settled between calls (`EntriesSettled`), the queue always suffices to
reconstruct the state of every handle and is a chain of legal jumps
(`EventsReplayToState`, `EventChainLegal`), an entry is Activated only while the
engine holds its profile and nothing the engine holds is lost (`EngineAgrees`),
no handle is given out twice, and the entry and the events that carry one all name
the same profile (`HandlesNeverReused`), entries leave only
after a teardown that succeeded (`OnlyTornDownEntriesLeave`), and
the whole implements `ProfileLifecycle`. The last one makes a choice of the code
explicit: a profile that has failed once stays failed until the daemon restarts.

`engine` shows: at every moment what has been installed is in the reach of the
recorded teardown (`NothingForgotten`), which between two connections is empty, so
that only what could not be removed or an ended process left is there; success means
everything asked for is there (`SuccessIsComplete`); the two slots never disagree between calls,
which would refuse all later activations (`NeverWedged`); a deactivation that
reports success has removed the addresses and the network its own activation added,
while networks that earlier processes left under other paths may still be there
(`ReportedCleanIsClean`); the `resolv.conf` check holds up to races
(`ForeignDnsSpared`).

`facade` shows: whatever a handler and the embedding program do between each
other's regions, a live connection keeps its object and is never announced as
removed (`LiveConnectionsHaveObjects`); as long as operations did not overlap, a
client that has heard every signal agrees with one that reads the properties, on
the daemon's state, on every connection and on its object (`QuietBusAgrees`; the
events of a failed call stay queued until the next successful one, which is why the
queue must be empty); the `Settings.Connection` objects are the stored profiles
(`ConnectionObjectsAgree`, for one bus thread: with two, an add between the two
halves of a delete breaks it).

`dhcp` shows: the lease that is returned was granted to this client in this call,
although packets are matched by transaction id only (`LeaseIsOurs`; the check of the
hardware address in `to_lease` is what makes it true); a call without a fault or a
delay succeeds, except that a second server's offer makes it give up
(`FailureHasCause`); it ends (`AcquireEnds`) within one timeout (`SingleDeadline`);
the sockets that stay open are those of calls that ended through `?`
(`OnlyUnansweredLeak`).

`store` shows: only the profile that is being written can be damaged, and a refused
call damages nothing (`SoundUnlessTorn`); a list is a fair reading of a changing
directory, and a broken file is reported (`ListIsFair`); undisturbed, the file store
is the in-memory store (`QuietMatchesMemory`).

`conversion` shows: what came from a dictionary survives further round trips exactly
(`RoundTripIsStable`); an unchanged round trip of any profile leaves exactly what
`WrittenBack` lists, field by field (`WriteBackIsExact`): SSID, key management,
interface name, priority, autoconnect, manual addresses and the destinations,
prefixes, gateways and metrics of the routes are kept, while the name, hidden, bssid,
the secret reference, identity, speed, MAC match and enabled, the interface, kind and
scope of a route, and routes of the other family are reset or dropped; deprecated and
current renderings of addresses and routes, networks, masks and broadcast addresses
agree at every prefix (`RenderingsAgree`).

`supplicant` shows: what an activation reports was the case between select and
report, and a failure leaves neither network nor slot behind (`OutcomeIsHonest`);
every call ends, provided that the supplicant goes on answering (`WaitEnds`). Without
that proviso it does not: see `TimeoutElapses` in section 6.

`netlink` shows: a dump returns only what was there during it and, unless the table
shifted under it, everything that was there throughout, once and in order
(`DumpIsFair`); the monitor shows a gapless prefix of what the kernel announced, and
nothing after an overrun (`EventsInOrder`); SIGINT stops it (`ShutdownStops`).

**Bounds.** `MaxActivations = 3` lets a handle be followed past the removal of an
earlier one and past a failure of another profile; two profiles suffice for
competition, and the settings differ in priority, pinning and autoconnect. In the
engine the two profiles cover DHCP and manual IPv4, manual and automatic IPv6,
gateways from the lease and static routes with a gateway but no default route,
and they share a static route and `resolv.conf`. Failures of installing calls are
unbounded; `MaxFaults = 2` bounds failed removals, process ends and interference
together, so that a leftover of one connection meets a second fault in the next.
A network outlives its job only by a fault, so three paths, one more than there are
faults, mean that the supplicant always has a new one; the paths are interchangeable
(`SYMMETRY`).

In the facade two activations let a connection fail or go while another one is
coming up on the same interface. Two DHCP calls let a late answer of the first meet
the second; two servers are what a second offer needs, and a timeout of two ticks
lets time pass in both waits. Two faults let the supplicant be silent for a time and
a call fail later, and two calls of others add a network and select it. Three store calls are a create, a second writer and a
list. Octets of two bits, two of them for IPv4 and three for IPv6, keep the addresses
enumerable and still distinguish byte orders; every prefix from 0 to the full width
occurs. Two updates are what it takes to compare a profile from a dictionary with its
own round trip; `OneAtATime` only separates editing from rendering, which share no
state. In `netlink` one entry per datagram makes every dump of two entries a
multi-part one, and a buffer of one datagram overflows with the second; two outside
changes suffice to remove one entry and add another under a dump. `store` and
`netlink` switch deadlock checking off: their bounds on calls and changes run out.

**Fairness.** Weak fairness of a thread's own steps. A DHCP acquisition, a supplicant
wait and the monitor each run on a thread that the scheduler runs; `poll` and `sleep`
return when their time is up (`Tick` of `DhcpClient`, `Sleep` of `SupplicantClient`,
`WouldBlock` of `NetlinkBackend`). A step of `SupplicantClient` is a blocking call of
another process, so its fairness says more: a supplicant that answers at all does so
in the end. One that has stopped (`hung`) is not assumed to start again, and
`WaitEnds` names the condition. No fairness is assumed of callers, of the network, of
the supplicant's associations, of other programs or of the process ending, and none
in the engine, the manager, the facade and the store, whose properties are safety.

## 4. Proofs

Every theorem holds for every value of the constants: any number of profiles,
devices, threads, processes, servers, calls and faults. The named assumptions are
the types of the constants and that the model values are distinct
(`ProfileAssumption`, `BoundAssumption`, `EngineAssumption`, `FacadeAssumption`,
`DhcpAssumption`, `StoreAssumption`, `SupplicantAssumption`, `NetlinkAssumption`,
`ConversionAssumption`, `DataAssumption`, `AbsentAssumption`);
TLC evaluates them in the runs. Four say more. `FacadeAssumption` gives an interface
name to one index only, as the kernel does, and makes the threads finite;
`DhcpAssumption` makes the servers finite; `NetlinkAssumption` makes the tables finite
at first, with one entry per key where the kernel walks by key; `DataAssumption` says
that the profiles on disk pass `validate`, as every reader of the store ensures, that
the destination of a route is of the route's family, which `validate` does not check
(a file written by hand may differ; the kernel refuses such a route), and that an
outcome has only routes the kernel has taken: a destination and gateway of its family,
and a prefix in range. One theorem has a hypothesis
of its own: `FailuresExplained` needs a server on the link, without which every call
rightly times out.

| Module | Theorem | States |
|---|---|---|
| `ActivationManager_proofs` | `TypeCorrect`, `NoDuplicateEntries`, `AlwaysSettled`, `NoFabricatedSuccess` | `TypeOK`, `EntriesUnique`, `EntriesSettled`, `EngineAgrees` |
| | `HandlesFresh`, `EntriesLeaveTornDown`, `Refinement` | `HandlesNeverReused`, `OnlyTornDownEntriesLeave` and `ProfileLifecycle` |
| | `EventsTellAll`, `ChainsAreLegal` | `EventsReplayToState`, `EventChainLegal` |
| `LinuxActivationEngine_proofs` | `TypeCorrect`, `NeverForgets`, `SlotsNeverWedge` | `TypeOK`, `NothingForgotten`, `NeverWedged` |
| | `SuccessComplete`, `CleanAsReported`, `DnsSpared` | `SuccessIsComplete`, `ReportedCleanIsClean`, `ForeignDnsSpared` |
| `DbusFacade_proofs` | `FacadeTypeCorrect`, `LiveKeepObjects` | `FacadeTypeOK`, `LiveConnectionsHaveObjects` |
| | `ObjectsMatchStore`, `QuietBusIsTruthful` | `ConnectionObjectsAgree`, `QuietBusAgrees` |
| `DhcpClient_proofs` | `TypeCorrect`, `LeaseOwned`, `OneDeadline`, `AnsweredCallsClose`, `FailuresExplained` | `TypeOK`, `LeaseIsOurs`, `SingleDeadline`, `OnlyUnansweredLeak`, `FailureHasCause` |
| `FileProfileStore_proofs` | `TypeCorrect`, `SafePersistence`, `ListsAreFair`, `QuietIsMemory` | `TypeOK`, `SoundUnlessTorn`, `ListIsFair`, `QuietMatchesMemory` |
| `SupplicantClient_proofs` | `TypeCorrect`, `ReportsAreHonest` | `TypeOK`, `OutcomeIsHonest` |
| `DbusConversion_proofs` | `RoundTripsAreStable`, `RenderingsAlwaysAgree` | `RoundTripIsStable`, `RenderingsAgree` |
| | `WriteBacksAreExact` | the action property `WriteBackIsExact` |
| `NetlinkBackend_proofs` | `EventsAreInOrder`, `DumpsAreFair` | `EventsInOrder`, `DumpIsFair` |

**`ActivationManager_proofs`.** The inductive invariant is

    IInv == TypeOK /\ EntriesUnique /\ EntriesSettled /\ EngineAgrees

The parts need each other: a deactivation takes a profile from `engineUp`, which
leaves the other entries Activated with the engine's support only because no other
entry has the same profile; and it is only allowed to start from a settled state.
Effect lemmas first compute what the walks do (which jumps of the table they take,
which events they push, that none is refused), so that the preservation proof sees
an append, an update or a removal of one entry. The refinement maps the manager to
`ProfileLifecycle` by `Status`.

The events need a second invariant, `Chronicled`: for every handle the changes in
the queue replay from what the consumer believes to what the list holds, each jump
is legal and begins where the one before it ended. `ChangePushed` extends such a
chronicle by one jump, and a walk is a few pushes. That the changes of a handle have
a last one is part of the invariant, which saves an induction over the queue.

**`LinuxActivationEngine_proofs`.** `NothingForgotten` is not inductive: it does
not say which calls are still to come. The invariant adds, for each phase of a job,
what the list `todo` looks like:

* `LinkComing`: until the link is up nothing of the IP configuration is recorded,
  and before `add_network` nothing at all is on the host;
* `IpComing`: either the lease is next and nothing is recorded, or the rest of the
  program is *in order* (`Programmed`): a route comes only after the call that
  records its family. This is the point of the code's recording the state before
  it configures anything;
* `LinkGoing`: a teardown ends with `remove_network`, so `disconnect`, which
  removes nothing, is never the last call to visit the network, and the supplicant
  engine's slot is cleared before the job returns;
* `SlotsAgree`: which of the slots may be taken in which phase, and that a job has a
  path.

Lemmas about lists of calls (`TargetsTeardown`, `ProgrammedConfigure`, `WayDown`)
compute what the programs visit. `Mine` is what the engine has on the host and has
not lost; an installing call adds to it only what the way down already visits, and
a call of a teardown takes its target from it whether it succeeds or not.

That invariant bounds what is there from above. The second one, `Done`, bounds it
from below and accounts for the calls already made:

* `ComingUp`: what the profile asks for is there, was changed by another program, or
  is the target of a call still to come; at the end of the list nothing is to come;
* `Confined` and `Recording`: a profile owns only its own addresses and network, and
  a family that is configured is recorded, so that the teardown of the recorded
  state visits all of them;
* `GoingDown`: a deactivation without an error so far still has a call that
  *reports* errors ahead for every address and network. The calls whose errors the
  code ignores do not count, which is why `ReportedCleanIsClean` speaks of addresses
  and the job's network only. It says nothing of networks under other paths: nobody
  looks for them;
* `DnsGuarded`: a write of `resolv.conf` comes directly after the check, and its
  removal directly after the ownership test.

Both invariants were checked by TLC on the instance of the `engine` run before they
were proved.

**`DbusFacade_proofs`.** Every region of a handler is a step of the manager or
leaves it alone, so `IInv` and `Chronicled` are kept by the manager's lemmas. `FInv`
adds: each thread carries the arguments its next region uses (`ArgsFit`);
`Deactivated` is only ever said of a handle that was listed and is not any more,
in the queue, in what a thread has drained, and on the bus (`Obituaries`; handles
are never reused, so it stays true); a live connection has its object or a thread
that is about to register it (`LiveHaveObjects`). This holds for any number of
handlers and of threads of the embedding program.

`ObjectsFollowStore` says how far the `Settings.Connection` objects may be from the
store between the two halves of an add and of a delete; it needs a single thread of
the object server and tolerates any number of the embedding program. `Solo` is for
`QuietBusAgrees`: while no operations have overlapped, at most one thread is busy,
and what a listener has been told differs from the truth by what that thread still
has to emit (`Explained`).

**`DhcpClient_proofs`.** `LeaseIsOurs` needs `AcksAreGranted` (an acknowledgement
for us in flight was granted) and `NothingFromTheFuture` (no datagram has the
number of a later call, so a fresh transaction meets none of its own);
`SingleDeadline` needs `SharedDeadline`, elapsed plus left. `Undisturbed` follows an
exchange nobody disturbs: in each wait either the request is still on its way to a
server that will answer or the answer is on its way back, and nothing else of this
transaction, unless there is a second server.

**`FileProfileStore_proofs`.** `Reading` is the invariant of `list`: every id not
yet read existed at some moment of the call, everything found was there at some
moment, and every id passed over was absent or is found. `ArgsFit` carries
the validation from the entry of a call to its write. `QInv` is for the comparison
with memory: as long as a call is alone, the directory is the one it found, or that
one with its own file truncated, and its checks are still true.

**`SupplicantClient_proofs`.** `Watched` says that while the engine waits,
everything the supplicant is has been seen; `ReadWasSeen` carries this over the gap
between the read of `State` and that of `DisconnectReason`, and `Verdict` through
the cleanup of a failed activation.

**`DbusConversion_proofs`.** Most of it is about the functions, for octets of any
number of bits and addresses of any number of octets; `Induction` and `Recursion`
unfold the recursive ones.

* Numbers: `LittleEndianRound` and `NumberRound` say that octets and numbers determine
  each other, `ValueBound` and `ShiftedBound` that nothing overflows. A mask is a
  division and a multiplication by a power of two; `Block` says that these give the
  first and the last number of a block, whence `NetworkLowest`, `BroadcastHighest` and
  `MaskAgrees` for every prefix from 0 to the width.
* Routes and sections: `RouteComesBack` computes what a route is after it was written
  and read, `RouteRound` says that one that was read before is the same. `Back` computes
  what comes back of a whole section, `KeptAll` that the filters drop nothing of what
  was written; `IpComesBack` and `IpRound` follow.
* Profiles: `ProfileComesBack` for any profile on disk, `ProfileRound` for one that a
  dictionary describes. The second needs that `validate` ran after the addresses were
  set: only then is the prefix that was cast to eight bits the one that is written.

The invariant `Inv` of the state machine says that the store has a valid profile and,
after an `Update`, one that some accepted dictionary describes; and that the client's
dictionary is one that a message can carry, and the stored profile's settings as long
as it was not edited. `EditType` keeps it under any edit.

**`NetlinkBackend_proofs`.** The properties speak of what filtering, sorting,
reversing and concatenating compute for sequences of any length, so the proofs need
induction over data. The library's induction theorems have an operator parameter and
cannot be instantiated; `Induction` and `SequenceInduction` say the same of a *set* of
numbers or sequences, and `Recursion` gives the function a recursive definition
defines. With these, lemmas establish what `Kept`, `ByKey`, `Reverse` and `FlattenSeq`
return: the members, their number, their order, and how each distributes over
concatenation.

`MonitorInv` is for `EventsInOrder`. `Told` extends the prefix by the events that are
parsed and not yet returned; `Live` says that, without an overrun, those and the
datagrams in the socket are all of it; `Silent` that nothing is announced to a monitor
that has not subscribed; `Flag` that the shutdown flag is set only by a SIGINT since
then, and that a monitor at its socket has no event pending, which a recv would
overwrite.

`DumpInv` is for `DumpIsFair`. `Tables` keeps the tables finite, of one kind each,
without duplicates, and in key order where they are walked by key. `OneDump` describes
the dump under way: what was received lies in `during`; and, as long as the table kept
still or is walked by key, nothing was received twice or from beyond the walk's
place, and every readable entry that stayed and is `Behind` that place was received. A removal or an
insertion moves positions but not keys, which is why the walk by key keeps this and
the walk by position does not. `Requested` ties the walk to the head of the list of
requests. `DumpsAreTracked` states that these hold throughout.

## 5. What is only model-checked

* `AcquireEnds`, `WaitEnds`, `ShutdownStops`: liveness under fairness is
  outside what the proof system handles.

## 6. Disagreements found

* **`RollbackSparesForeign`** (`src/linux/ip_engine.rs:269`). The IPv4 state is
  recorded before its address is added. When the kernel refuses the address
  because it is already there, the rollback deletes it, although this activation
  did not install it. The contract of `activate` speaks of tearing down
  "everything installed so far".
* **`OutcomeIsConfigured`** (`src/linux/ip_engine.rs:374`). The outcome of a
  manual IPv6 section lists the profile's DNS servers, which no code applies,
  while `ActivationOutcome` is documented as "everything an engine managed to
  configure for an activation".
* **`DisconnectIsAnnounced`** (`src/dbus/shared.rs:594`). The device of a
  `StateChanged` event is looked up in the list after the operation. A deactivation
  has removed the entry by then, so the device signal is not sent and a listening
  client keeps the device as activated; `docs/compat.md:170` says of that signal
  "ok (emitted on disconnect/delete)".
* **`TimeoutElapses`** (`src/linux/supplicant.rs:313`). The deadline of
  `wait_for_completed` is looked at between property reads that block without a
  timeout. A supplicant that stops answering holds the wait, and with it the daemon
  mutex, for ever; the trait says that it "blocks until association reaches
  `completed`, a terminal failure, or `timeout` elapses" (lines 121-122).

Three more have no run of their own.

* *Lost fields* (`src/dbus/convert.rs:406`). `GetSettings` renders neither `enabled`
  nor the MAC match; it renders `hidden` (lines 319-321), but nothing reads it back.
  `Update` builds a fresh profile, so a client that writes back what it read enables
  a disabled profile and drops its hidden flag and MAC match. `convert.rs:8` says that
  "properties the domain does not model are dropped"; the domain does model these.
  `WriteBackIsExact`, checked and proved, lists what is lost.
* *Wrapped prefixes* (`src/dbus/convert.rs:499`). The prefix of a manual address is
  cast to eight bits before it is validated: 280 becomes 24 and is accepted. `validate`
  has an error for a prefix "out of range for the configured family"
  (`src/connection/profile.rs:66-69`), and the parser of routes refuses such a prefix
  (`convert.rs:141`). The model has the cast (`PrefixSpan`).
* *Signals*. Lines of `docs/compat.md` are out of date: 110 and
  255-256 call the root's and the active connection's `StateChanged` "declared, never
  emitted", and 334-336 say that they and the device's are emitted for disconnect and
  delete only. The code mirrors every drained state change of a connection onto
  `Connection.Active.StateChanged`, every change of the daemon's state onto the root's
  signal, and the device's is the one a disconnect does not cause.

## 7. Plan

Done: the manager with its lifecycle refinement, the engine, and the components
around them (facade, conversion, DHCP, supplicant, file store, netlink); proofs of
every safety property that a passing run checks. What is left:

1. The composition of manager and engine: the manager's calls as jobs of
   `LinuxActivationEngine`, with `engineUp` mapped to the engine's slot.

## 8. Not modelled

* Byte layouts: netlink and nl80211 attributes, DHCP options, TOML and the text of
  `resolv.conf`. The models keep which messages a parser accepts, skips or fails on;
  the unit tests of the repository cover the bytes.
* Contents of wiphys and information elements, access point properties, the Wired,
  Wireless and Statistics interfaces, and error names on D-Bus: read-only renderings.
  The access point and device registries only grow, by enumeration at start.
* `stable_uuid`, a hash of the profile id.
* The listings of `nmd` and all formatting.
* Methods of the facade that change nothing (`Sleep`, `Enable`, `Reload`,
  `SetLogging`, `Reapply`, `SetManaged`).
