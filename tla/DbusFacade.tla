----------------------------- MODULE DbusFacade -----------------------------
(***************************************************************************)
(* The NetworkManager-compatible D-Bus facade (dbus/): the object registry *)
(* and the signals of Shared, and the handlers of the root, Device,        *)
(* Settings and Settings.Connection interfaces, over the activation        *)
(* manager they share behind the daemon mutex.                             *)
(*                                                                         *)
(* A handler takes the mutex several times, so it is a sequence of steps:  *)
(* one step per region of the code that holds a lock. The threads are the  *)
(* ones that hold a Shared handle: those of the object server, and those   *)
(* of the embedding program, which takes connections down through the      *)
(* daemon and then asks for the events to be mirrored.                     *)
(*                                                                         *)
(* A call that is refused before it changes anything ends the handler. A   *)
(* send that fails because the bus is gone is not modelled; an enumeration *)
(* of the kernel's links that fails ends the look-ups of a handler, and is *)
(* not modelled while events are mirrored.                                 *)
(***************************************************************************)
EXTENDS ActivationManager, FiniteSets

CONSTANTS
    BusThreads,     \* threads that run D-Bus handlers
    OwnerThreads,   \* threads of the program that embeds the facade
    Callers,        \* senders of method calls; None is a missing sender
    Policy,         \* external: the polkit answer by caller and action
    Indices,        \* kernel interface indices, registered at attach
    LinkStates,     \* what the kernel reports of an interface: up, down, gone
    InfoAt          \* the DeviceInfo of each index

Threads == BusThreads \cup OwnerThreads

NetworkControl == "network-control"
SettingsModify == "settings.modify.system"

ASSUME FacadeAssumption ==
    /\ IsFiniteSet(Threads)
    /\ Indices \subseteq Nat \ {0}
    /\ InfoAt \in [Indices -> Devices]
    /\ \A i, j \in Indices :
          InfoAt[i].interface_name = InfoAt[j].interface_name => i = j
    /\ LinkStates \subseteq {"up", "down", "gone"}
    /\ 0 \notin ProfileIds
    /\ Policy \in [Callers \ {None} -> [{NetworkControl, SettingsModify} ->
                                          {"Yes", "No", "Unknown", "Backend"}]]

VARIABLES
    link,          \* external: the kernel's view of each interface
    conn_objs,     \* connections: profiles with a Settings.Connection object
    act_objs,      \* active_connections: handles with an object on the bus
    device_states, \* the last device state tracked as emitted
    root_state,    \* the last root State tracked as emitted
    devSignal,     \* the state in the last Device.StateChanged on the bus
    actSignal,     \* the same for each Connection.Active
    announced,     \* the last of ActiveConnectionAdded and -Removed, by handle
    th,            \* what each thread is doing
    overlap        \* whether two operations have ever overlapped

registry == <<conn_objs, act_objs, device_states, root_state>>
signals  == <<devSignal, actSignal, announced>>
fvars    == <<vars, link, registry, signals, th, overlap>>

-----------------------------------------------------------------------------
(* What the interfaces render.                                             *)

(* Bug: the states without a counterpart are rendered as unknown.          *)
MutActiveNmState(s) ==
    CASE s = "Activated"    -> "activated"
      [] s = "Deactivating" -> "deactivating"
      [] s \in {"Preparing", "Configuring", "Activating"} -> "activating"
      [] OTHER              -> "unknown"

(* active_connection.rs nm_state.                                          *)
ActiveNmState(s) ==
    CASE s = "Activated"    -> "activated"
      [] s = "Deactivating" -> "deactivating"
      [] s \in {"Preparing", "Configuring", "Activating"} -> "activating"
      [] OTHER              -> "deactivated"

ConnectionToDeviceState(s) ==
    CASE s = "Preparing"    -> "prepare"
      [] s = "Configuring"  -> "config"
      [] s = "Activating"   -> "ip-config"
      [] s = "Activated"    -> "activated"
      [] s = "Deactivating" -> "deactivating"
      [] s = "Failed"       -> "failed"
      [] OTHER              -> "disconnected"

DeviceStates == {"unknown", "unavailable", "disconnected", "prepare", "config",
                 "ip-config", "activated", "deactivating", "failed"}

(* root.rs current_nm_state, State, CheckConnectivity.                     *)
CurrentNmState == IF active = <<>> THEN "disconnected" ELSE "connected"

Tracked(id) == \E i \in DOMAIN active : active[i].id = id
EntryOf(id) == active[CHOOSE i \in DOMAIN active : active[i].id = id]

(* Entries bound to an interface name; device_active takes the first one.  *)
OnDevice(i) ==
    { k \in DOMAIN active :
        active[k].device.interface_name = InfoAt[i].interface_name }
FirstOnDevice(i) ==
    active[CHOOSE k \in OnDevice(i) : \A m \in OnDevice(i) : k <= m]

(* DeviceIface::current_state.                                             *)
CurrentDeviceState(i) ==
    IF OnDevice(i) # {} /\ FirstOnDevice(i).state = "Activated"
    THEN "activated"
    ELSE IF link[i] = "up" THEN "disconnected" ELSE "unavailable"

(* What a client reads of the root, of a device and of an active           *)
(* connection; object references are handles, 0 the path "/". The          *)
(* constant properties of the interfaces are left out.                     *)
RootProperties ==
    [state       |-> CurrentNmState,
     devices     |-> { i \in Indices : link[i] # "gone" },
     connections |-> { active[k].id : k \in DOMAIN active },
     primary     |-> IF active = <<>> THEN 0 ELSE active[1].id,
     activating  |-> { active[k].id : k \in { m \in DOMAIN active :
                                                active[m].state = "Activating" } }]

DeviceProperties(i) ==
    [state     |-> CurrentDeviceState(i),
     active    |-> IF OnDevice(i) = {} THEN 0 ELSE FirstOnDevice(i).id,
     up        |-> link[i] = "up",
     available |-> { p \in conn_objs : /\ profiles[p] # None
                                       /\ Matches(profiles[p], InfoAt[i]) }]

ActiveProperties(id) ==
    [state      |-> ActiveNmState(EntryOf(id).state),
     default    |-> EntryOf(id).state = "Activated",
     connection |-> EntryOf(id).profile,
     devices    |-> { i \in Indices : /\ link[i] # "gone"
                                      /\ InfoAt[i].interface_name
                                            = EntryOf(id).device.interface_name }]

(* Settings.ListConnections: stored profiles that have an object.          *)
ListConnections == { p \in ProfileIds : profiles[p] # None /\ p \in conn_objs }

-----------------------------------------------------------------------------
(* Authorization: a missing sender and a failing backend are refusals.     *)

PolkitCheck(c, action) ==
    IF c = None THEN "UnidentifiableCaller" ELSE Policy[c][action]

Authorize(c, action) == PolkitCheck(c, action) = "Yes"

-----------------------------------------------------------------------------
(* Threads. pc names the next locked region; the other fields are the      *)
(* handler's arguments and locals: evs the drained events, known the       *)
(* device_by_active map, root the State read before it is compared.        *)

Idle == [pc |-> "idle", op |-> "none", prof |-> 0, settings |-> None,
         index |-> 0, id |-> 0, evs |-> <<>>, known |-> {},
         root |-> "disconnected"]

Ops == {"none", "Activate", "AddAndActivate", "Deactivate", "Disconnect",
        "DeviceDelete", "Add", "Delete"}

Pcs == {"idle", "create", "object", "device", "activate", "register", "added",
        "drain", "emit", "root", "name", "active", "deactivate", "delete",
        "unregister"}

Activating(t) == th[t].op \in {"Activate", "AddAndActivate"}

Begin(t, call) ==
    /\ th[t].pc = "idle"
    /\ th' = [th EXCEPT ![t] = call]
    /\ overlap' = (overlap \/ \E u \in Threads \ {t} : th[u].pc # "idle")
    /\ UNCHANGED <<vars, link, registry, signals>>

Goto(t, pc) == th' = [th EXCEPT ![t].pc = pc]
Return(t)   == th' = [th EXCEPT ![t] = Idle]

At(t, pc) == th[t].pc = pc /\ UNCHANGED <<link, overlap>>

(* Handles are not to run out while activations are under way.             *)
HandlesLeft ==
    next_id + Cardinality({ u \in Threads : Activating(u) }) <= MaxActivations

-----------------------------------------------------------------------------
(* Method calls.                                                           *)

ActivateConnection(t, p, i) ==
    /\ \E c \in Callers : Authorize(c, NetworkControl)
    /\ HandlesLeft
    /\ Begin(t, [Idle EXCEPT !.pc = "device", !.op = "Activate",
                             !.prof = p, !.index = i])

AddAndActivateConnection(t, p, s, i) ==
    /\ \E c \in Callers : Authorize(c, NetworkControl)
    /\ HandlesLeft
    /\ Begin(t, [Idle EXCEPT !.pc = "create", !.op = "AddAndActivate",
                             !.prof = p, !.settings = s, !.index = i])

DeactivateConnection(t, id) ==
    /\ id < next_id   \* any other path is refused
    /\ \E c \in Callers : Authorize(c, NetworkControl)
    /\ Begin(t, [Idle EXCEPT !.pc = "deactivate", !.op = "Deactivate", !.id = id])

Disconnect(t, i) ==
    /\ \E c \in Callers : Authorize(c, NetworkControl)
    /\ Begin(t, [Idle EXCEPT !.pc = "name", !.op = "Disconnect", !.index = i])

DeviceDelete(t, i) ==
    /\ \E c \in Callers : Authorize(c, SettingsModify)
    /\ Begin(t, [Idle EXCEPT !.pc = "name", !.op = "DeviceDelete", !.index = i])

(* AddConnection, AddConnectionUnsaved and AddConnection2.                 *)
AddConnection(t, p, s) ==
    /\ \E c \in Callers : Authorize(c, SettingsModify)
    /\ Begin(t, [Idle EXCEPT !.pc = "create", !.op = "Add",
                             !.prof = p, !.settings = s])

(* Settings.Connection.Delete, sent to an object on the bus.               *)
ConnectionDelete(t, p) ==
    /\ p \in conn_objs
    /\ \E c \in Callers : Authorize(c, SettingsModify)
    /\ Begin(t, [Idle EXCEPT !.pc = "delete", !.op = "Delete", !.prof = p])

(* Settings.Connection.Update and UpdateUnsaved: one region.               *)
ConnectionUpdate(t, p, s) ==
    /\ th[t].pc = "idle"
    /\ p \in conn_objs
    /\ \E c \in Callers : Authorize(c, SettingsModify)
    /\ UpdateProfile(p, s)
    /\ overlap' = (overlap \/ \E u \in Threads \ {t} : th[u].pc # "idle")
    /\ UNCHANGED <<link, registry, signals, th>>

(* The embedding program takes a live connection down through the daemon.  *)
OwnerTeardown(t, id) ==
    /\ Tracked(id) /\ EntryOf(id).state = "Activated"
    /\ Begin(t, [Idle EXCEPT !.pc = "deactivate", !.op = "Deactivate", !.id = id])

-----------------------------------------------------------------------------
(* Regions of the handlers.                                                *)

(* settings_to_profile and create_profile; the store refuses a duplicate.  *)
Create(t) ==
    LET w == th[t] IN
    /\ At(t, "create")
    /\ \/ CreateProfile(w.prof, w.settings) /\ Goto(t, "object")
       \/ profiles[w.prof] # None /\ UNCHANGED vars /\ Return(t)
    /\ UNCHANGED <<registry, signals>>

(* Bug: AddAndActivate leaves the registration to a later refresh.         *)
MutRegisterConnectionObject(t) ==
    /\ At(t, "object")
    /\ conn_objs' = IF Activating(t) THEN conn_objs ELSE conn_objs \cup {th[t].prof}
    /\ IF Activating(t)
       THEN th' = [th EXCEPT ![t].pc = "device", ![t].op = "Activate",
                             ![t].settings = None]
       ELSE Return(t)
    /\ UNCHANGED <<vars, act_objs, device_states, root_state, signals>>

RegisterConnectionObject(t) ==
    /\ At(t, "object")
    /\ conn_objs' = conn_objs \cup {th[t].prof}
    /\ IF Activating(t)
       THEN th' = [th EXCEPT ![t].pc = "device", ![t].op = "Activate",
                             ![t].settings = None]
       ELSE Return(t)
    /\ UNCHANGED <<vars, act_objs, device_states, root_state, signals>>

(* device_view and interface_name: the enumeration may fail, the interface *)
(* may be gone.                                                            *)
LookUpDevice(t) ==
    /\ \E pc \in {"device", "name"} : At(t, pc)
    /\ \/ /\ link[th[t].index] # "gone"
          /\ Goto(t, IF th[t].pc = "device" THEN "activate" ELSE "active")
       \/ Return(t)
    /\ UNCHANGED <<vars, registry, signals>>

(* RootIface::activate: without settings the best profile, else the one    *)
(* they name. A failure returns before the events are mirrored.            *)
ActivateUnderLock(t) ==
    LET w == th[t]
        d == InfoAt[w.index]
        answered(ok) == IF ok
                        THEN th' = [th EXCEPT ![t] = [Idle EXCEPT !.pc = "register",
                                                    !.op = w.op, !.id = next_id]]
                        ELSE Return(t)
    IN  /\ At(t, "activate")
        /\ \/ \E ok \in BOOLEAN : w.prof = 0 /\ Activate(d, ok) /\ answered(ok)
           \/ \E ok \in BOOLEAN :
                 w.prof # 0 /\ ActivateProfile(w.prof, d, ok) /\ answered(ok)
           \/ /\ IF w.prof = 0
                 THEN Candidates(d) = {}
                 ELSE ~(/\ profiles[w.prof] # None
                        /\ Matches(profiles[w.prof], d)
                        /\ ~IsActive(w.prof))
              /\ UNCHANGED vars
              /\ Return(t)
        /\ UNCHANGED <<registry, signals>>

RegisterActiveConnectionObject(t) ==
    /\ At(t, "register")
    /\ act_objs' = act_objs \cup {th[t].id}
    /\ Goto(t, "added")
    /\ UNCHANGED <<vars, conn_objs, device_states, root_state, signals>>

AnnounceAdded(t) ==
    /\ At(t, "added")
    /\ announced' = [announced EXCEPT ![th[t].id] = "added"]
    /\ Goto(t, "drain")
    /\ UNCHANGED <<vars, registry, devSignal, actSignal>>

(* Device.Disconnect and Device.Delete: the connection on the interface,   *)
(* looked up in one region and used in the next.                           *)
LookUpActive(t) ==
    LET w == th[t] IN
    /\ At(t, "active")
    /\ \/ /\ link[w.index] # "gone"
          /\ OnDevice(w.index) # {}
          /\ LET e == FirstOnDevice(w.index)
             IN  th' = [th EXCEPT ![t] =
                          IF w.op = "Disconnect"
                          THEN [Idle EXCEPT !.pc = "deactivate", !.op = "Deactivate",
                                            !.id = e.id]
                          ELSE [w EXCEPT !.pc = "delete", !.prof = e.profile]]
       \/ Return(t)
    /\ UNCHANGED <<vars, registry, signals>>

(* Daemon::deactivate; a refusal or a failing engine returns early.        *)
DeactivateUnderLock(t) ==
    LET w == th[t] IN
    /\ At(t, "deactivate")
    /\ \/ \E ok, held \in BOOLEAN :
             /\ Deactivate(w.id, ok, held)
             /\ IF ok THEN Goto(t, "drain") ELSE Return(t)
       \/ /\ ~(Tracked(w.id) /\ EntryOf(w.id).state = "Activated")
          /\ UNCHANGED vars
          /\ Return(t)
    /\ UNCHANGED <<registry, signals>>

(* delete_profile, of Device.Delete and of Settings.Connection.Delete.     *)
DeleteUnderLock(t) ==
    LET p == th[t].prof IN
    /\ At(t, "delete")
    /\ \/ DeleteProfile(p) /\ Goto(t, "unregister")
       \/ profiles[p] = None /\ UNCHANGED vars /\ Return(t)
    /\ UNCHANGED <<registry, signals>>

(* unregister_connection; Device.Delete then announces the device as       *)
(* disconnected without tracking that state, and takes nothing down.       *)
UnregisterConnection(t) ==
    LET w == th[t] IN
    /\ At(t, "unregister")
    /\ conn_objs' = conn_objs \ {w.prof}
    /\ devSignal' = IF w.op = "DeviceDelete"
                    THEN [devSignal EXCEPT ![w.index] = "disconnected"]
                    ELSE devSignal
    /\ Return(t)
    /\ UNCHANGED <<vars, act_objs, device_states, root_state, actSignal, announced>>

-----------------------------------------------------------------------------
(* emit_connection_events.                                                 *)

Drain(t) ==
    /\ At(t, "drain")
    /\ th' = [th EXCEPT ![t] = [Idle EXCEPT !.pc = "emit", !.evs = events]]
    /\ IF events = <<>> THEN UNCHANGED vars ELSE DrainEvents
    /\ UNCHANGED <<registry, signals>>

(* emit_device_state: nothing when the tracked state is the same.          *)
EmitDeviceState(i, s) ==
    IF device_states[i] = s
    THEN UNCHANGED <<device_states, devSignal>>
    ELSE /\ device_states' = [device_states EXCEPT ![i] = s]
         /\ devSignal' = [devSignal EXCEPT ![i] = s]

(* Bug: a connection that has failed is announced as removed.              *)
MutMirrorStateChanged(t, e) ==
    /\ e.kind = "StateChanged"
    /\ actSignal' = [actSignal EXCEPT ![e.active_id] = ActiveNmState(e.current)]
    /\ announced' = IF e.current = "Failed"
                    THEN [announced EXCEPT ![e.active_id] = "removed"]
                    ELSE announced
    /\ th' = [th EXCEPT ![t].evs = Tail(@)]
    /\ UNCHANGED <<registry, devSignal>>

(* Mirror the first drained event. The device of a change is looked up in  *)
(* the list and in the kernel as they are now, and may be gone from        *)
(* either. The list, the kernel and the tracked device states are three    *)
(* lock regions in the code and one step here.                             *)
MirrorStateChanged(t, e) ==
    LET i == CHOOSE j \in Indices : InfoAt[j].interface_name
                                      = EntryOf(e.active_id).device.interface_name
        rest == Tail(th[t].evs)
    IN  /\ e.kind = "StateChanged"
        /\ actSignal' = [actSignal EXCEPT ![e.active_id] = ActiveNmState(e.current)]
        /\ \/ /\ Tracked(e.active_id)
              /\ link[i] # "gone"
              /\ EmitDeviceState(i, ConnectionToDeviceState(e.current))
              /\ th' = [th EXCEPT ![t].evs = rest,
                                  ![t].known = @ \cup {<<e.active_id, i>>}]
           \/ /\ ~(Tracked(e.active_id) /\ link[i] # "gone")
              /\ th' = [th EXCEPT ![t].evs = rest]
              /\ UNCHANGED <<device_states, devSignal>>
        /\ UNCHANGED <<conn_objs, act_objs, root_state, announced>>

(* Bug: an ended connection keeps its object until the daemon restarts.    *)
MutMirrorDeactivated(t, e) ==
    /\ e.kind = "Deactivated"
    /\ announced' = [announced EXCEPT ![e.active_id] = "removed"]
    /\ th' = [th EXCEPT ![t].evs = Tail(@)]
    /\ UNCHANGED <<registry, devSignal, actSignal>>

MirrorDeactivated(t, e) ==
    /\ e.kind = "Deactivated"
    /\ act_objs' = act_objs \ {e.active_id}
    /\ announced' = [announced EXCEPT ![e.active_id] = "removed"]
    /\ th' = [th EXCEPT ![t].evs = Tail(@),
                        ![t].known = { k \in @ : k[1] # e.active_id }]
    /\ IF \E i \in Indices : <<e.active_id, i>> \in th[t].known
       THEN \E i \in Indices : /\ <<e.active_id, i>> \in th[t].known
                               /\ EmitDeviceState(i, "disconnected")
       ELSE UNCHANGED <<device_states, devSignal>>
    /\ UNCHANGED <<conn_objs, root_state, actSignal>>

(* Activated and Failed add nothing to the StateChanged before them.       *)
MirrorOutcome(t, e) ==
    /\ e.kind \in {"Activated", "Failed"}
    /\ th' = [th EXCEPT ![t].evs = Tail(@)]
    /\ UNCHANGED <<registry, signals>>

Emit(t) ==
    /\ At(t, "emit")
    /\ th[t].evs # <<>>
    /\ LET e == Head(th[t].evs)
       IN  MirrorStateChanged(t, e) \/ MirrorDeactivated(t, e) \/ MirrorOutcome(t, e)
    /\ UNCHANGED vars

(* emit_root_state_if_changed reads the list in one region and compares    *)
(* with the tracked state in another.                                      *)
ReadRootState(t) ==
    /\ At(t, "emit")
    /\ th[t].evs = <<>>
    /\ th' = [th EXCEPT ![t] = [Idle EXCEPT !.pc = "root", !.root = CurrentNmState]]
    /\ UNCHANGED <<vars, registry, signals>>

EmitRootState(t) ==
    /\ At(t, "root")
    /\ root_state' = th[t].root
    /\ Return(t)
    /\ UNCHANGED <<vars, conn_objs, act_objs, device_states, signals>>

-----------------------------------------------------------------------------
(* The kernel: an interface goes up or down, or is removed for good.       *)
LinkChange(i, to) ==
    /\ link[i] \notin {"gone", to}
    /\ link' = [link EXCEPT ![i] = to]
    /\ UNCHANGED <<vars, registry, signals, th, overlap>>

(* Server::attach: register_all gives every stored profile and every       *)
(* interface its object.                                                   *)
FacadeInit ==
    /\ profiles \in [ProfileIds -> Settings \cup {None}]
    /\ next_id = 1 /\ active = <<>> /\ events = <<>> /\ engineUp = {}
    /\ view = [a \in ActiveIds |-> "Disconnected"]
    /\ given = [a \in ActiveIds |-> 0]
    /\ link = [i \in Indices |-> "up"]
    /\ conn_objs = { p \in ProfileIds : profiles[p] # None }
    /\ act_objs = {}
    /\ device_states = [i \in Indices |-> CurrentDeviceState(i)]
    /\ root_state = "disconnected"
    /\ devSignal = device_states
    /\ actSignal = [a \in ActiveIds |-> "deactivated"]
    /\ announced = [a \in ActiveIds |-> "no"]
    /\ th = [t \in Threads |-> Idle]
    /\ overlap = FALSE

Call(t) ==
    \/ \E p \in ProfileIds \cup {0}, i \in Indices : ActivateConnection(t, p, i)
    \/ \E p \in ProfileIds, s \in Settings, i \in Indices :
          AddAndActivateConnection(t, p, s, i)
    \/ \E id \in ActiveIds : DeactivateConnection(t, id)
    \/ \E i \in Indices : Disconnect(t, i)
    \/ \E i \in Indices : DeviceDelete(t, i)
    \/ \E p \in ProfileIds, s \in Settings : AddConnection(t, p, s)
    \/ \E p \in ProfileIds : ConnectionDelete(t, p)
    \/ \E p \in ProfileIds, s \in Settings : ConnectionUpdate(t, p, s)

Region(t) ==
    \/ Create(t) \/ RegisterConnectionObject(t) \/ LookUpDevice(t)
    \/ ActivateUnderLock(t) \/ RegisterActiveConnectionObject(t)
    \/ AnnounceAdded(t) \/ LookUpActive(t) \/ DeactivateUnderLock(t)
    \/ DeleteUnderLock(t) \/ UnregisterConnection(t)
    \/ Drain(t) \/ Emit(t) \/ ReadRootState(t) \/ EmitRootState(t)

FacadeNext ==
    \/ \E t \in BusThreads : Call(t)
    \/ \E t \in OwnerThreads, id \in ActiveIds : OwnerTeardown(t, id)
    \/ \E t \in Threads : Region(t)
    \/ \E i \in Indices, to \in LinkStates : LinkChange(i, to)

FacadeSpec == FacadeInit /\ [][FacadeNext]_fvars

-----------------------------------------------------------------------------
(* Properties.                                                             *)

(* The registries and the threads' locals have their types.                *)
FacadeTypeOK ==
    /\ TypeOK
    /\ link \in [Indices -> {"up", "down", "gone"}]
    /\ conn_objs \subseteq ProfileIds
    /\ act_objs \subseteq ActiveIds
    /\ device_states \in [Indices -> DeviceStates]
    /\ root_state \in {"connected", "disconnected"}
    /\ devSignal \in [Indices -> DeviceStates]
    /\ actSignal \in [ActiveIds -> {"activating", "activated", "deactivating",
                                    "deactivated"}]
    /\ announced \in [ActiveIds -> {"no", "added", "removed"}]
    /\ \A t \in Threads : /\ th[t].pc \in Pcs
                          /\ th[t].op \in Ops
                          /\ th[t].evs \in Seq(ConnectionEvent)
    /\ overlap \in BOOLEAN

AllIdle == \A t \in Threads : th[t].pc = "idle"

(* However handlers and the embedding program interleave, a live           *)
(* connection keeps its object once its handler has registered it, and a   *)
(* client is told that a connection was removed only when it is gone.      *)
LiveConnectionsHaveObjects ==
    /\ \A k \in DOMAIN active :
          active[k].state = "Activated" =>
             \/ active[k].id \in act_objs
             \/ \E t \in Threads : th[t].pc = "register" /\ th[t].id = active[k].id
    /\ \A a \in ActiveIds : announced[a] = "removed" => ~Tracked(a)

(* As long as operations have not overlapped, a client that has seen every *)
(* signal agrees with one that reads the properties: on the daemon's       *)
(* state, on the state of every connection, and on which of them have      *)
(* objects. The events a failed call left in the queue are not mirrored    *)
(* yet, so the queue must be empty.                                        *)
QuietBusAgrees ==
    ~overlap /\ AllIdle /\ events = <<>> =>
        /\ root_state = RootProperties.state
        /\ act_objs \subseteq RootProperties.connections
        /\ act_objs = { a \in ActiveIds : announced[a] = "added" }
        /\ \A a \in RootProperties.connections :
              actSignal[a] = ActiveProperties(a).state
        /\ \A a \in ActiveIds \ RootProperties.connections :
              actSignal[a] = "deactivated"

(* "So the bus view and the domain view never diverge" (settings.rs): with *)
(* no handler under way the Settings.Connection objects are exactly the    *)
(* stored profiles, whichever interface added or deleted them.             *)
ConnectionObjectsAgree ==
    (Cardinality(BusThreads) = 1 /\ \A t \in BusThreads : th[t].pc = "idle") =>
        /\ ListConnections = conn_objs
        /\ \A p \in ProfileIds : profiles[p] # None => p \in conn_objs

(* What docs/compat.md says of Device.StateChanged, "ok (emitted on        *)
(* disconnect/delete)": once a disconnect has run its course, the last     *)
(* state announced for the device is no longer activated.                  *)
DisconnectIsAnnounced ==
    ~overlap /\ AllIdle /\ events = <<>> =>
        \A i \in Indices :
            link[i] # "gone" /\ OnDevice(i) = {} => devSignal[i] # "activated"

=============================================================================
