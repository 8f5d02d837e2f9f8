-------------------------- MODULE DbusFacade_proofs --------------------------
(***************************************************************************)
(* Proofs about the D-Bus facade, for any number of handler threads and of *)
(* threads of the embedding program, any profiles, interfaces and policy.  *)
(* What ActivationManager_proofs shows of the manager is used as it is:    *)
(* every region of a handler is a step of the manager or leaves it alone.  *)
(***************************************************************************)
EXTENDS DbusFacade, ActivationManager_proofs, FiniteSetTheorems, NaturalsInduction

-----------------------------------------------------------------------------
(* The inductive invariant.                                                *)

Thread ==
    [pc : Pcs, op : Ops, prof : ProfileIds \cup {0}, settings : Settings \cup {None},
     index : Indices \cup {0}, id : ActiveIds \cup {0}, evs : Seq(ConnectionEvent),
     known : SUBSET (ActiveIds \X Indices), root : {"connected", "disconnected"}]

(* The device of every entry is one of the interfaces that have an object. *)
OnBus == \A k \in DOMAIN active : \E j \in Indices : active[k].device = InfoAt[j]

(* A handler carries the arguments that its next region uses.              *)
ArgsFit(w) ==
    /\ w.pc \in {"create", "object"} => /\ w.prof \in ProfileIds
                                        /\ w.op \in {"Add", "AddAndActivate"}
                                        /\ w.op = "AddAndActivate" => w.index \in Indices
    /\ w.pc = "create" => w.settings \in Settings
    /\ w.pc \in {"device", "activate", "name", "active"} => w.index \in Indices
    /\ w.pc \in {"register", "added"} => w.id \in ActiveIds /\ w.id < next_id
    /\ w.pc = "deactivate" => w.id \in ActiveIds
    /\ w.pc \in {"delete", "unregister"} => w.prof \in ProfileIds
    /\ w.pc # "emit" => w.evs = <<>>

(* A handle whose connection was listed once and is not any more.          *)
Gone(a) == ~Tracked(a) /\ a < next_id

(* Deactivated is only ever said of such a handle: in the queue, in what a *)
(* thread has drained of it, and on the bus.                               *)
TellsOfGone(evs) ==
    \A k \in DOMAIN evs : evs[k].kind = "Deactivated" => Gone(evs[k].active_id)

Obituaries ==
    /\ TellsOfGone(events)
    /\ \A t \in Threads : TellsOfGone(th[t].evs)
    /\ \A a \in ActiveIds : announced[a] = "removed" => Gone(a)

Registering(a) == \E t \in Threads : th[t].pc = "register" /\ th[t].id = a

LiveHaveObjects ==
    \A k \in DOMAIN active :
        active[k].state = "Activated" =>
            active[k].id \in act_objs \/ Registering(active[k].id)

FInv ==
    /\ FacadeTypeOK /\ th \in [Threads -> Thread]
    /\ IInv /\ Chronicled
    /\ OnBus /\ (\A t \in Threads : ArgsFit(th[t]))
    /\ Obituaries /\ LiveHaveObjects

-----------------------------------------------------------------------------
(* With one thread of the object server, the profile it is adding or       *)
(* deleting is the only one the objects and the store can disagree on.     *)
OwnerPcs == {"idle", "deactivate", "drain", "emit", "root"}

Stored == { p \in ProfileIds : profiles[p] # None }

FollowsStore(b) ==
    /\ th[b].pc = "object" => /\ th[b].prof \in Stored
                              /\ conn_objs = Stored \ {th[b].prof}
    /\ th[b].pc = "unregister" => Stored = conn_objs \ {th[b].prof}
    /\ th[b].pc \notin {"object", "unregister"} => conn_objs = Stored

ObjectsFollowStore ==
    /\ \A t \in Threads \ BusThreads : th[t].pc \in OwnerPcs
    /\ \A b \in BusThreads : BusThreads = {b} => FollowsStore(b)

-----------------------------------------------------------------------------
(* As long as no two operations have overlapped, one thread at a time is   *)
(* busy, and what the bus has been told differs from the manager by what   *)
(* that thread has still to say and what is still in the queue.            *)

Dead(evs, a) ==
    \E k \in DOMAIN evs : evs[k].kind = "Deactivated" /\ evs[k].active_id = a

(* w is what the one busy thread is doing.                                 *)
ObjectsExplained(w) ==
    /\ \A a \in act_objs : Tracked(a) \/ Dead(events, a) \/ Dead(w.evs, a)
    /\ \A a \in ActiveIds :
          a \in act_objs <=> (announced[a] = "added" \/ (w.pc = "added" /\ w.id = a))
    /\ w.pc = "register" => Tracked(w.id)

RootExplained(w) ==
    /\ w.pc = "root" => w.root = CurrentNmState
    /\ root_state = CurrentNmState \/ events # <<>> \/ w.pc \in {"emit", "root"}

(* The last signal of a connection, and the events still to be mirrored,   *)
(* lead to what the consumer of all drained events knows.                  *)
SignalLeadsTo(evs, a) ==
    \E s \in ConnectionStates :
        actSignal[a] = ActiveNmState(s) /\ Replays(evs, a, s, view[a])

SignalsExplained(w) == \A a \in ActiveIds : SignalLeadsTo(w.evs, a)

Explained(w) == ObjectsExplained(w) /\ RootExplained(w) /\ SignalsExplained(w)

Alone(t) == \A u \in Threads : u # t => th[u].pc = "idle"

Solo ==
    ~overlap => /\ AllIdle => Explained(Idle)
                /\ \A t \in Threads : th[t].pc # "idle" => Alone(t) /\ Explained(th[t])

-----------------------------------------------------------------------------
(* What a step of the manager means for the handles.                       *)

(* The queue never says Deactivated of a handle but the one a successful   *)
(* teardown has just taken off the list.                                   *)
LEMMA NewEvents ==
    ASSUME IInv, [Next]_vars
    PROVE  \A k \in DOMAIN events' :
              events'[k].kind = "Deactivated" =>
                 \/ \E m \in DOMAIN events : events[m] = events'[k]
                 \/ /\ events'[k].active_id < next_id'
                    /\ \A i \in DOMAIN active' : active'[i].id # events'[k].active_id
<1>0. events \in Seq(ConnectionEvent)
  BY DEF IInv, TypeOK
<1>1. CASE events' = events \/ events' = <<>>
  BY <1>1
<1>2. CASE Attempts
  <2>1. PICK p \in ProfileIds, d \in Devices, ok \in BOOLEAN :
           ~IsActive(p) /\ ActivateMatching(p, d, ok)
    BY <1>2 DEF Attempts
  <2>2. events' = AttemptEvents(p, ok)
    BY <2>1, ActivateEffect
  <2> DEFINE SC(s, u) == StateChanged(next_id, p, s, u)
             out == Outcome(IF ok THEN "Activated" ELSE "Failed", next_id, p)
  <2>3. /\ \A s, u : SC(s, u).kind # "Deactivated"
        /\ out.kind # "Deactivated"
    BY DEF StateChanged, Outcome
  <2>4. events' = IF ok
                  THEN Append(Append(Append(Append(Append(events,
                           SC("Disconnected", "Preparing")),
                           SC("Preparing", "Configuring")),
                           SC("Configuring", "Activating")),
                           SC("Activating", "Activated")), out)
                  ELSE Append(Append(Append(events,
                           SC("Disconnected", "Preparing")),
                           SC("Preparing", "Failed")), out)
    BY <2>2 DEF AttemptEvents
  <2> HIDE DEF SC, out
  <2> QED BY <1>0, <2>3, <2>4
<1>3. CASE \E id \in ActiveIds, ok, held \in BOOLEAN : Deactivate(id, ok, held)
  <2>1. PICK id \in ActiveIds, ok \in BOOLEAN, held \in BOOLEAN :
           Deactivate(id, ok, held)
    BY <1>3
  <2>2. PICK i \in DOMAIN active : TeardownEffect(i, id, ok, held)
    BY <2>1, DeactivateEffect DEF IInv
  <2> DEFINE SC(s, u) == StateChanged(id, active[i].profile, s, u)
             out == Outcome(IF ok THEN "Deactivated" ELSE "Failed", id,
                            active[i].profile)
  <2>3. /\ \A s, u : SC(s, u).kind # "Deactivated"
        /\ out.active_id = id
        /\ ~ok => out.kind # "Deactivated"
    BY DEF StateChanged, Outcome
  <2>4. events' = Append(Append(Append(events, SC("Activated", "Deactivating")),
                     SC("Deactivating", IF ok THEN "Disconnected" ELSE "Failed")), out)
    BY <2>2 DEF TeardownEffect, TeardownEvents
  <2> HIDE DEF SC, out
  <2>5. ok => \A j \in DOMAIN active' : active'[j].id # id
    <3>1. active \in Seq(ActiveConnection) /\ active[i].id = id
      BY <2>2 DEF IInv, TypeOK, TeardownEffect
    <3>2. \A k \in DOMAIN active : active[k] \in ActiveConnection
      BY <3>1
    <3>3. \A k \in DOMAIN active : active[k].id \in Int /\ k \in Int
      BY <3>1, <3>2, BoundAssumption DEF ActiveConnection, ActiveIds
    <3>4. \A k \in DOMAIN active : active[k].id = id => k = i
      BY <3>1, <3>3 DEF IInv, EntriesUnique
    <3>5. ok => active' = RemoveAt(active, i)
      BY <2>2 DEF TeardownEffect
    <3> QED BY <3>1, <3>4, <3>5, RemoveAtMembers
  <2>6. id < next_id'
    BY <2>2 DEF TeardownEffect, IInv, EntriesUnique
  <2> QED BY <1>0, <2>3, <2>4, <2>5, <2>6
<1> QED BY <1>1, <1>2, <1>3, NextCases DEF IInv, StoreStep, DrainEvents

(* What is gone stays gone.                                                *)
LEMMA GoneForGood ==
    ASSUME IInv, [Next]_vars, NEW a \in Int, Gone(a)
    PROVE  Gone(a)'
<1>1. next_id \in Int /\ next_id' \in Int /\ next_id <= next_id'
  BY FreshHandles
<1>2. \A j \in DOMAIN active : active[j].id # a
  BY DEF Gone, Tracked
<1>3. \A i \in DOMAIN active' : active'[i].id # a
  BY <1>1, <1>2, FreshHandles DEF Gone
<1> QED BY <1>1, <1>3 DEF Gone, Tracked

(* A connection that is gone stays gone: old events stay true.             *)
LEMMA StillTellsOfGone ==
    ASSUME IInv, [Next]_vars, NEW evs \in Seq(ConnectionEvent), TellsOfGone(evs)
    PROVE  TellsOfGone(evs)'
<1>1. \A k \in DOMAIN evs : evs[k] \in ConnectionEvent
  OBVIOUS
<1>2. \A k \in DOMAIN evs : evs[k].active_id \in Int
  BY <1>1, BoundAssumption DEF ConnectionEvent, ActiveIds
<1> QED BY <1>2, GoneForGood DEF TellsOfGone

(* A step of the manager keeps what is said of the gone true.              *)
LEMMA QueueTellsOfGone ==
    ASSUME IInv, [Next]_vars, TellsOfGone(events)
    PROVE  TellsOfGone(events)'
<1> SUFFICES ASSUME NEW k \in DOMAIN events', events'[k].kind = "Deactivated",
                    NEW a, a = events'[k].active_id
             PROVE  a < next_id' /\ \A i \in DOMAIN active' : active'[i].id # a
  BY DEF TellsOfGone, Gone, Tracked
<1>1. CASE \E m \in DOMAIN events : events[m] = events'[k]
  <2>1. PICK m \in DOMAIN events : events[m] = events'[k]
    BY <1>1
  <2>2. events[m] \in ConnectionEvent
    BY DEF IInv, TypeOK
  <2>3. a \in Int /\ Gone(a)
    BY <2>1, <2>2, BoundAssumption DEF ConnectionEvent, ActiveIds, TellsOfGone
  <2> QED BY <2>3, GoneForGood DEF Gone, Tracked
<1> QED BY <1>1, NewEvents

-----------------------------------------------------------------------------
(* A thread moves, the others do not.                                      *)

Moves(t) == th' \in [Threads -> Thread] /\ \A u \in Threads : u # t => th'[u] = th[u]

(* A region that replaces the locals of its own thread.                    *)
LEMMA MovesTo ==
    ASSUME th \in [Threads -> Thread], NEW t \in Threads, NEW w \in Thread,
           th' = [th EXCEPT ![t] = w]
    PROVE  Moves(t) /\ th'[t] = w
BY DEF Moves

(* The locals of a thread without a call.                                  *)
LEMMA IdleType ==
    /\ Idle \in Thread
    /\ Idle.pc = "idle" /\ Idle.op = "none" /\ Idle.prof = 0 /\ Idle.settings = None
    /\ Idle.index = 0 /\ Idle.id = 0 /\ Idle.evs = <<>> /\ Idle.known = {}
    /\ Idle.root = "disconnected"
BY DEF Idle, Thread, Pcs, Ops

(* A handler that returns forgets its locals.                              *)
LEMMA ReturnMoves ==
    ASSUME th \in [Threads -> Thread], NEW t \in Threads, Return(t)
    PROVE  Moves(t) /\ th'[t] = Idle
BY MovesTo, IdleType DEF Return

SameButPc(w, v) ==
    /\ w.op = v.op /\ w.prof = v.prof /\ w.settings = v.settings /\ w.index = v.index
    /\ w.id = v.id /\ w.evs = v.evs /\ w.known = v.known /\ w.root = v.root

(* A handler that goes on keeps them.                                      *)
LEMMA GotoMoves ==
    ASSUME th \in [Threads -> Thread], NEW t \in Threads, NEW next \in Pcs, Goto(t, next)
    PROVE  Moves(t) /\ th'[t].pc = next /\ SameButPc(th'[t], th[t])
<1> DEFINE w == [th[t] EXCEPT !.pc = next]
<1>1. th[t] \in Thread
  OBVIOUS
<1>2. w \in Thread /\ w.pc = next /\ SameButPc(w, th[t])
  BY <1>1 DEF Thread, SameButPc
<1>3. th' = [th EXCEPT ![t] = w]
  BY DEF Goto
<1> HIDE DEF w
<1>4. Moves(t) /\ th'[t] = w
  BY <1>2, <1>3, MovesTo
<1> QED BY <1>2, <1>4

-----------------------------------------------------------------------------
(* What a step has to show of itself for the invariant to be kept.         *)

RegistryType ==
    /\ link \in [Indices -> {"up", "down", "gone"}]
    /\ conn_objs \subseteq ProfileIds
    /\ act_objs \subseteq ActiveIds
    /\ device_states \in [Indices -> DeviceStates]
    /\ root_state \in {"connected", "disconnected"}
    /\ devSignal \in [Indices -> DeviceStates]
    /\ actSignal \in [ActiveIds -> {"activating", "activated", "deactivating",
                                    "deactivated"}]
    /\ announced \in [ActiveIds -> {"no", "added", "removed"}]
    /\ overlap \in BOOLEAN

(* What a region of one thread has to show: the others keep their part     *)
(* of the invariant by themselves.                                         *)
LEMMA StepKeeps ==
    ASSUME FInv, [Next]_vars, NEW t \in Threads, Moves(t),
           RegistryType', OnBus', LiveHaveObjects',
           ArgsFit(th[t])', TellsOfGone(th[t].evs)',
           \A a \in ActiveIds :
              announced'[a] = "removed" => announced[a] = "removed" \/ Gone(a)'
    PROVE  FInv'
<1>1. IInv'
  BY NextIInv DEF FInv
<1>2. Chronicled'
  BY <1>1, NextChronicled DEF FInv
<1>3. next_id \in Int /\ next_id' \in Int /\ next_id <= next_id'
  BY FreshHandles DEF FInv
<1>4. th' \in [Threads -> Thread]
  BY DEF Moves
<1>5. FacadeTypeOK'
  <2>1. \A u \in Threads : th'[u] \in Thread
    BY <1>4
  <2>2. \A u \in Threads : /\ th'[u].pc \in Pcs /\ th'[u].op \in Ops
                           /\ th'[u].evs \in Seq(ConnectionEvent)
    BY <2>1 DEF Thread
  <2> QED BY <1>1, <2>2 DEF RegistryType, FacadeTypeOK, IInv
<1>6. \A u \in Threads : ArgsFit(th[u])'
  <2> SUFFICES ASSUME NEW u \in Threads, u # t PROVE ArgsFit(th[u])'
    OBVIOUS
  <2>1. th'[u] = th[u] /\ th[u] \in Thread /\ ArgsFit(th[u])
    BY DEF Moves, FInv
  <2>2. \A a \in ActiveIds : a < next_id => a < next_id'
    BY <1>3, BoundAssumption DEF ActiveIds
  <2> QED BY <2>1, <2>2 DEF ArgsFit
<1>7. Obituaries'
  <2>1. TellsOfGone(events)'
    BY QueueTellsOfGone DEF FInv, Obituaries
  <2>2. ASSUME NEW u \in Threads, u # t PROVE TellsOfGone(th[u].evs)'
    <3>1. th'[u] = th[u] /\ th[u] \in Thread /\ TellsOfGone(th[u].evs)
      BY <2>2 DEF Moves, FInv, Obituaries
    <3>2. th[u].evs \in Seq(ConnectionEvent)
      BY <3>1 DEF Thread
    <3>3. \A evs \in Seq(ConnectionEvent) : TellsOfGone(evs) => TellsOfGone(evs)'
      BY StillTellsOfGone DEF FInv
    <3> QED BY <3>1, <3>2, <3>3 DEF TellsOfGone
  <2>3. \A a \in ActiveIds : Gone(a) => Gone(a)'
    BY GoneForGood, BoundAssumption DEF FInv, ActiveIds
  <2>4. \A a \in ActiveIds : announced'[a] = "removed" => Gone(a)'
    BY <2>3 DEF FInv, Obituaries
  <2> QED BY <2>1, <2>2, <2>4 DEF Obituaries
<1> QED BY <1>1, <1>2, <1>4, <1>5, <1>6, <1>7 DEF FInv

(* The entries are those there were: nothing new has to have an object.    *)
LEMMA NothingNew ==
    ASSUME FInv, NEW t \in Threads, Moves(t), th[t].pc # "register",
           act_objs \subseteq act_objs',
           \A k \in DOMAIN active' :
               \E m \in DOMAIN active :
                   /\ active[m].device = active'[k].device
                   /\ active'[k].state = "Activated" =>
                         active[m].state = "Activated" /\ active[m].id = active'[k].id
    PROVE  OnBus' /\ LiveHaveObjects'
<1>1. OnBus'
  BY DEF FInv, OnBus
<1>2. \A a : Registering(a) => \E u \in Threads : th'[u].pc = "register" /\ th'[u].id = a
  BY DEF Registering, Moves
<1>3. LiveHaveObjects'
  <2> SUFFICES ASSUME NEW k \in DOMAIN active', active'[k].state = "Activated"
               PROVE  \/ active'[k].id \in act_objs'
                      \/ \E u \in Threads : /\ th'[u].pc = "register"
                                            /\ th'[u].id = active'[k].id
    BY DEF LiveHaveObjects, Registering
  <2>1. PICK m \in DOMAIN active : active[m].state = "Activated" /\ active[m].id = active'[k].id
    OBVIOUS
  <2> QED BY <1>2, <2>1 DEF FInv, LiveHaveObjects
<1> QED BY <1>1, <1>3

(* No events are true of any state.                                        *)
LEMMA NothingToTellOf == TellsOfGone(<<>>)
BY DEF TellsOfGone

(* A region that leaves the list, the registries and the bus alone.        *)
LEMMA ThreadOnly ==
    ASSUME FInv, NEW t \in Threads, Moves(t), th[t].pc # "register",
           [Next]_vars, UNCHANGED <<next_id, active>>,
           UNCHANGED <<link, registry, signals>>, overlap' \in BOOLEAN,
           ArgsFit(th[t])', th'[t].evs \in {<<>>, events}
    PROVE  FInv'
<1>1. UNCHANGED <<link, conn_objs, act_objs, device_states, root_state, devSignal,
                  actSignal, announced>>
  BY DEF registry, signals
<1>2. RegistryType'
  BY <1>1 DEF RegistryType, FInv, FacadeTypeOK
<1>3. OnBus' /\ LiveHaveObjects'
  BY <1>1, NothingNew
<1>4. TellsOfGone(th[t].evs)'
  BY DEF TellsOfGone, Gone, Tracked, FInv, Obituaries
<1> QED BY <1>1, <1>2, <1>3, <1>4, StepKeeps

(* Every method call starts with arguments its regions can use.            *)
LEMMA BeginStep ==
    ASSUME FInv, NEW t \in Threads, NEW w \in Thread, Begin(t, w), ArgsFit(w),
           w.evs = <<>>
    PROVE  FInv'
<1>1. th \in [Threads -> Thread]
  BY DEF FInv
<1>2. Moves(t) /\ th'[t] = w
  BY <1>1, MovesTo DEF Begin
<1>3. overlap' \in BOOLEAN
  BY Zenon DEF Begin, FInv, FacadeTypeOK
<1>4. /\ th[t].pc # "register" /\ UNCHANGED <<link, registry, signals>>
      /\ [Next]_vars /\ UNCHANGED <<next_id, active>>
  BY DEF Begin, vars
<1>5. ArgsFit(th[t])'
  BY <1>2, <1>4 DEF ArgsFit
<1> QED BY <1>2, <1>3, <1>4, <1>5, ThreadOnly

(* A call that is let in starts with arguments that fit, or updates.       *)
Started(t) ==
    \E w \in Thread : /\ Begin(t, w) /\ ArgsFit(w) /\ w.evs = <<>>
                      /\ w.pc \in {"device", "create", "deactivate", "name", "delete"}

(* A D-Bus method enters a region, or is an update, which is done at once. *)
LEMMA CallCases ==
    ASSUME FInv, NEW t \in BusThreads, Call(t)
    PROVE  \/ Started(t)
           \/ \E p \in ProfileIds, s \in Settings : ConnectionUpdate(t, p, s)
<1>1. ASSUME NEW p \in ProfileIds \cup {0}, NEW i \in Indices, ActivateConnection(t, p, i)
      PROVE  Started(t)
  <2> DEFINE w == [Idle EXCEPT !.pc = "device", !.op = "Activate",
                               !.prof = p, !.index = i]
  <2>2. w \in Thread /\ w.pc = "device" /\ w.index = i /\ w.evs = <<>>
    BY IdleType DEF Thread, Pcs, Ops
  <2>3. Begin(t, w)
    BY <1>1 DEF ActivateConnection
  <2> HIDE DEF w
  <2>4. ArgsFit(w)
    BY <2>2 DEF ArgsFit
  <2> QED BY <2>2, <2>3, <2>4 DEF Started
<1>2. ASSUME NEW p \in ProfileIds, NEW s \in Settings, NEW i \in Indices,
             AddAndActivateConnection(t, p, s, i)
      PROVE  Started(t)
  <2> DEFINE w == [Idle EXCEPT !.pc = "create", !.op = "AddAndActivate",
                               !.prof = p, !.settings = s, !.index = i]
  <2>2. /\ w \in Thread /\ w.pc = "create" /\ w.op = "AddAndActivate" /\ w.prof = p
        /\ w.settings = s /\ w.index = i /\ w.evs = <<>>
    BY IdleType DEF Thread, Pcs, Ops
  <2>3. Begin(t, w)
    BY <1>2 DEF AddAndActivateConnection
  <2> HIDE DEF w
  <2>4. ArgsFit(w)
    BY <2>2 DEF ArgsFit
  <2> QED BY <2>2, <2>3, <2>4 DEF Started
<1>3. ASSUME NEW id \in ActiveIds, DeactivateConnection(t, id)
      PROVE  Started(t)
  <2> DEFINE w == [Idle EXCEPT !.pc = "deactivate", !.op = "Deactivate", !.id = id]
  <2>2. w \in Thread /\ w.pc = "deactivate" /\ w.id = id /\ w.evs = <<>>
    BY IdleType DEF Thread, Pcs, Ops
  <2>3. Begin(t, w)
    BY <1>3 DEF DeactivateConnection
  <2> HIDE DEF w
  <2>4. ArgsFit(w)
    BY <2>2 DEF ArgsFit
  <2> QED BY <2>2, <2>3, <2>4 DEF Started
<1>4. ASSUME NEW i \in Indices, NEW what \in {"Disconnect", "DeviceDelete"},
             Begin(t, [Idle EXCEPT !.pc = "name", !.op = what, !.index = i])
      PROVE  Started(t)
  <2> DEFINE w == [Idle EXCEPT !.pc = "name", !.op = what, !.index = i]
  <2>2. w \in Thread /\ w.pc = "name" /\ w.index = i /\ w.evs = <<>>
    BY IdleType DEF Thread, Pcs, Ops
  <2>3. Begin(t, w)
    BY <1>4
  <2> HIDE DEF w
  <2>4. ArgsFit(w)
    BY <2>2 DEF ArgsFit
  <2> QED BY <2>2, <2>3, <2>4 DEF Started
<1>5. ASSUME NEW p \in ProfileIds, NEW s \in Settings, AddConnection(t, p, s)
      PROVE  Started(t)
  <2> DEFINE w == [Idle EXCEPT !.pc = "create", !.op = "Add",
                               !.prof = p, !.settings = s]
  <2>2. /\ w \in Thread /\ w.pc = "create" /\ w.op = "Add" /\ w.prof = p
        /\ w.settings = s /\ w.evs = <<>>
    BY IdleType DEF Thread, Pcs, Ops
  <2>3. Begin(t, w)
    BY <1>5 DEF AddConnection
  <2> HIDE DEF w
  <2>4. ArgsFit(w)
    BY <2>2 DEF ArgsFit
  <2> QED BY <2>2, <2>3, <2>4 DEF Started
<1>6. ASSUME NEW p \in ProfileIds, ConnectionDelete(t, p)
      PROVE  Started(t)
  <2> DEFINE w == [Idle EXCEPT !.pc = "delete", !.op = "Delete", !.prof = p]
  <2>2. w \in Thread /\ w.pc = "delete" /\ w.prof = p /\ w.evs = <<>>
    BY IdleType DEF Thread, Pcs, Ops
  <2>3. Begin(t, w)
    BY <1>6 DEF ConnectionDelete
  <2> HIDE DEF w
  <2>4. ArgsFit(w)
    BY <2>2 DEF ArgsFit
  <2> QED BY <2>2, <2>3, <2>4 DEF Started
<1> QED BY <1>1, <1>2, <1>3, <1>4, <1>5, <1>6 DEF Call, Disconnect, DeviceDelete

(* Update changes the store and no connection.                             *)
LEMMA UpdateStep ==
    ASSUME FInv, NEW t \in Threads, NEW p \in ProfileIds, NEW s \in Settings,
           ConnectionUpdate(t, p, s)
    PROVE  FInv'
<1>1. /\ th[t].pc = "idle" /\ UpdateProfile(p, s)
      /\ UNCHANGED <<link, registry, signals, th>>
  BY DEF ConnectionUpdate
<1>2. UNCHANGED <<next_id, active, events>> /\ [Next]_vars
  BY <1>1 DEF UpdateProfile, Next
<1>3. overlap' \in BOOLEAN
  BY Zenon DEF ConnectionUpdate, FInv, FacadeTypeOK
<1>4. RegistryType'
  BY <1>1, <1>3 DEF RegistryType, registry, signals, FInv, FacadeTypeOK
<1>5. Moves(t)
  BY <1>1 DEF Moves, FInv
<1>6. OnBus' /\ LiveHaveObjects'
  BY <1>1, <1>2, <1>5, NothingNew DEF registry
<1>7. ArgsFit(th[t])' /\ TellsOfGone(th[t].evs)'
  BY <1>1, <1>2 DEF FInv, ArgsFit, Obituaries, TellsOfGone, Gone, Tracked
<1> QED BY <1>1, <1>2, <1>4, <1>5, <1>6, <1>7, StepKeeps DEF signals

(* A D-Bus method is called.                                               *)
LEMMA CallStep ==
    ASSUME FInv, NEW t \in BusThreads, Call(t)
    PROVE  FInv'
<1> t \in Threads
  BY DEF Threads
<1> QED BY CallCases, BeginStep, UpdateStep DEF Started

(* The embedding program starts a teardown.                                *)
LEMMA OwnerStarts ==
    ASSUME FInv, NEW t \in OwnerThreads, NEW id \in ActiveIds, OwnerTeardown(t, id)
    PROVE  \E w \in Thread : /\ Begin(t, w) /\ ArgsFit(w) /\ w.evs = <<>>
                             /\ w.pc = "deactivate"
<1> DEFINE w == [Idle EXCEPT !.pc = "deactivate", !.op = "Deactivate", !.id = id]
<1>2. w \in Thread /\ w.pc = "deactivate" /\ w.id = id /\ w.evs = <<>>
  BY IdleType DEF Thread, Pcs, Ops
<1>3. Begin(t, w)
  BY DEF OwnerTeardown
<1> HIDE DEF w
<1>4. ArgsFit(w)
  BY <1>2 DEF ArgsFit
<1> QED BY <1>2, <1>3, <1>4

(* It does so in any state of the handlers.                                *)
LEMMA OwnerStep ==
    ASSUME FInv, NEW t \in OwnerThreads, NEW id \in ActiveIds, OwnerTeardown(t, id)
    PROVE  FInv'
<1> t \in Threads
  BY DEF Threads
<1> QED BY OwnerStarts, BeginStep

(* A handler that returns.                                                 *)
LEMMA ReturnStep ==
    ASSUME FInv, NEW t \in Threads, Return(t), th[t].pc # "register",
           UNCHANGED vars, UNCHANGED <<link, registry, signals, overlap>>
    PROVE  FInv'
<1>1. Moves(t) /\ th'[t] = Idle
  BY ReturnMoves DEF FInv
<1>2. ArgsFit(th[t])' /\ th'[t].evs = <<>>
  BY <1>1, IdleType DEF ArgsFit
<1>3. [Next]_vars /\ UNCHANGED <<next_id, active>> /\ UNCHANGED <<link, registry, signals>>
  BY DEF vars
<1>4. overlap' \in BOOLEAN
  BY DEF FInv, FacadeTypeOK
<1> QED BY <1>1, <1>2, <1>3, <1>4, ThreadOnly

(* The regions that use the profile store.                                 *)
LEMMA StoreRegion ==
    ASSUME FInv, NEW t \in Threads, NEW next \in Pcs, Goto(t, next),
           th[t].pc \in {"create", "delete"},
           [Next]_vars, UNCHANGED <<next_id, active>>,
           UNCHANGED <<link, registry, signals, overlap>>,
           (th[t].pc = "create" /\ next = "object") \/ (th[t].pc = "delete" /\ next = "unregister")
    PROVE  FInv'
<1>1. th \in [Threads -> Thread] /\ th[t] \in Thread /\ ArgsFit(th[t])
  BY DEF FInv
<1>2. Moves(t) /\ th'[t].pc = next /\ SameButPc(th'[t], th[t])
  BY <1>1, GotoMoves
<1>3. ArgsFit(th[t])' /\ th'[t].evs = <<>>
  BY <1>1, <1>2 DEF ArgsFit, SameButPc
<1>4. overlap' \in BOOLEAN /\ UNCHANGED <<link, registry, signals>> /\ th[t].pc # "register"
  BY DEF FInv, FacadeTypeOK
<1> QED BY <1>2, <1>3, <1>4, ThreadOnly

(* A profile is created under the lock.                                    *)
LEMMA CreateStep ==
    ASSUME FInv, NEW t \in Threads, Create(t)
    PROVE  FInv'
<1>1. /\ th[t].pc = "create" /\ UNCHANGED <<link, registry, signals, overlap>>
      /\ th[t].prof \in ProfileIds /\ th[t].settings \in Settings
  BY DEF Create, At, FInv, ArgsFit
<1>2. CASE CreateProfile(th[t].prof, th[t].settings) /\ Goto(t, "object")
  <2>1. [Next]_vars /\ UNCHANGED <<next_id, active>> /\ "object" \in Pcs
    BY <1>1, <1>2 DEF Next, CreateProfile, Pcs
  <2> QED BY <1>1, <1>2, <2>1, StoreRegion
<1>3. CASE UNCHANGED vars /\ Return(t)
  BY <1>1, <1>3, ReturnStep
<1> QED BY <1>2, <1>3 DEF Create

(* A profile is deleted under the lock.                                    *)
LEMMA DeleteStep ==
    ASSUME FInv, NEW t \in Threads, DeleteUnderLock(t)
    PROVE  FInv'
<1>1. /\ th[t].pc = "delete" /\ UNCHANGED <<link, registry, signals, overlap>>
      /\ th[t].prof \in ProfileIds
  BY DEF DeleteUnderLock, At, FInv, ArgsFit
<1>2. CASE DeleteProfile(th[t].prof) /\ Goto(t, "unregister")
  <2>1. [Next]_vars /\ UNCHANGED <<next_id, active>> /\ "unregister" \in Pcs
    BY <1>1, <1>2 DEF Next, DeleteProfile, Pcs
  <2> QED BY <1>1, <1>2, <2>1, StoreRegion
<1>3. CASE UNCHANGED vars /\ Return(t)
  BY <1>1, <1>3, ReturnStep
<1> QED BY <1>2, <1>3 DEF DeleteUnderLock

(* A handler finds its device by an enumeration.                           *)
LEMMA LookUpDeviceStep ==
    ASSUME FInv, NEW t \in Threads, LookUpDevice(t)
    PROVE  FInv'
<1>1. /\ th[t].pc \in {"device", "name"} /\ UNCHANGED vars
      /\ UNCHANGED <<link, registry, signals, overlap>>
  BY DEF LookUpDevice, At
<1>2. CASE Goto(t, IF th[t].pc = "device" THEN "activate" ELSE "active")
  <2>1. PICK next \in {"activate", "active"} : Goto(t, next)
    BY <1>2
  <2>2. th \in [Threads -> Thread] /\ th[t] \in Thread /\ ArgsFit(th[t]) /\ next \in Pcs
    BY DEF FInv, Pcs
  <2>3. Moves(t) /\ th'[t].pc = next /\ SameButPc(th'[t], th[t])
    BY <2>1, <2>2, GotoMoves
  <2>4. ArgsFit(th[t])' /\ th'[t].evs = <<>>
    BY <1>1, <2>2, <2>3 DEF ArgsFit, SameButPc
  <2>5. [Next]_vars /\ UNCHANGED <<next_id, active>> /\ overlap' \in BOOLEAN
    BY <1>1 DEF vars, FInv, FacadeTypeOK
  <2> QED BY <1>1, <2>3, <2>4, <2>5, ThreadOnly
<1>3. CASE Return(t)
  BY <1>1, <1>3, ReturnStep
<1> QED BY <1>2, <1>3 DEF LookUpDevice

(* The entry device_active finds is one of the list.                       *)
LEMMA FirstIsListed ==
    ASSUME TypeOK, NEW i, OnDevice(i) # {}
    PROVE  \E k \in DOMAIN active : FirstOnDevice(i) = active[k]
<1>1. OnDevice(i) \subseteq Nat /\ OnDevice(i) \subseteq DOMAIN active
  BY DEF OnDevice, TypeOK
<1>2. \E k \in OnDevice(i) : \A m \in OnDevice(i) : k <= m
  <2> DEFINE R == {ss \in Nat \X Nat : ss[1] < ss[2]}
  <2>1. IsWellFoundedOn(R, Nat)
    BY NatLessThanWellFounded DEF OpToRel
  <2> HIDE DEF R
  <2>2. PICK k \in OnDevice(i) : \A m \in OnDevice(i) : ~(<<m, k>> \in R)
    BY <1>1, <2>1, WFMin
  <2>3. \A m \in OnDevice(i) : k <= m
    <3> TAKE m \in OnDevice(i)
    <3>1. k \in Nat /\ m \in Nat
      BY <1>1
    <3>2. m < k => <<m, k>> \in R
      BY <3>1 DEF R
    <3> QED BY <2>2, <3>1, <3>2
  <2> QED BY <2>3
<1>3. (CHOOSE k \in OnDevice(i) : \A m \in OnDevice(i) : k <= m) \in OnDevice(i)
  BY <1>2
<1> QED BY <1>1, <1>3 DEF FirstOnDevice

(* Disconnect and Delete go on with the entry that was found.              *)
LEMMA LookUpActiveCases ==
    ASSUME FInv, NEW t \in Threads, LookUpActive(t)
    PROVE  \/ Return(t)
           \/ \E id \in ActiveIds :
                 th' = [th EXCEPT ![t] = [Idle EXCEPT !.pc = "deactivate",
                                                      !.op = "Deactivate", !.id = id]]
           \/ \E p \in ProfileIds :
                 th' = [th EXCEPT ![t] = [th[t] EXCEPT !.pc = "delete", !.prof = p]]
<1>1. CASE Return(t)
  BY <1>1
<1>2. CASE ~Return(t)
  <2> DEFINE e == FirstOnDevice(th[t].index)
  <2>1. /\ OnDevice(th[t].index) # {}
        /\ th' = [th EXCEPT ![t] =
                     IF th[t].op = "Disconnect"
                     THEN [Idle EXCEPT !.pc = "deactivate", !.op = "Deactivate",
                                       !.id = e.id]
                     ELSE [th[t] EXCEPT !.pc = "delete", !.prof = e.profile]]
    BY <1>2, Zenon DEF LookUpActive
  <2>2. PICK k \in DOMAIN active : e = active[k]
    BY <2>1, FirstIsListed DEF FInv, IInv
  <2>3. e.id \in ActiveIds /\ e.profile \in ProfileIds
    <3>1. e \in ActiveConnection
      BY <2>2 DEF FInv, IInv, TypeOK
    <3> QED BY <3>1 DEF ActiveConnection
  <2> HIDE DEF e
  <2> QED BY <2>1, <2>3, Zenon
<1> QED BY <1>1, <1>2

(* A handler looks for the connection it is to take down.                  *)
LEMMA LookUpActiveMoves ==
    ASSUME FInv, NEW t \in Threads, LookUpActive(t)
    PROVE  /\ Moves(t) /\ th'[t].evs = <<>> /\ ArgsFit(th[t])'
           /\ th'[t].pc \in {"idle", "deactivate", "delete"}
<1>1. /\ th[t].pc = "active" /\ UNCHANGED vars
      /\ UNCHANGED <<link, registry, signals, overlap>>
      /\ th[t] \in Thread /\ th[t].evs = <<>>
  BY DEF LookUpActive, At, FInv, ArgsFit
<1> DEFINE Goal == /\ Moves(t) /\ th'[t].evs = <<>> /\ ArgsFit(th[t])'
                   /\ th'[t].pc \in {"idle", "deactivate", "delete"}
<1>3. ASSUME Return(t)
      PROVE  Goal
  BY <1>1, <1>3, ReturnMoves, IdleType DEF FInv, ArgsFit
<1>4. ASSUME NEW w \in Thread, th' = [th EXCEPT ![t] = w], w.evs = <<>>,
             \/ w.pc = "deactivate" /\ w.id \in ActiveIds
             \/ w.pc = "delete" /\ w.prof \in ProfileIds
      PROVE  Goal
  <2>1. Moves(t) /\ th'[t] = w
    BY <1>4, MovesTo DEF FInv
  <2>2. ArgsFit(th[t])' /\ th'[t].evs = <<>>
    BY <1>4, <2>1 DEF ArgsFit
  <2> QED BY <1>4, <2>1, <2>2
<1> HIDE DEF Goal
<1>5. ASSUME NEW id \in ActiveIds,
             th' = [th EXCEPT ![t] = [Idle EXCEPT !.pc = "deactivate",
                                                  !.op = "Deactivate", !.id = id]]
      PROVE  Goal
  <2> DEFINE w == [Idle EXCEPT !.pc = "deactivate", !.op = "Deactivate", !.id = id]
  <2>1. w \in Thread /\ w.evs = <<>> /\ w.pc = "deactivate" /\ w.id = id
    BY IdleType DEF Thread, Pcs, Ops
  <2>2. th' = [th EXCEPT ![t] = w]
    BY <1>5
  <2> HIDE DEF w
  <2> QED BY <1>4, <2>1, <2>2
<1>6. ASSUME NEW p \in ProfileIds,
             th' = [th EXCEPT ![t] = [th[t] EXCEPT !.pc = "delete", !.prof = p]]
      PROVE  Goal
  <2> DEFINE w == [th[t] EXCEPT !.pc = "delete", !.prof = p]
  <2>1. w \in Thread /\ w.evs = <<>> /\ w.pc = "delete" /\ w.prof = p
    BY <1>1 DEF Thread, Pcs
  <2>2. th' = [th EXCEPT ![t] = w]
    BY <1>6
  <2> HIDE DEF w
  <2> QED BY <1>4, <2>1, <2>2
<1>7. Goal
  BY <1>3, <1>5, <1>6, LookUpActiveCases, Zenon
<1> QED BY <1>7 DEF Goal

(* That changes only its locals.                                           *)
LEMMA LookUpActiveStep ==
    ASSUME FInv, NEW t \in Threads, LookUpActive(t)
    PROVE  FInv'
<1>1. /\ th[t].pc = "active" /\ UNCHANGED vars
      /\ UNCHANGED <<link, registry, signals, overlap>>
  BY DEF LookUpActive, At
<1>2. [Next]_vars /\ UNCHANGED <<next_id, active>> /\ overlap' \in BOOLEAN
  BY <1>1 DEF vars, FInv, FacadeTypeOK
<1> QED BY <1>1, <1>2, LookUpActiveMoves, ThreadOnly

(* A thread that drains the queue takes all of it.                         *)
LEMMA DrainMoves ==
    ASSUME FInv, NEW t \in Threads, Drain(t)
    PROVE  Moves(t) /\ th'[t].pc = "emit" /\ th'[t].evs = events
<1> DEFINE w == [Idle EXCEPT !.pc = "emit", !.evs = events]
<1>1. th' = [th EXCEPT ![t] = w]
  BY DEF Drain
<1>2. w \in Thread /\ w.pc = "emit" /\ w.evs = events
  BY IdleType DEF Thread, Pcs, FInv, IInv, TypeOK
<1> HIDE DEF w
<1> QED BY <1>1, <1>2, MovesTo DEF FInv

(* The events it takes are true, and stay so while it mirrors them.        *)
LEMMA DrainStep ==
    ASSUME FInv, NEW t \in Threads, Drain(t)
    PROVE  FInv'
<1>1. th[t].pc = "drain" /\ UNCHANGED <<link, registry, signals, overlap>>
  BY DEF Drain, At
<1>2. ArgsFit(th[t])'
  BY DrainMoves DEF ArgsFit
<1>3. [Next]_vars /\ UNCHANGED <<next_id, active>>
  BY DEF Drain, DrainEvents, Next, vars
<1>4. overlap' \in BOOLEAN
  BY <1>1 DEF FInv, FacadeTypeOK
<1> QED BY <1>1, <1>2, <1>3, <1>4, DrainMoves, ThreadOnly

(* The daemon-wide state is read under the lock.                           *)
LEMMA ReadRootMoves ==
    ASSUME FInv, NEW t \in Threads, ReadRootState(t)
    PROVE  /\ Moves(t) /\ th'[t].pc = "root" /\ th'[t].evs = <<>>
           /\ th'[t].root = CurrentNmState
<1> DEFINE w == [Idle EXCEPT !.pc = "root", !.root = CurrentNmState]
<1>1. th' = [th EXCEPT ![t] = w]
  BY DEF ReadRootState
<1>2. w \in Thread /\ w.pc = "root" /\ w.evs = <<>> /\ w.root = CurrentNmState
  BY IdleType DEF Thread, Pcs, CurrentNmState
<1> HIDE DEF w
<1> QED BY <1>1, <1>2, MovesTo DEF FInv

(* That changes only the reader's locals.                                  *)
LEMMA ReadRootStateStep ==
    ASSUME FInv, NEW t \in Threads, ReadRootState(t)
    PROVE  FInv'
<1>1. /\ th[t].pc = "emit" /\ UNCHANGED <<link, registry, signals, overlap>>
      /\ UNCHANGED vars
  BY DEF ReadRootState, At
<1>2. ArgsFit(th[t])'
  BY ReadRootMoves DEF ArgsFit
<1>3. [Next]_vars /\ UNCHANGED <<next_id, active>> /\ overlap' \in BOOLEAN
  BY <1>1 DEF vars, FInv, FacadeTypeOK
<1> QED BY <1>1, <1>2, <1>3, ReadRootMoves, ThreadOnly

-----------------------------------------------------------------------------
(* The regions that use the manager.                                       *)

(* An activation under the lock is refused, or attempts one profile on the *)
(* device it was asked for.                                                *)
LEMMA ActivateCases ==
    ASSUME FInv, NEW t \in Threads, ActivateUnderLock(t)
    PROVE  \/ UNCHANGED vars /\ Return(t)
           \/ \E p \in ProfileIds, ok \in BOOLEAN :
                 /\ [Next]_vars /\ ~IsActive(p)
                 /\ ActivateMatching(p, InfoAt[th[t].index], ok)
                 /\ IF ok
                    THEN th' = [th EXCEPT ![t] = [Idle EXCEPT !.pc = "register",
                                              !.op = th[t].op, !.id = next_id]]
                    ELSE Return(t)
<1> DEFINE d == InfoAt[th[t].index]
           answered(ok) == IF ok
                           THEN th' = [th EXCEPT ![t] = [Idle EXCEPT !.pc = "register",
                                              !.op = th[t].op, !.id = next_id]]
                           ELSE Return(t)
<1>1. d \in Devices /\ th[t].prof \in ProfileIds \cup {0}
  <2>1. th[t] \in Thread /\ ArgsFit(th[t]) /\ th[t].pc = "activate"
    BY DEF FInv, ActivateUnderLock, At
  <2> QED BY <2>1, FacadeAssumption DEF ArgsFit, Thread
<1>2. \/ \E ok \in BOOLEAN : Activate(d, ok) /\ answered(ok)
      \/ \E ok \in BOOLEAN :
            th[t].prof # 0 /\ ActivateProfile(th[t].prof, d, ok) /\ answered(ok)
      \/ UNCHANGED vars /\ Return(t)
  BY Zenon DEF ActivateUnderLock
<1> HIDE DEF d, answered
<1>3. ASSUME NEW ok \in BOOLEAN, Activate(d, ok)
      PROVE  [Next]_vars /\ \E p \in ProfileIds : ~IsActive(p) /\ ActivateMatching(p, d, ok)
  BY <1>1, <1>3 DEF Next, Activate, Candidates
<1>4. ASSUME NEW ok \in BOOLEAN, th[t].prof # 0, ActivateProfile(th[t].prof, d, ok)
      PROVE  [Next]_vars /\ \E p \in ProfileIds : ~IsActive(p) /\ ActivateMatching(p, d, ok)
  BY <1>1, <1>4 DEF Next, ActivateProfile
<1> QED BY <1>2, <1>3, <1>4, Zenon DEF d, answered

(* A successful activation goes on to register its new handle.             *)
LEMMA ActivateMoves ==
    ASSUME FInv, NEW t \in Threads, ActivateUnderLock(t)
    PROVE  /\ Moves(t) /\ th'[t].pc \in {"register", "idle"} /\ th'[t].evs = <<>>
           /\ th'[t].pc = "register" => th'[t].id = next_id
           /\ UNCHANGED profiles
<1>1. th \in [Threads -> Thread] /\ th[t] \in Thread /\ th[t].op \in Ops
  BY DEF FInv, Thread
<1>2. CASE Return(t)
  <2>1. UNCHANGED profiles
    BY ActivateCases DEF vars, ActivateMatching
  <2> QED BY <1>1, <1>2, <2>1, ReturnMoves, IdleType
<1>3. ASSUME NEW p \in ProfileIds, NEW ok \in BOOLEAN,
             ActivateMatching(p, InfoAt[th[t].index], ok),
             th' = [th EXCEPT ![t] = [Idle EXCEPT !.pc = "register",
                                             !.op = th[t].op, !.id = next_id]]
      PROVE  /\ Moves(t) /\ th'[t].pc = "register" /\ th'[t].evs = <<>>
             /\ th'[t].id = next_id /\ UNCHANGED profiles
  <2> DEFINE w == [Idle EXCEPT !.pc = "register", !.op = th[t].op, !.id = next_id]
  <2>1. UNCHANGED profiles /\ next_id \in ActiveIds
    BY <1>3, BoundAssumption DEF ActivateMatching, FInv, IInv, TypeOK, ActiveIds
  <2>2. w \in Thread /\ w.pc = "register" /\ w.id = next_id /\ w.evs = <<>>
    BY <1>1, <2>1, IdleType DEF Thread, Pcs
  <2>3. th' = [th EXCEPT ![t] = w]
    BY <1>3
  <2> HIDE DEF w
  <2> QED BY <1>1, <2>1, <2>2, <2>3, MovesTo
<1> QED BY <1>2, <1>3, ActivateCases

(* The new connection is about to be registered; no other one changes.     *)
LEMMA ActivateStep ==
    ASSUME FInv, NEW t \in Threads, ActivateUnderLock(t)
    PROVE  FInv'
<1>1. th[t].pc = "activate" /\ UNCHANGED <<link, registry, signals, overlap>>
  BY DEF ActivateUnderLock, At
<1>2. CASE UNCHANGED vars /\ Return(t)
  BY <1>1, <1>2, ReturnStep
<1>3. ASSUME NEW p \in ProfileIds, NEW ok \in BOOLEAN, [Next]_vars, ~IsActive(p),
             ActivateMatching(p, InfoAt[th[t].index], ok),
             IF ok THEN th' = [th EXCEPT ![t] = [Idle EXCEPT !.pc = "register",
                                             !.op = th[t].op, !.id = next_id]]
             ELSE Return(t)
      PROVE  FInv'
  <2> DEFINE d == InfoAt[th[t].index]
             w == [Idle EXCEPT !.pc = "register", !.op = th[t].op, !.id = next_id]
  <2>1. /\ th \in [Threads -> Thread] /\ th[t] \in Thread /\ th[t].op \in Ops
        /\ th[t].index \in Indices /\ active \in Seq(ActiveConnection)
    <3>1. th \in [Threads -> Thread] /\ th[t] \in Thread /\ ArgsFit(th[t])
      BY DEF FInv
    <3> QED BY <1>1, <3>1 DEF FInv, IInv, TypeOK, ArgsFit, Thread
  <2>2. /\ next_id \in ActiveIds /\ next_id' = next_id + 1 /\ next_id < next_id'
    BY <1>3, BoundAssumption DEF ActivateMatching, FInv, IInv, TypeOK, ActiveIds
  <2>3. active' = Append(active, NewEntry(p, d, ok))
    BY <1>3, ActivateEffect
  <2>4. /\ NewEntry(p, d, ok).device = d /\ NewEntry(p, d, ok).id = next_id
        /\ NewEntry(p, d, ok).state = IF ok THEN "Activated" ELSE "Failed"
    BY DEF NewEntry
  <2>5. w \in Thread /\ w.pc = "register" /\ w.id = next_id /\ w.evs = <<>>
    BY <2>1, <2>2, IdleType DEF Thread, Pcs
  <2> HIDE DEF w
  <2>6. /\ Moves(t) /\ th'[t].evs = <<>> /\ ArgsFit(th[t])'
        /\ ok => th'[t].pc = "register" /\ th'[t].id = next_id
    <3>1. CASE ok
      <4>1. Moves(t) /\ th'[t] = w
        BY <1>3, <2>1, <2>5, <3>1, MovesTo DEF w
      <4>2. ArgsFit(th[t])'
        BY <2>2, <2>5, <4>1 DEF ArgsFit
      <4> QED BY <2>5, <4>1, <4>2
    <3>2. CASE ~ok
      <4>1. Moves(t) /\ th'[t] = Idle
        BY <1>3, <2>1, <3>2, ReturnMoves
      <4> QED BY <3>2, <4>1, IdleType DEF ArgsFit
    <3> QED BY <3>1, <3>2
  <2>7. /\ Len(active) \in Nat /\ DOMAIN active = 1..Len(active)
        /\ DOMAIN active' = 1..(Len(active) + 1)
        /\ active'[Len(active) + 1] = NewEntry(p, d, ok)
        /\ \A k \in 1..Len(active) : active'[k] = active[k]
    BY <2>1, <2>3
  <2>8. OnBus'
    BY <2>1, <2>4, <2>7 DEF FInv, OnBus
  <2>9. UNCHANGED act_objs
    BY <1>1 DEF registry
  <2>10. LiveHaveObjects'
    <3> SUFFICES ASSUME NEW k \in DOMAIN active', active'[k].state = "Activated"
                 PROVE  \/ active'[k].id \in act_objs'
                        \/ \E u \in Threads : /\ th'[u].pc = "register"
                                              /\ th'[u].id = active'[k].id
      BY DEF LiveHaveObjects, Registering
    <3>1. CASE k = Len(active) + 1
      BY <2>4, <2>6, <2>7, <3>1
    <3>2. CASE k \in 1..Len(active)
      <4>1. active'[k] = active[k] /\ k \in DOMAIN active
        BY <2>7, <3>2
      <4>2. active[k].id \in act_objs \/ Registering(active[k].id)
        BY <4>1 DEF FInv, LiveHaveObjects
      <4>3. CASE Registering(active[k].id)
        <5>1. PICK u \in Threads : th[u].pc = "register" /\ th[u].id = active[k].id
          BY <4>3 DEF Registering
        <5>2. th'[u] = th[u]
          BY <1>1, <2>6, <5>1 DEF Moves
        <5> QED BY <4>1, <5>1, <5>2
      <4> QED BY <2>9, <4>1, <4>2, <4>3
    <3> QED BY <2>7, <3>1, <3>2
  <2>11. RegistryType' /\ UNCHANGED announced
    BY <1>1 DEF RegistryType, registry, signals, FInv, FacadeTypeOK
  <2>12. TellsOfGone(th[t].evs)'
    BY <2>6 DEF TellsOfGone
  <2> QED BY <1>3, <2>6, <2>8, <2>10, <2>11, <2>12, StepKeeps
<1> QED BY <1>2, <1>3, ActivateCases

(* A connection that is taken down is gone before anyone says so.          *)
LEMMA DeactivateStep ==
    ASSUME FInv, NEW t \in Threads, DeactivateUnderLock(t)
    PROVE  FInv'
<1>1. /\ th[t].pc = "deactivate" /\ UNCHANGED <<link, registry, signals, overlap>>
      /\ th[t] \in Thread /\ th[t].id \in ActiveIds /\ th[t].evs = <<>>
  BY DEF DeactivateUnderLock, At, FInv, ArgsFit
<1>2. CASE UNCHANGED vars /\ Return(t)
  BY <1>1, <1>2, ReturnStep
<1>3. ASSUME NEW ok \in BOOLEAN, NEW held \in BOOLEAN, Deactivate(th[t].id, ok, held),
             IF ok THEN Goto(t, "drain") ELSE Return(t)
      PROVE  FInv'
  <2>1. [Next]_vars
    BY <1>1, <1>3 DEF Next
  <2>2. /\ Moves(t) /\ th'[t].evs = <<>> /\ th'[t].pc \in {"drain", "idle"}
    <3>1. CASE ok
      <4>1. Goto(t, "drain") /\ "drain" \in Pcs /\ th \in [Threads -> Thread]
        BY <1>3, <3>1 DEF Pcs, FInv
      <4>2. Moves(t) /\ th'[t].pc = "drain" /\ SameButPc(th'[t], th[t])
        BY <4>1, GotoMoves
      <4> QED BY <1>1, <4>2 DEF SameButPc
    <3>2. CASE ~ok
      BY <1>3, <3>2, ReturnMoves, IdleType DEF FInv
    <3> QED BY <3>1, <3>2
  <2>3. ArgsFit(th[t])' /\ TellsOfGone(th[t].evs)'
    BY <2>2 DEF ArgsFit, TellsOfGone
  <2>4. PICK i \in DOMAIN active : TeardownEffect(i, th[t].id, ok, held)
    BY <1>3, DeactivateEffect DEF FInv, IInv
  <2>5. active \in Seq(ActiveConnection)
    BY DEF FInv, IInv, TypeOK
  <2>6. \A k \in DOMAIN active' :
            \E m \in DOMAIN active :
                /\ active[m].device = active'[k].device
                /\ active'[k].state = "Activated" =>
                      active[m].state = "Activated" /\ active[m].id = active'[k].id
    <3>1. CASE ok
      <4>1. active' = RemoveAt(active, i)
        BY <2>4, <3>1 DEF TeardownEffect
      <4>2. \A k \in DOMAIN active' : \E m \in DOMAIN active : active'[k] = active[m]
        BY <2>5, <4>1, RemoveAtMembers
      <4> QED BY <4>2
    <3>2. CASE ~ok
      <4> DEFINE f == [id |-> th[t].id, profile |-> active[i].profile,
                       device |-> active[i].device, state |-> "Failed"]
      <4>1. active' = [active EXCEPT ![i] = f]
        BY <2>4, <3>2 DEF TeardownEffect
      <4>2. f.device = active[i].device /\ f.state = "Failed"
        OBVIOUS
      <4> HIDE DEF f
      <4> QED BY <2>5, <4>1, <4>2
    <3> QED BY <3>1, <3>2
  <2>7. UNCHANGED <<act_objs, announced>>
    BY <1>1 DEF registry, signals
  <2>8. OnBus' /\ LiveHaveObjects'
    BY <1>1, <2>2, <2>6, <2>7, NothingNew
  <2>9. RegistryType'
    BY <1>1 DEF RegistryType, registry, signals, FInv, FacadeTypeOK
  <2> QED BY <2>1, <2>2, <2>3, <2>7, <2>8, <2>9, StepKeeps
<1> QED BY <1>2, <1>3 DEF DeactivateUnderLock

-----------------------------------------------------------------------------
(* The regions that change the registries and the bus.                     *)

(* What a region that only touches registries and signals has to show.     *)
LEMMA BusRegion ==
    ASSUME FInv, NEW t \in Threads, Moves(t), UNCHANGED vars,
           RegistryType', LiveHaveObjects', ArgsFit(th[t])', TellsOfGone(th[t].evs),
           \A k \in DOMAIN th'[t].evs : \E m \in DOMAIN th[t].evs :
               th'[t].evs[k] = th[t].evs[m],
           \A a \in ActiveIds :
              announced'[a] = "removed" => announced[a] = "removed" \/ Gone(a)
    PROVE  FInv'
<1>1. UNCHANGED <<next_id, active>> /\ [Next]_vars
  BY DEF vars
<1>2. OnBus'
  BY <1>1 DEF FInv, OnBus
<1>3. \A a : Gone(a)' <=> Gone(a)
  BY <1>1 DEF Gone, Tracked
<1>4. TellsOfGone(th[t].evs)'
  BY <1>1 DEF TellsOfGone, Gone, Tracked
<1> QED BY <1>1, <1>2, <1>3, <1>4, StepKeeps

(* The list is as it was, and no object was taken away.                    *)
LEMMA LiveKept ==
    ASSUME FInv, NEW t \in Threads, Moves(t), UNCHANGED vars,
           act_objs \subseteq act_objs',
           th[t].pc = "register" => th[t].id \in act_objs'
    PROVE  LiveHaveObjects'
<1> SUFFICES ASSUME NEW k \in DOMAIN active', active'[k].state = "Activated"
             PROVE  \/ active'[k].id \in act_objs'
                    \/ \E u \in Threads : /\ th'[u].pc = "register"
                                          /\ th'[u].id = active'[k].id
  BY DEF LiveHaveObjects, Registering
<1>1. active' = active
  BY DEF vars
<1>2. active[k].id \in act_objs \/ Registering(active[k].id)
  BY <1>1 DEF FInv, LiveHaveObjects
<1>3. CASE Registering(active[k].id)
  <2>1. PICK u \in Threads : th[u].pc = "register" /\ th[u].id = active[k].id
    BY <1>3 DEF Registering
  <2>2. CASE u = t
    BY <1>1, <2>1, <2>2
  <2>3. CASE u # t
    BY <1>1, <2>1, <2>3 DEF Moves
  <2> QED BY <2>2, <2>3
<1> QED BY <1>1, <1>2, <1>3

(* An added profile's handler goes on to the device, or is done.           *)
LEMMA RegisterConnectionMoves ==
    ASSUME FInv, NEW t \in Threads, RegisterConnectionObject(t)
    PROVE  /\ Moves(t) /\ th'[t].evs = <<>> /\ ArgsFit(th[t])'
           /\ th'[t].pc \in {"device", "idle"}
<1>a. th \in [Threads -> Thread] /\ th[t] \in Thread /\ ArgsFit(th[t])
  BY DEF FInv
<1>b. /\ th[t].prof \in ProfileIds /\ th[t].evs = <<>>
      /\ th[t].op = "AddAndActivate" => th[t].index \in Indices
      /\ th[t].op \in {"Add", "AddAndActivate"}
  BY <1>a DEF ArgsFit, RegisterConnectionObject, At
<1>1. CASE Activating(t)
  <2> DEFINE w == [th[t] EXCEPT !.pc = "device", !.op = "Activate", !.settings = None]
  <2>1. th' = [th EXCEPT ![t] = w]
    BY <1>1 DEF RegisterConnectionObject
  <2>2. /\ w \in Thread /\ w.pc = "device" /\ w.evs = th[t].evs
        /\ w.index = th[t].index
    <3> DEFINE v == [th[t] EXCEPT !.pc = "device", !.op = "Activate"]
    <3>0. "device" \in Pcs /\ "Activate" \in Ops
      BY DEF Pcs, Ops
    <3>1. v \in Thread /\ v.pc = "device" /\ v.evs = th[t].evs /\ v.index = th[t].index
      BY <1>a, <3>0 DEF Thread
    <3>2. w = [v EXCEPT !.settings = None]
      OBVIOUS
    <3> HIDE DEF v, w
    <3> QED BY <3>1, <3>2 DEF Thread
  <2> HIDE DEF w
  <2>3. Moves(t) /\ th'[t] = w
    BY <1>a, <2>1, <2>2, MovesTo
  <2>4. th[t].index \in Indices
    BY <1>b, <1>1 DEF Activating
  <2>5. ArgsFit(th[t])'
    BY <1>b, <2>2, <2>3, <2>4 DEF ArgsFit
  <2> QED BY <1>b, <2>2, <2>3, <2>5
<1>2. CASE ~Activating(t)
  <2>1. Moves(t) /\ th'[t] = Idle
    BY <1>a, <1>2, ReturnMoves DEF RegisterConnectionObject
  <2> QED BY <2>1, IdleType DEF ArgsFit
<1> QED BY <1>1, <1>2

(* A Settings.Connection object is registered.                             *)
LEMMA RegisterConnectionStep ==
    ASSUME FInv, NEW t \in Threads, RegisterConnectionObject(t)
    PROVE  FInv'
<1>1. /\ th[t].pc = "object" /\ UNCHANGED vars
      /\ UNCHANGED <<link, overlap, act_objs, device_states, root_state, signals>>
      /\ conn_objs' = conn_objs \cup {th[t].prof}
  BY DEF RegisterConnectionObject, At
<1>2. /\ th \in [Threads -> Thread] /\ th[t] \in Thread /\ ArgsFit(th[t])
      /\ TellsOfGone(th[t].evs)
  BY DEF FInv, Obituaries
<1>3. /\ th[t].prof \in ProfileIds /\ th[t].evs = <<>>
      /\ th[t].op = "AddAndActivate" => th[t].index \in Indices
      /\ th[t].op \in {"Add", "AddAndActivate"}
  BY <1>1, <1>2 DEF ArgsFit
<1>4. RegistryType'
  BY <1>1, <1>3 DEF RegistryType, signals, FInv, FacadeTypeOK
<1>5. Moves(t) /\ th'[t].evs = <<>> /\ ArgsFit(th[t])'
  BY RegisterConnectionMoves
<1>6. LiveHaveObjects'
  BY <1>1, <1>5, LiveKept
<1> QED BY <1>1, <1>2, <1>4, <1>5, <1>6, BusRegion DEF signals

(* The object of an active connection is registered.                       *)
LEMMA RegisterActiveStep ==
    ASSUME FInv, NEW t \in Threads, RegisterActiveConnectionObject(t)
    PROVE  FInv'
<1>1. /\ th[t].pc = "register" /\ UNCHANGED vars
      /\ UNCHANGED <<link, overlap, conn_objs, device_states, root_state, signals>>
      /\ act_objs' = act_objs \cup {th[t].id} /\ Goto(t, "added")
  BY DEF RegisterActiveConnectionObject, At
<1>2. /\ th \in [Threads -> Thread] /\ th[t] \in Thread /\ ArgsFit(th[t])
      /\ TellsOfGone(th[t].evs) /\ "added" \in Pcs
  BY DEF FInv, Obituaries, Pcs
<1>3. th[t].id \in ActiveIds /\ th[t].id < next_id /\ th[t].evs = <<>>
  BY <1>1, <1>2 DEF ArgsFit
<1>4. RegistryType'
  BY <1>1, <1>3 DEF RegistryType, signals, FInv, FacadeTypeOK
<1>5. Moves(t) /\ th'[t].pc = "added" /\ SameButPc(th'[t], th[t])
  BY <1>1, <1>2, GotoMoves
<1>6. next_id' = next_id
  BY <1>1 DEF vars
<1>7. ArgsFit(th[t])' /\ th'[t].evs = <<>>
  BY <1>3, <1>5, <1>6 DEF ArgsFit, SameButPc
<1>8. LiveHaveObjects'
  BY <1>1, <1>5, LiveKept
<1> QED BY <1>1, <1>2, <1>4, <1>5, <1>7, <1>8, BusRegion DEF signals

(* ActiveConnectionAdded is sent.                                          *)
LEMMA AnnounceAddedStep ==
    ASSUME FInv, NEW t \in Threads, AnnounceAdded(t)
    PROVE  FInv'
<1>1. /\ th[t].pc = "added" /\ UNCHANGED vars
      /\ UNCHANGED <<link, overlap, registry, devSignal, actSignal>>
      /\ announced' = [announced EXCEPT ![th[t].id] = "added"] /\ Goto(t, "drain")
  BY DEF AnnounceAdded, At
<1>2. /\ th \in [Threads -> Thread] /\ th[t] \in Thread /\ ArgsFit(th[t])
      /\ TellsOfGone(th[t].evs) /\ "drain" \in Pcs
      /\ announced \in [ActiveIds -> {"no", "added", "removed"}]
  BY DEF FInv, Obituaries, Pcs, FacadeTypeOK
<1>3. th[t].evs = <<>>
  BY <1>1, <1>2 DEF ArgsFit
<1>4. RegistryType'
  BY <1>1, <1>2 DEF RegistryType, registry, FInv, FacadeTypeOK
<1>5. Moves(t) /\ th'[t].pc = "drain" /\ SameButPc(th'[t], th[t])
  BY <1>1, <1>2, GotoMoves
<1>6. ArgsFit(th[t])' /\ th'[t].evs = <<>>
  BY <1>3, <1>5 DEF ArgsFit, SameButPc
<1>7. LiveHaveObjects'
  BY <1>1, <1>5, LiveKept DEF registry
<1>8. \A a \in ActiveIds : announced'[a] = "removed" => announced[a] = "removed"
  BY <1>1, <1>2
<1> QED BY <1>1, <1>2, <1>4, <1>5, <1>6, <1>7, <1>8, BusRegion

(* A Settings.Connection object is removed.                                *)
LEMMA UnregisterStep ==
    ASSUME FInv, NEW t \in Threads, UnregisterConnection(t)
    PROVE  FInv'
<1>1. /\ th[t].pc = "unregister" /\ UNCHANGED vars /\ Return(t)
      /\ UNCHANGED <<link, overlap, act_objs, device_states, root_state, actSignal,
                     announced>>
      /\ conn_objs' = conn_objs \ {th[t].prof}
      /\ devSignal' \in {devSignal, [devSignal EXCEPT ![th[t].index] = "disconnected"]}
  BY DEF UnregisterConnection, At
<1>2. th \in [Threads -> Thread] /\ th[t] \in Thread /\ TellsOfGone(th[t].evs)
  BY DEF FInv, Obituaries
<1>3. "disconnected" \in DeviceStates /\ devSignal \in [Indices -> DeviceStates]
  BY DEF DeviceStates, FInv, FacadeTypeOK
<1>4. RegistryType'
  BY <1>1, <1>3 DEF RegistryType, FInv, FacadeTypeOK
<1>5. Moves(t) /\ th'[t] = Idle
  BY <1>1, <1>2, ReturnMoves
<1>6. ArgsFit(th[t])' /\ th'[t].evs = <<>>
  BY <1>5, IdleType DEF ArgsFit
<1>7. LiveHaveObjects'
  BY <1>1, <1>5, LiveKept
<1> QED BY <1>1, <1>2, <1>4, <1>5, <1>6, <1>7, BusRegion

(* The daemon-wide state is announced if it has changed.                   *)
LEMMA EmitRootStateStep ==
    ASSUME FInv, NEW t \in Threads, EmitRootState(t)
    PROVE  FInv'
<1>1. /\ th[t].pc = "root" /\ UNCHANGED vars /\ Return(t)
      /\ UNCHANGED <<link, overlap, conn_objs, act_objs, device_states, signals>>
      /\ root_state' = th[t].root
  BY DEF EmitRootState, At
<1>2. th \in [Threads -> Thread] /\ th[t] \in Thread /\ TellsOfGone(th[t].evs)
  BY DEF FInv, Obituaries
<1>3. th[t].root \in {"connected", "disconnected"}
  BY <1>2 DEF Thread
<1>4. RegistryType'
  BY <1>1, <1>3 DEF RegistryType, signals, FInv, FacadeTypeOK
<1>5. Moves(t) /\ th'[t] = Idle
  BY <1>1, <1>2, ReturnMoves
<1>6. ArgsFit(th[t])' /\ th'[t].evs = <<>>
  BY <1>5, IdleType DEF ArgsFit
<1>7. LiveHaveObjects'
  BY <1>1, <1>5, LiveKept
<1> QED BY <1>1, <1>2, <1>4, <1>5, <1>6, <1>7, BusRegion DEF signals

(* An interface of the kernel changes.                                     *)
LEMMA LinkChangeStep ==
    ASSUME FInv, NEW i \in Indices, NEW to \in LinkStates, LinkChange(i, to)
    PROVE  FInv'
<1>1. /\ link' = [link EXCEPT ![i] = to] /\ UNCHANGED <<vars, th, overlap>>
      /\ UNCHANGED <<conn_objs, act_objs, device_states, root_state, devSignal,
                     actSignal, announced>>
  BY DEF LinkChange, registry, signals
<1>2. to \in {"up", "down", "gone"}
  BY FacadeAssumption
<1>3. FacadeTypeOK'
  BY <1>1, <1>2 DEF FInv, FacadeTypeOK, TypeOK, vars
<1>4. IInv' /\ Chronicled'
  BY <1>1, NextIInv, NextChronicled DEF FInv
<1> QED BY <1>1, <1>3, <1>4
        DEF FInv, vars, OnBus, ArgsFit, Obituaries, TellsOfGone, Gone, Tracked,
            LiveHaveObjects, Registering

(* Mirroring consumes the first drained event.                             *)
LEMMA EmitMoves ==
    ASSUME FInv, NEW t \in Threads, th[t].pc = "emit", th[t].evs # <<>>,
           NEW K \in SUBSET (ActiveIds \X Indices), NEW w,
           w = [th[t] EXCEPT !.evs = Tail(th[t].evs), !.known = K],
           th' = [th EXCEPT ![t] = w]
    PROVE  /\ Moves(t) /\ ArgsFit(th[t])'
           /\ th'[t].pc = "emit" /\ th'[t].evs = Tail(th[t].evs)
<1>1. th[t] \in Thread /\ th \in [Threads -> Thread]
  BY DEF FInv
<1>2. th[t].evs \in Seq(ConnectionEvent)
  BY <1>1 DEF Thread
<1>3. Tail(th[t].evs) \in Seq(ConnectionEvent)
  BY <1>2
<1>4. w \in Thread /\ w.pc = "emit" /\ w.evs = Tail(th[t].evs)
  BY <1>1, <1>3 DEF Thread
<1>5. Moves(t) /\ th'[t] = w
  BY <1>1, <1>4, MovesTo
<1>6. ArgsFit(th[t])'
  BY <1>4, <1>5 DEF ArgsFit
<1>7. th'[t].pc = "emit" /\ th'[t].evs = Tail(th[t].evs)
  BY <1>4, <1>5
<1> QED BY <1>5, <1>6, <1>7

(* The rest of a list has no new members.                                  *)
LEMMA TailMembers ==
    ASSUME NEW s \in Seq(ConnectionEvent), s # <<>>, NEW l, l = Tail(s)
    PROVE  \A k \in DOMAIN l : \E m \in DOMAIN s : l[k] = s[m]
OBVIOUS

(* The next event to be mirrored, and what it tells.                       *)
LEMMA HeadOfDrained ==
    ASSUME FInv, NEW t \in Threads, th[t].evs # <<>>, NEW e, e = Head(th[t].evs)
    PROVE  /\ e \in ConnectionEvent /\ e.active_id \in ActiveIds
           /\ e.kind = "StateChanged" => e.current \in ConnectionStates
           /\ e.kind = "Deactivated" => Gone(e.active_id)
<1>1. th[t] \in Thread /\ TellsOfGone(th[t].evs)
  BY DEF FInv, Obituaries
<1>2. th[t].evs \in Seq(ConnectionEvent)
  BY <1>1 DEF Thread
<1>3. e = th[t].evs[1] /\ 1 \in DOMAIN th[t].evs /\ e \in ConnectionEvent
  BY <1>2
<1>4. /\ e.active_id \in ActiveIds
      /\ e.kind = "StateChanged" => e.current \in ConnectionStates
  BY <1>3 DEF ConnectionEvent
<1>5. e.kind = "Deactivated" => Gone(e.active_id)
  BY <1>1, <1>3 DEF TellsOfGone
<1> QED BY <1>3, <1>4, <1>5

(* The interface of an entry is found among the registered ones.           *)
LEMMA DeviceFound ==
    ASSUME FInv, NEW a, Tracked(a), NEW i,
           i = CHOOSE j \in Indices : InfoAt[j].interface_name
                                        = EntryOf(a).device.interface_name
    PROVE  i \in Indices
<1>1. \E k \in DOMAIN active : EntryOf(a) = active[k]
  BY DEF Tracked, EntryOf
<1>2. \E j \in Indices : EntryOf(a).device = InfoAt[j]
  BY <1>1 DEF FInv, OnBus
<1> QED BY <1>2

(* The states events are translated to.                                    *)
LEMMA DeviceStateType ==
    ASSUME NEW s
    PROVE  /\ ConnectionToDeviceState(s) \in DeviceStates
           /\ ActiveNmState(s) \in {"activating", "activated", "deactivating",
                                    "deactivated"}
<1>1. ConnectionToDeviceState(s) \in DeviceStates
  BY DEF ConnectionToDeviceState, DeviceStates
<1>2. ActiveNmState(s) \in {"activating", "activated", "deactivating", "deactivated"}
  BY DEF ActiveNmState
<1> QED BY <1>1, <1>2

(* A device state is recorded and announced.                               *)
LEMMA EmitDeviceType ==
    ASSUME FInv, NEW i, NEW s \in DeviceStates, EmitDeviceState(i, s)
    PROVE  /\ device_states' \in [Indices -> DeviceStates]
           /\ devSignal' \in [Indices -> DeviceStates]
BY DEF EmitDeviceState, FInv, FacadeTypeOK

(* A change of state is mirrored.                                          *)
LEMMA MirrorStateChangedStep ==
    ASSUME FInv, NEW t \in Threads, Emit(t), MirrorStateChanged(t, Head(th[t].evs))
    PROVE  FInv' /\ th'[t].pc = "emit" /\ th'[t].evs = Tail(th[t].evs) /\ Moves(t)
<1> DEFINE e == Head(th[t].evs)
           i == CHOOSE j \in Indices : InfoAt[j].interface_name
                                         = EntryOf(e.active_id).device.interface_name
           rest == Tail(th[t].evs)
<1>1. /\ th[t].pc = "emit" /\ th[t].evs # <<>> /\ UNCHANGED vars
      /\ UNCHANGED <<link, overlap>> /\ MirrorStateChanged(t, e)
  BY DEF Emit, At
<1>2. /\ th \in [Threads -> Thread] /\ th[t] \in Thread /\ TellsOfGone(th[t].evs)
      /\ th[t].known \in SUBSET (ActiveIds \X Indices)
      /\ th[t].evs \in Seq(ConnectionEvent)
  BY DEF FInv, Obituaries, Thread
<1>3. e.active_id \in ActiveIds
  BY <1>1, HeadOfDrained
<1>4. /\ actSignal' = [actSignal EXCEPT ![e.active_id] = ActiveNmState(e.current)]
      /\ UNCHANGED <<conn_objs, act_objs, root_state, announced>>
      /\ \/ /\ Tracked(e.active_id)
            /\ EmitDeviceState(i, ConnectionToDeviceState(e.current))
            /\ th' = [th EXCEPT ![t].evs = rest,
                                ![t].known = @ \cup {<<e.active_id, i>>}]
         \/ /\ th' = [th EXCEPT ![t].evs = rest]
            /\ UNCHANGED <<device_states, devSignal>>
  BY <1>1, Zenon DEF MirrorStateChanged
<1> HIDE DEF e
<1>5. \E K \in SUBSET (ActiveIds \X Indices) :
          th' = [th EXCEPT ![t] = [th[t] EXCEPT !.evs = Tail(th[t].evs), !.known = K]]
  <2>1. CASE /\ Tracked(e.active_id)
             /\ th' = [th EXCEPT ![t].evs = rest,
                                 ![t].known = @ \cup {<<e.active_id, i>>}]
    <3>1. i \in Indices
      BY <2>1, DeviceFound
    <3> HIDE DEF i
    <3> DEFINE K == th[t].known \cup {<<e.active_id, i>>}
    <3>2. K \in SUBSET (ActiveIds \X Indices)
      BY <1>2, <1>3, <3>1
    <3>3. th' = [th EXCEPT ![t] = [th[t] EXCEPT !.evs = Tail(th[t].evs), !.known = K]]
      BY <1>2, <2>1 DEF Thread
    <3> QED BY <3>2, <3>3
  <2>2. CASE th' = [th EXCEPT ![t].evs = rest]
    <3>1. [th[t] EXCEPT !.evs = rest] = [th[t] EXCEPT !.evs = rest, !.known = th[t].known]
      BY <1>2 DEF Thread
    <3>2. th' = [th EXCEPT ![t] = [th[t] EXCEPT !.evs = rest, !.known = th[t].known]]
      BY <2>2, <3>1
    <3> QED BY <1>2, <3>2
  <2> QED BY <1>4, <2>1, <2>2
<1>6. /\ device_states' \in [Indices -> DeviceStates]
      /\ devSignal' \in [Indices -> DeviceStates]
  <2>1. CASE EmitDeviceState(i, ConnectionToDeviceState(e.current))
    BY <2>1, EmitDeviceType, DeviceStateType
  <2>2. CASE UNCHANGED <<device_states, devSignal>>
    BY <2>2 DEF FInv, FacadeTypeOK
  <2> QED BY <1>4, <2>1, <2>2
<1> HIDE DEF i
<1>7. RegistryType'
  BY <1>1, <1>4, <1>6, DeviceStateType DEF RegistryType, FInv, FacadeTypeOK
<1>8. /\ Moves(t) /\ ArgsFit(th[t])'
      /\ th'[t].pc = "emit" /\ th'[t].evs = Tail(th[t].evs)
  <2>1. PICK K \in SUBSET (ActiveIds \X Indices) :
            th' = [th EXCEPT ![t] = [th[t] EXCEPT !.evs = Tail(th[t].evs), !.known = K]]
    BY <1>5
  <2> QED BY <1>1, <2>1, EmitMoves, Zenon
<1>9. LiveHaveObjects'
  BY <1>1, <1>4, <1>8, LiveKept
<1>10. \A k \in DOMAIN th'[t].evs : \E m \in DOMAIN th[t].evs :
            th'[t].evs[k] = th[t].evs[m]
  BY <1>1, <1>2, <1>8, TailMembers
<1>11. announced' = announced
  BY <1>4
<1>12. FInv'
  BY <1>1, <1>2, <1>7, <1>8, <1>9, <1>10, <1>11, BusRegion
<1> QED BY <1>8, <1>12

(* The object of a connection that is gone is removed and announced.       *)
LEMMA MirrorDeactivatedStep ==
    ASSUME FInv, NEW t \in Threads, Emit(t), MirrorDeactivated(t, Head(th[t].evs))
    PROVE  FInv' /\ th'[t].pc = "emit" /\ th'[t].evs = Tail(th[t].evs) /\ Moves(t)
<1> DEFINE e == Head(th[t].evs)
           K == { k \in th[t].known : k[1] # e.active_id }
<1>1. /\ th[t].pc = "emit" /\ th[t].evs # <<>> /\ UNCHANGED vars
      /\ UNCHANGED <<link, overlap>> /\ MirrorDeactivated(t, e)
  BY DEF Emit, At
<1>2. /\ th \in [Threads -> Thread] /\ th[t] \in Thread /\ TellsOfGone(th[t].evs)
      /\ th[t].known \in SUBSET (ActiveIds \X Indices)
      /\ th[t].evs \in Seq(ConnectionEvent)
  BY DEF FInv, Obituaries, Thread
<1>3. e.kind = "Deactivated" /\ e.active_id \in ActiveIds /\ Gone(e.active_id)
  BY <1>1, HeadOfDrained DEF MirrorDeactivated
<1> HIDE DEF e
<1>4. /\ act_objs' = act_objs \ {e.active_id}
      /\ announced' = [announced EXCEPT ![e.active_id] = "removed"]
      /\ UNCHANGED <<conn_objs, root_state, actSignal>>
  BY <1>1 DEF MirrorDeactivated
<1>5. K \in SUBSET (ActiveIds \X Indices)
  BY <1>2
<1>6. th' = [th EXCEPT ![t] = [th[t] EXCEPT !.evs = Tail(th[t].evs), !.known = K]]
  <2>1. th' = [th EXCEPT ![t].evs = Tail(@),
                         ![t].known = { k \in @ : k[1] # e.active_id }]
    BY <1>1 DEF MirrorDeactivated
  <2> QED BY <1>2, <2>1 DEF Thread
<1> HIDE DEF K
<1>7. /\ device_states' \in [Indices -> DeviceStates]
      /\ devSignal' \in [Indices -> DeviceStates]
  <2>1. \/ \E i \in Indices : EmitDeviceState(i, "disconnected")
        \/ UNCHANGED <<device_states, devSignal>>
    BY <1>1, Zenon DEF MirrorDeactivated
  <2>2. CASE \E i \in Indices : EmitDeviceState(i, "disconnected")
    BY <2>2, EmitDeviceType DEF DeviceStates
  <2>3. CASE UNCHANGED <<device_states, devSignal>>
    BY <2>3 DEF FInv, FacadeTypeOK
  <2> QED BY <2>1, <2>2, <2>3
<1>8. RegistryType'
  BY <1>1, <1>4, <1>7 DEF RegistryType, FInv, FacadeTypeOK
<1>9. /\ Moves(t) /\ ArgsFit(th[t])'
      /\ th'[t].pc = "emit" /\ th'[t].evs = Tail(th[t].evs)
  BY <1>1, <1>5, <1>6, EmitMoves, Zenon
<1>10. LiveHaveObjects'
  <2> SUFFICES ASSUME NEW k \in DOMAIN active', active'[k].state = "Activated"
               PROVE  \/ active'[k].id \in act_objs'
                      \/ \E u \in Threads : /\ th'[u].pc = "register"
                                            /\ th'[u].id = active'[k].id
    BY DEF LiveHaveObjects, Registering
  <2>1. active' = active
    BY <1>1 DEF vars
  <2>2. active[k].id # e.active_id
    BY <1>3, <2>1 DEF Gone, Tracked
  <2>3. active[k].id \in act_objs \/ Registering(active[k].id)
    BY <2>1 DEF FInv, LiveHaveObjects
  <2>4. CASE Registering(active[k].id)
    <3>1. PICK u \in Threads : th[u].pc = "register" /\ th[u].id = active[k].id
      BY <2>4 DEF Registering
    <3>2. th'[u] = th[u]
      BY <1>1, <1>9, <3>1 DEF Moves
    <3> QED BY <2>1, <3>1, <3>2
  <2> QED BY <1>4, <2>1, <2>2, <2>3, <2>4
<1>11. \A a \in ActiveIds : announced'[a] = "removed" => announced[a] = "removed" \/ Gone(a)
  BY <1>3, <1>4 DEF FInv, FacadeTypeOK
<1>12. \A k \in DOMAIN th'[t].evs : \E m \in DOMAIN th[t].evs :
            th'[t].evs[k] = th[t].evs[m]
  BY <1>1, <1>2, <1>9, TailMembers
<1>13. FInv'
  BY <1>1, <1>2, <1>8, <1>9, <1>10, <1>11, <1>12, BusRegion
<1> QED BY <1>9, <1>13

(* The other events have no effect of their own.                           *)
LEMMA MirrorOutcomeStep ==
    ASSUME FInv, NEW t \in Threads, Emit(t), MirrorOutcome(t, Head(th[t].evs))
    PROVE  FInv' /\ th'[t].pc = "emit" /\ th'[t].evs = Tail(th[t].evs) /\ Moves(t)
<1>1. /\ th[t].pc = "emit" /\ th[t].evs # <<>> /\ UNCHANGED vars
      /\ UNCHANGED <<link, overlap, registry, signals>>
      /\ th' = [th EXCEPT ![t].evs = Tail(@)]
  BY DEF Emit, At, MirrorOutcome
<1>2. /\ th \in [Threads -> Thread] /\ th[t] \in Thread /\ TellsOfGone(th[t].evs)
      /\ th[t].known \in SUBSET (ActiveIds \X Indices)
      /\ th[t].evs \in Seq(ConnectionEvent)
  BY DEF FInv, Obituaries, Thread
<1>3. th' = [th EXCEPT ![t] = [th[t] EXCEPT !.evs = Tail(th[t].evs),
                                            !.known = th[t].known]]
  <2>1. [th[t] EXCEPT !.evs = Tail(th[t].evs)]
          = [th[t] EXCEPT !.evs = Tail(th[t].evs), !.known = th[t].known]
    BY <1>2 DEF Thread
  <2> QED BY <1>1, <2>1
<1>4. /\ Moves(t) /\ ArgsFit(th[t])'
      /\ th'[t].pc = "emit" /\ th'[t].evs = Tail(th[t].evs)
  BY <1>1, <1>2, <1>3, EmitMoves, Zenon
<1>5. RegistryType' /\ UNCHANGED <<act_objs, announced>>
  BY <1>1 DEF RegistryType, registry, signals, FInv, FacadeTypeOK
<1>6. LiveHaveObjects'
  BY <1>1, <1>4, <1>5, LiveKept
<1>7. \A k \in DOMAIN th'[t].evs : \E m \in DOMAIN th[t].evs :
           th'[t].evs[k] = th[t].evs[m]
  BY <1>1, <1>2, <1>4, TailMembers
<1>8. FInv'
  BY <1>1, <1>2, <1>4, <1>5, <1>6, <1>7, BusRegion
<1> QED BY <1>4, <1>8

-----------------------------------------------------------------------------
(* Every step keeps the invariant.                                         *)

(* Every region of every handler keeps the invariant.                      *)
LEMMA RegionStep ==
    ASSUME FInv, NEW t \in Threads, Region(t)
    PROVE  FInv'
<1>1. CASE Emit(t)
  BY <1>1, MirrorStateChangedStep, MirrorDeactivatedStep, MirrorOutcomeStep DEF Emit
<1> QED BY <1>1, CreateStep, RegisterConnectionStep, LookUpDeviceStep, ActivateStep,
           RegisterActiveStep, AnnounceAddedStep, LookUpActiveStep, DeactivateStep,
           DeleteStep, UnregisterStep, DrainStep, ReadRootStateStep,
           EmitRootStateStep DEF Region

(* The invariant holds at the start.                                       *)
LEMMA InitFInv == FacadeInit => FInv
<1> SUFFICES ASSUME FacadeInit PROVE FInv
  OBVIOUS
<1>1. /\ TypeOK /\ EntriesUnique /\ EntriesSettled /\ EngineAgrees
  BY BoundAssumption DEF FacadeInit, TypeOK, EntriesUnique, EntriesSettled,
     EngineAgrees, ConnectionStates, ActiveIds
<1>2. Chronicled
  <2> SUFFICES ASSUME NEW a \in ActiveIds
               PROVE  Chronicle(events, a, view[a], StateOf(a))
    BY DEF Chronicled
  <2>1. StateOf(a) = "Disconnected" /\ view[a] = "Disconnected" /\ events = <<>>
    BY DEF FacadeInit, StateOf
  <2> QED BY <2>1, NothingToTell
<1>3. th \in [Threads -> Thread] /\ \A t \in Threads : th[t] = Idle
  BY IdleType DEF FacadeInit
<1>4. \A t \in Threads : ArgsFit(th[t]) /\ TellsOfGone(th[t].evs)
  BY <1>3, IdleType DEF ArgsFit, TellsOfGone
<1>5. RegistryType
  <2>1. device_states \in [Indices -> DeviceStates]
    BY DEF FacadeInit, CurrentDeviceState, DeviceStates
  <2> QED BY <2>1 DEF FacadeInit, RegistryType
<1>6. FacadeTypeOK
  <2>1. \A t \in Threads : /\ th[t].pc \in Pcs /\ th[t].op \in Ops
                           /\ th[t].evs \in Seq(ConnectionEvent)
    BY <1>3 DEF Thread
  <2> QED BY <1>1, <1>5, <2>1 DEF FacadeTypeOK, RegistryType
<1>7. OnBus /\ LiveHaveObjects
  BY DEF FacadeInit, OnBus, LiveHaveObjects
<1>8. Obituaries
  BY <1>4 DEF FacadeInit, Obituaries, TellsOfGone
<1> QED BY <1>1, <1>2, <1>3, <1>4, <1>6, <1>7, <1>8 DEF FInv, IInv

(* Calls, regions, the embedding program and the kernel keep it.           *)
LEMMA NextFInv == FInv /\ [FacadeNext]_fvars => FInv'
<1> SUFFICES ASSUME FInv, [FacadeNext]_fvars PROVE FInv'
  OBVIOUS
<1>1. CASE UNCHANGED fvars
  <2>1. /\ UNCHANGED <<vars, th, overlap, link>>
        /\ UNCHANGED <<conn_objs, act_objs, device_states, root_state, devSignal,
                       actSignal, announced>>
    BY <1>1 DEF fvars, registry, signals
  <2>2. IInv' /\ Chronicled'
    BY <2>1, NextIInv, NextChronicled DEF FInv
  <2>3. FacadeTypeOK'
    BY <2>1 DEF FInv, FacadeTypeOK, TypeOK, vars
  <2> QED BY <2>1, <2>2, <2>3
          DEF FInv, vars, OnBus, ArgsFit, Obituaries, TellsOfGone, Gone, Tracked,
              LiveHaveObjects, Registering
<1> QED BY <1>1, CallStep, OwnerStep, RegionStep, LinkChangeStep DEF FacadeNext

(* Whatever the handlers and the embedding program interleave, the         *)
(* manager keeps its own invariants under the facade, every handler has    *)
(* the arguments its next region uses, and nothing is said to be           *)
(* deactivated that is still listed.                                       *)
THEOREM FacadeInvariance == FacadeSpec => []FInv
BY InitFInv, NextFInv, PTL DEF FacadeSpec

(* The registries of Shared and the locals of the handlers keep their      *)
(* types.                                                                  *)
THEOREM FacadeTypeCorrect == FacadeSpec => []FacadeTypeOK
BY FacadeInvariance, PTL DEF FInv

(* A live connection keeps its object once its handler has registered it,  *)
(* and ActiveConnectionRemoved is only ever sent for one that is gone.     *)
THEOREM LiveKeepObjects == FacadeSpec => []LiveConnectionsHaveObjects
<1>1. FInv => LiveConnectionsHaveObjects
  BY DEF FInv, LiveConnectionsHaveObjects, LiveHaveObjects, Registering, Obituaries, Gone
<1> QED BY <1>1, FacadeInvariance, PTL

-----------------------------------------------------------------------------
(* The Settings.Connection objects and the store, under one thread of the  *)
(* object server.                                                          *)

(* Mirroring an event leaves the manager and the store alone.              *)
LEMMA EmitMirrors ==
    ASSUME FInv, NEW t \in Threads, Emit(t)
    PROVE  /\ Moves(t) /\ th[t].pc = "emit" /\ th'[t].pc = "emit"
           /\ th[t].evs # <<>> /\ th'[t].evs = Tail(th[t].evs)
           /\ UNCHANGED vars /\ UNCHANGED <<conn_objs, root_state, overlap>>
<1> DEFINE e == Head(th[t].evs)
<1>1. /\ th[t].pc = "emit" /\ th[t].evs # <<>> /\ UNCHANGED vars /\ UNCHANGED overlap
      /\ MirrorStateChanged(t, e) \/ MirrorDeactivated(t, e) \/ MirrorOutcome(t, e)
  BY DEF Emit, At
<1>2. Moves(t) /\ th'[t].pc = "emit" /\ th'[t].evs = Tail(th[t].evs)
  BY <1>1, MirrorStateChangedStep, MirrorDeactivatedStep, MirrorOutcomeStep
<1>3. UNCHANGED <<conn_objs, root_state>>
  BY <1>1 DEF MirrorStateChanged, MirrorDeactivated, MirrorOutcome, registry
<1> QED BY <1>1, <1>2, <1>3

(* A step of a thread that touches neither, and starts and ends no         *)
(* disagreement.                                                           *)
LEMMA StoreLeftAlone ==
    ASSUME FInv, ObjectsFollowStore, NEW t \in Threads, Moves(t),
           UNCHANGED <<profiles, conn_objs>>,
           th[t].pc \notin {"object", "unregister"},
           th'[t].pc \notin {"object", "unregister"},
           t \in BusThreads \/ th'[t].pc \in OwnerPcs
    PROVE  ObjectsFollowStore'
<1>1. \A u \in Threads \ BusThreads : th'[u].pc \in OwnerPcs
  BY DEF ObjectsFollowStore, Moves
<1>2. ASSUME NEW b \in BusThreads, BusThreads = {b}
      PROVE  FollowsStore(b)'
  <2>1. FollowsStore(b) /\ b \in Threads
    BY <1>2 DEF ObjectsFollowStore, Threads
  <2>2. CASE b = t
    BY <2>1, <2>2 DEF FollowsStore, Stored
  <2>3. CASE b # t
    BY <2>1, <2>3 DEF FollowsStore, Stored, Moves
  <2> QED BY <2>2, <2>3
<1> QED BY <1>1, <1>2 DEF ObjectsFollowStore

(* A step of a handler that starts or ends one.                            *)
LEMMA HandlerFollows ==
    ASSUME FInv, ObjectsFollowStore, NEW t \in Threads, Moves(t),
           th[t].pc \notin OwnerPcs, FollowsStore(t) => FollowsStore(t)'
    PROVE  ObjectsFollowStore'
<1>1. t \in BusThreads
  BY DEF ObjectsFollowStore
<1>2. \A u \in Threads \ BusThreads : th'[u].pc \in OwnerPcs
  BY <1>1 DEF ObjectsFollowStore, Moves
<1>3. ASSUME NEW b \in BusThreads, BusThreads = {b}
      PROVE  FollowsStore(b)'
  BY <1>1, <1>3 DEF ObjectsFollowStore
<1> QED BY <1>2, <1>3 DEF ObjectsFollowStore

(* Between create and register one profile has no object yet.              *)
LEMMA CreateFollows ==
    ASSUME FInv, ObjectsFollowStore, NEW t \in Threads, Create(t)
    PROVE  ObjectsFollowStore'
<1>1. /\ th[t].pc = "create" /\ UNCHANGED conn_objs /\ th[t].prof \in ProfileIds
      /\ th \in [Threads -> Thread] /\ "object" \in Pcs /\ th[t].pc \notin OwnerPcs
      /\ th[t].settings \in Settings
  BY DEF Create, At, FInv, ArgsFit, registry, Pcs, OwnerPcs
<1>2. CASE CreateProfile(th[t].prof, th[t].settings) /\ Goto(t, "object")
  <2>1. Moves(t) /\ th'[t].pc = "object" /\ th'[t].prof = th[t].prof
    BY <1>1, <1>2, GotoMoves DEF SameButPc
  <2>2. /\ profiles[th[t].prof] = None
        /\ profiles' = [profiles EXCEPT ![th[t].prof] = th[t].settings]
        /\ profiles \in [ProfileIds -> Settings \cup {None}]
    BY <1>2 DEF CreateProfile, FInv, FacadeTypeOK, TypeOK
  <2>3. th[t].settings # None
    BY <1>1, BoundAssumption, ProfileAssumption
  <2>4. FollowsStore(t) => FollowsStore(t)'
    BY <1>1, <2>1, <2>2, <2>3 DEF FollowsStore, Stored
  <2> QED BY <1>1, <2>1, <2>4, HandlerFollows
<1>3. CASE UNCHANGED vars /\ Return(t)
  BY <1>1, <1>3, ReturnMoves, IdleType, StoreLeftAlone DEF vars, OwnerPcs
<1> QED BY <1>2, <1>3 DEF Create

(* Registering closes that gap.                                            *)
LEMMA RegisterFollows ==
    ASSUME FInv, ObjectsFollowStore, NEW t \in Threads, RegisterConnectionObject(t)
    PROVE  ObjectsFollowStore'
<1>1. /\ th[t].pc = "object" /\ th[t].pc \notin OwnerPcs /\ UNCHANGED profiles
      /\ conn_objs' = conn_objs \cup {th[t].prof}
  BY DEF RegisterConnectionObject, At, vars, OwnerPcs
<1>2. Moves(t) /\ th'[t].pc \in {"device", "idle"}
  BY RegisterConnectionMoves
<1>3. FollowsStore(t) => FollowsStore(t)'
  BY <1>1, <1>2 DEF FollowsStore, Stored
<1> QED BY <1>1, <1>2, <1>3, HandlerFollows

(* Between delete and unregister one object has no profile any more.       *)
LEMMA DeleteFollows ==
    ASSUME FInv, ObjectsFollowStore, NEW t \in Threads, DeleteUnderLock(t)
    PROVE  ObjectsFollowStore'
<1>1. /\ th[t].pc = "delete" /\ UNCHANGED conn_objs /\ th[t].prof \in ProfileIds
      /\ th \in [Threads -> Thread] /\ "unregister" \in Pcs /\ th[t].pc \notin OwnerPcs
  BY DEF DeleteUnderLock, At, FInv, ArgsFit, registry, Pcs, OwnerPcs
<1>2. CASE DeleteProfile(th[t].prof) /\ Goto(t, "unregister")
  <2>1. Moves(t) /\ th'[t].pc = "unregister" /\ th'[t].prof = th[t].prof
    BY <1>1, <1>2, GotoMoves DEF SameButPc
  <2>2. /\ profiles' = [profiles EXCEPT ![th[t].prof] = None]
        /\ profiles \in [ProfileIds -> Settings \cup {None}]
    BY <1>2 DEF DeleteProfile, FInv, FacadeTypeOK, TypeOK
  <2>3. FollowsStore(t) => FollowsStore(t)'
    BY <1>1, <2>1, <2>2 DEF FollowsStore, Stored
  <2> QED BY <1>1, <2>1, <2>3, HandlerFollows
<1>3. CASE UNCHANGED vars /\ Return(t)
  BY <1>1, <1>3, ReturnMoves, IdleType, StoreLeftAlone DEF vars, OwnerPcs
<1> QED BY <1>2, <1>3 DEF DeleteUnderLock

(* Unregistering closes that gap.                                          *)
LEMMA UnregisterFollows ==
    ASSUME FInv, ObjectsFollowStore, NEW t \in Threads, UnregisterConnection(t)
    PROVE  ObjectsFollowStore'
<1>1. /\ th[t].pc = "unregister" /\ th[t].pc \notin OwnerPcs /\ UNCHANGED profiles
      /\ conn_objs' = conn_objs \ {th[t].prof} /\ Return(t)
  BY DEF UnregisterConnection, At, vars, OwnerPcs
<1>2. Moves(t) /\ th'[t].pc = "idle"
  BY <1>1, ReturnMoves, IdleType DEF FInv
<1>3. FollowsStore(t) => FollowsStore(t)'
  BY <1>1, <1>2 DEF FollowsStore, Stored
<1> QED BY <1>1, <1>2, <1>3, HandlerFollows

(* What the other regions do with the thread that runs them.               *)
LEMMA OtherRegions ==
    ASSUME FInv, NEW t \in Threads,
           \/ LookUpDevice(t) \/ ActivateUnderLock(t) \/ RegisterActiveConnectionObject(t)
           \/ AnnounceAdded(t) \/ LookUpActive(t) \/ DeactivateUnderLock(t)
           \/ Drain(t) \/ Emit(t) \/ ReadRootState(t) \/ EmitRootState(t)
    PROVE  /\ Moves(t) /\ UNCHANGED <<profiles, conn_objs>>
           /\ th[t].pc \notin {"object", "unregister"}
           /\ th'[t].pc \notin {"object", "unregister"}
           /\ th[t].pc \in OwnerPcs => th'[t].pc \in OwnerPcs
<1> DEFINE Goal == /\ Moves(t) /\ UNCHANGED <<profiles, conn_objs>>
                   /\ th[t].pc \notin {"object", "unregister"}
                   /\ th'[t].pc \notin {"object", "unregister"}
                   /\ th[t].pc \in OwnerPcs => th'[t].pc \in OwnerPcs
<1> SUFFICES Goal
  OBVIOUS
<1>0. /\ th \in [Threads -> Thread] /\ th[t] \in Thread /\ Idle.pc = "idle"
      /\ {"activate", "active", "added", "drain"} \subseteq Pcs
  BY IdleType DEF FInv, Pcs
<1>1. CASE LookUpDevice(t)
  <2>1. /\ th[t].pc \in {"device", "name"} /\ UNCHANGED <<vars, registry>>
        /\ Goto(t, "activate") \/ Goto(t, "active") \/ Return(t)
    BY <1>1 DEF LookUpDevice, At
  <2>2. Moves(t) /\ th'[t].pc \in {"activate", "active", "idle"}
    BY <1>0, <2>1, GotoMoves, ReturnMoves
  <2> QED BY <2>1, <2>2 DEF vars, registry, OwnerPcs
<1>2. CASE ActivateUnderLock(t)
  <2>1. th[t].pc = "activate" /\ UNCHANGED registry
    BY <1>2 DEF ActivateUnderLock, At
  <2>2. UNCHANGED profiles /\ Moves(t) /\ th'[t].pc \in {"register", "idle"}
    BY <1>2, ActivateMoves
  <2> QED BY <2>1, <2>2 DEF registry, OwnerPcs
<1>3. CASE RegisterActiveConnectionObject(t)
  <2>1. th[t].pc = "register" /\ UNCHANGED <<vars, conn_objs>> /\ Goto(t, "added")
    BY <1>3 DEF RegisterActiveConnectionObject, At
  <2>2. Moves(t) /\ th'[t].pc = "added"
    BY <1>0, <2>1, GotoMoves
  <2> QED BY <2>1, <2>2 DEF vars, OwnerPcs
<1>4. CASE AnnounceAdded(t)
  <2>1. th[t].pc = "added" /\ UNCHANGED <<vars, registry>> /\ Goto(t, "drain")
    BY <1>4 DEF AnnounceAdded, At
  <2>2. Moves(t) /\ th'[t].pc = "drain"
    BY <1>0, <2>1, GotoMoves
  <2> QED BY <2>1, <2>2 DEF vars, registry, OwnerPcs
<1>5. CASE LookUpActive(t)
  <2>1. th[t].pc = "active" /\ UNCHANGED <<vars, registry>>
    BY <1>5 DEF LookUpActive, At
  <2>2. Moves(t) /\ th'[t].pc \in {"idle", "deactivate", "delete"}
    BY <1>5, LookUpActiveMoves
  <2> QED BY <2>1, <2>2 DEF vars, registry, OwnerPcs
<1>6. CASE DeactivateUnderLock(t)
  <2>1. /\ th[t].pc = "deactivate" /\ UNCHANGED <<profiles, registry>>
        /\ Goto(t, "drain") \/ Return(t)
    BY <1>6 DEF DeactivateUnderLock, At, Deactivate, vars
  <2>2. Moves(t) /\ th'[t].pc \in {"drain", "idle"}
    BY <1>0, <2>1, GotoMoves, ReturnMoves
  <2> QED BY <2>1, <2>2 DEF registry, OwnerPcs
<1>7. CASE Drain(t)
  <2>1. /\ th[t].pc = "drain" /\ UNCHANGED <<profiles, registry>>
    BY <1>7 DEF Drain, At, DrainEvents, vars
  <2>2. Moves(t) /\ th'[t].pc = "emit"
    BY <1>7, DrainMoves
  <2> QED BY <2>1, <2>2 DEF registry, OwnerPcs
<1>8. CASE Emit(t)
  BY <1>8, EmitMirrors DEF vars, OwnerPcs
<1>9. CASE ReadRootState(t)
  <2>1. /\ th[t].pc = "emit" /\ UNCHANGED <<vars, registry>>
    BY <1>9 DEF ReadRootState, At
  <2>2. Moves(t) /\ th'[t].pc = "root"
    BY <1>9, ReadRootMoves
  <2> QED BY <2>1, <2>2 DEF vars, registry, OwnerPcs
<1>10. CASE EmitRootState(t)
  <2>1. /\ th[t].pc = "root" /\ UNCHANGED <<vars, conn_objs>> /\ Return(t)
    BY <1>10 DEF EmitRootState, At
  <2>2. Moves(t) /\ th'[t].pc = "idle"
    BY <1>0, <2>1, ReturnMoves
  <2> QED BY <2>1, <2>2 DEF vars, OwnerPcs
<1> QED BY <1>1, <1>2, <1>3, <1>4, <1>5, <1>6, <1>7, <1>8, <1>9, <1>10

(* No other region touches profiles or their objects.                      *)
LEMMA RegionFollows ==
    ASSUME FInv, ObjectsFollowStore, NEW t \in Threads, Region(t)
    PROVE  ObjectsFollowStore'
<1>1. CASE Create(t) \/ RegisterConnectionObject(t) \/ DeleteUnderLock(t)
           \/ UnregisterConnection(t)
  BY <1>1, CreateFollows, RegisterFollows, DeleteFollows, UnregisterFollows
<1>2. CASE \/ LookUpDevice(t) \/ ActivateUnderLock(t)
           \/ RegisterActiveConnectionObject(t)
           \/ AnnounceAdded(t) \/ LookUpActive(t) \/ DeactivateUnderLock(t)
           \/ Drain(t) \/ Emit(t) \/ ReadRootState(t) \/ EmitRootState(t)
  <2>1. /\ Moves(t) /\ UNCHANGED <<profiles, conn_objs>>
        /\ th[t].pc \notin {"object", "unregister"}
        /\ th'[t].pc \notin {"object", "unregister"}
        /\ th[t].pc \in OwnerPcs => th'[t].pc \in OwnerPcs
    BY <1>2, OtherRegions
  <2>2. t \in BusThreads \/ th'[t].pc \in OwnerPcs
    BY <2>1 DEF ObjectsFollowStore
  <2> QED BY <2>1, <2>2, StoreLeftAlone
<1> QED BY <1>1, <1>2 DEF Region

(* Every step keeps the objects in line with the store.                    *)
LEMMA NextFollows == FInv /\ ObjectsFollowStore /\ [FacadeNext]_fvars => ObjectsFollowStore'
<1> SUFFICES ASSUME FInv, ObjectsFollowStore, [FacadeNext]_fvars
             PROVE  ObjectsFollowStore'
  OBVIOUS
<1>1. CASE UNCHANGED <<profiles, conn_objs, th>>
  BY <1>1 DEF ObjectsFollowStore, FollowsStore, Stored
<1>2. ASSUME NEW t \in Threads, NEW w \in Thread, Begin(t, w),
             w.pc \notin {"object", "unregister"}, t \in BusThreads \/ w.pc \in OwnerPcs
      PROVE  ObjectsFollowStore'
  <2>1. Moves(t) /\ th'[t] = w /\ th[t].pc = "idle" /\ UNCHANGED <<profiles, conn_objs>>
    BY <1>2, MovesTo DEF Begin, FInv, vars, registry
  <2> QED BY <1>2, <2>1, StoreLeftAlone
<1>3. ASSUME NEW t \in BusThreads, Call(t)
      PROVE  ObjectsFollowStore'
  <2>1. t \in Threads
    BY DEF Threads
  <2>2. CASE Started(t)
    BY <1>2, <2>1, <2>2 DEF Started
  <2>3. CASE \E p \in ProfileIds, s \in Settings : ConnectionUpdate(t, p, s)
    <3>1. PICK p \in ProfileIds, s \in Settings : ConnectionUpdate(t, p, s)
      BY <2>3
    <3>2. UNCHANGED <<conn_objs, th>> /\ Stored' = Stored
      <4>1. /\ profiles[p] # None /\ profiles' = [profiles EXCEPT ![p] = s]
            /\ UNCHANGED <<conn_objs, th>>
            /\ profiles \in [ProfileIds -> Settings \cup {None}]
        BY <3>1 DEF ConnectionUpdate, UpdateProfile, registry, FInv, FacadeTypeOK, TypeOK
      <4>2. s # None
        BY ProfileAssumption
      <4> QED BY <4>1, <4>2 DEF Stored
    <3> QED BY <3>2 DEF ObjectsFollowStore, FollowsStore
  <2> QED BY <1>3, <2>2, <2>3, CallCases
<1>4. ASSUME NEW t \in OwnerThreads, NEW id \in ActiveIds, OwnerTeardown(t, id)
      PROVE  ObjectsFollowStore'
  <2>1. t \in Threads /\ "deactivate" \in OwnerPcs
    BY DEF Threads, OwnerPcs
  <2> QED BY <1>2, <1>4, <2>1, OwnerStarts
<1>5. ASSUME NEW t \in Threads, Region(t)
      PROVE  ObjectsFollowStore'
  BY <1>5, RegionFollows
<1>6. ASSUME NEW i \in Indices, NEW to \in LinkStates, LinkChange(i, to)
      PROVE  ObjectsFollowStore'
  BY <1>1, <1>6 DEF LinkChange, vars, registry
<1>7. CASE UNCHANGED fvars
  BY <1>1, <1>7 DEF fvars, vars, registry
<1> QED BY <1>3, <1>4, <1>5, <1>6, <1>7 DEF FacadeNext

(* They are in line at the start.                                          *)
LEMMA InitFollows == FacadeInit => ObjectsFollowStore
<1> SUFFICES ASSUME FacadeInit PROVE ObjectsFollowStore
  OBVIOUS
<1>1. \A t \in Threads : th[t].pc = "idle"
  BY IdleType DEF FacadeInit
<1>2. conn_objs = Stored
  BY DEF FacadeInit, Stored
<1> QED BY <1>1, <1>2 DEF ObjectsFollowStore, FollowsStore, OwnerPcs, Threads

(* With one thread of the object server and no handler under way the       *)
(* Settings.Connection objects are the stored profiles: whatever Add,      *)
(* AddAndActivate, Update, Delete and Device.Delete were served before,    *)
(* and whatever the embedding program took down meanwhile.                 *)
THEOREM ObjectsMatchStore == FacadeSpec => []ConnectionObjectsAgree
<1>1. ObjectsFollowStore /\ FInv => ConnectionObjectsAgree
  <2> SUFFICES ASSUME ObjectsFollowStore, FInv, Cardinality(BusThreads) = 1,
                      \A t \in BusThreads : th[t].pc = "idle"
               PROVE  /\ ListConnections = conn_objs
                      /\ \A p \in ProfileIds : profiles[p] # None => p \in conn_objs
    BY DEF ConnectionObjectsAgree
  <2>1. IsFiniteSet(BusThreads)
    BY FacadeAssumption, FS_Subset DEF Threads
  <2>2. PICK b : BusThreads = {b}
    BY <2>1, FS_Singleton
  <2>3. conn_objs = Stored
    BY <2>2 DEF ObjectsFollowStore, FollowsStore
  <2> QED BY <2>3 DEF Stored, ListConnections
<1>2. FacadeSpec => []ObjectsFollowStore
  BY InitFollows, NextFollows, FacadeInvariance, PTL DEF FacadeSpec
<1> QED BY <1>1, <1>2, FacadeInvariance, PTL

-----------------------------------------------------------------------------
(* One operation at a time: what the bus has been told.                    *)

(* What a region has to show about the signals, if no other operation      *)
(* overlaps with its own.                                                  *)
LEMMA SoloStep ==
    ASSUME FInv, FInv', Solo, NEW t \in Threads, Moves(t),
           ~overlap' => ~overlap /\ Alone(t),
           Explained(th[t]) => Explained(th[t])'
    PROVE  Solo'
<1> SUFFICES ASSUME ~overlap'
             PROVE  /\ AllIdle' => Explained(Idle)'
                    /\ \A u \in Threads :
                          th'[u].pc # "idle" => Alone(u)' /\ Explained(th[u])'
  BY DEF Solo
<1>1. ~overlap /\ Alone(t)
  OBVIOUS
<1>2. (th[t].pc = "idle" => th[t].evs = <<>>) /\ (th'[t].pc = "idle" => th'[t].evs = <<>>)
  BY DEF FInv, ArgsFit
<1>3. Explained(th[t])
  <2>1. CASE th[t].pc = "idle"
    <3>1. AllIdle
      BY <1>1, <2>1 DEF AllIdle, Alone
    <3>2. Explained(Idle)
      BY <1>1, <3>1 DEF Solo
    <3> QED BY <1>2, <2>1, <3>2, IdleType
            DEF Explained, ObjectsExplained, RootExplained, SignalsExplained
  <2>2. CASE th[t].pc # "idle"
    BY <1>1, <2>2 DEF Solo
  <2> QED BY <2>1, <2>2
<1>4. Explained(th[t])'
  BY <1>3
<1>5. Alone(t)'
  BY <1>1 DEF Alone, Moves
<1>6. AllIdle' => Explained(Idle)'
  <2> SUFFICES ASSUME AllIdle' PROVE Explained(Idle)'
    OBVIOUS
  <2>1. th'[t].pc = "idle" /\ th'[t].evs = <<>>
    BY <1>2 DEF AllIdle
  <2> QED BY <1>4, <2>1, IdleType
          DEF Explained, ObjectsExplained, RootExplained, SignalsExplained
<1>7. \A u \in Threads : th'[u].pc # "idle" => u = t
  BY <1>5 DEF Alone
<1> QED BY <1>4, <1>5, <1>6, <1>7

(* A region that has nothing to do with active connections.                *)
LEMMA NothingTold ==
    ASSUME NEW t \in Threads, Explained(th[t]),
           UNCHANGED <<active, events, view, act_objs, announced, root_state, actSignal>>,
           th[t].evs = <<>>, th'[t].evs = <<>>,
           th[t].pc \notin {"added", "emit", "root"},
           th'[t].pc \notin {"register", "added", "emit", "root"}
    PROVE  Explained(th[t])'
<1>1. ObjectsExplained(th[t])'
  BY DEF Explained, ObjectsExplained, Tracked, Dead
<1>2. RootExplained(th[t])'
  BY DEF Explained, RootExplained, CurrentNmState
<1>3. SignalsExplained(th[t])'
  BY DEF Explained, SignalsExplained, SignalLeadsTo
<1> QED BY <1>1, <1>2, <1>3 DEF Explained

(* An operation of the manager that pushes events changes what is still to *)
(* be told, and nothing that has been.                                     *)
LEMMA ManagerRegion ==
    ASSUME NEW t \in Threads, Explained(th[t]),
           UNCHANGED <<view, act_objs, announced, root_state, actSignal>>,
           th[t].evs = <<>>, th'[t].evs = <<>>,
           th[t].pc \notin {"added", "emit", "root"},
           th'[t].pc \notin {"added", "emit", "root"},
           events' # <<>>,
           \A k \in DOMAIN events : k \in DOMAIN events' /\ events'[k] = events[k],
           \A a : Tracked(a) => Tracked(a)' \/ Dead(events, a)',
           th'[t].pc = "register" => Tracked(th[t].id)'
    PROVE  Explained(th[t])'
<1>1. \A a : Dead(events, a) => Dead(events, a)'
  BY DEF Dead
<1>2. ObjectsExplained(th[t])'
  <2>1. ASSUME NEW a \in act_objs'
        PROVE  Tracked(a)' \/ Dead(events, a)'
    <3>1. Tracked(a) \/ Dead(events, a) \/ Dead(th[t].evs, a)
      BY DEF Explained, ObjectsExplained
    <3>2. ~Dead(th[t].evs, a)
      BY DEF Dead
    <3> QED BY <1>1, <3>1, <3>2
  <2>2. \A a \in ActiveIds :
           a \in act_objs' <=> (announced'[a] = "added"
                                   \/ (th'[t].pc = "added" /\ th'[t].id = a))
    BY DEF Explained, ObjectsExplained
  <2> QED BY <2>1, <2>2 DEF ObjectsExplained
<1>3. RootExplained(th[t])'
  BY DEF RootExplained
<1>4. SignalsExplained(th[t])'
  BY DEF Explained, SignalsExplained, SignalLeadsTo
<1> QED BY <1>2, <1>3, <1>4 DEF Explained

(* The new connection's events and its object are on their way.            *)
LEMMA ActivateTold ==
    ASSUME FInv, NEW t \in Threads, Explained(th[t]), ActivateUnderLock(t)
    PROVE  Explained(th[t])'
<1>1. /\ th[t].pc = "activate" /\ th[t].evs = <<>>
      /\ UNCHANGED <<act_objs, announced, root_state, actSignal>>
  BY DEF ActivateUnderLock, At, FInv, ArgsFit, registry, signals
<1>2. /\ th'[t].pc \in {"register", "idle"} /\ th'[t].evs = <<>>
      /\ th'[t].pc = "register" => th'[t].id = next_id
  BY ActivateMoves
<1>3. CASE UNCHANGED vars /\ Return(t)
  <2>1. th'[t].pc = "idle"
    BY <1>3, ReturnMoves, IdleType DEF FInv
  <2> QED BY <1>1, <1>2, <1>3, <2>1, NothingTold DEF vars
<1>4. ASSUME NEW p \in ProfileIds, NEW ok \in BOOLEAN,
             ActivateMatching(p, InfoAt[th[t].index], ok)
      PROVE  Explained(th[t])'
  <2> DEFINE d == InfoAt[th[t].index]
             SC(s, u) == StateChanged(next_id, p, s, u)
             out == Outcome(IF ok THEN "Activated" ELSE "Failed", next_id, p)
  <2>1. active' = Append(active, NewEntry(p, d, ok)) /\ events' = AttemptEvents(p, ok)
    BY <1>4, ActivateEffect
  <2>2. active \in Seq(ActiveConnection) /\ events \in Seq(ConnectionEvent)
    BY DEF FInv, IInv, TypeOK
  <2>3. events' = IF ok
                  THEN Append(Append(Append(Append(Append(events,
                           SC("Disconnected", "Preparing")),
                           SC("Preparing", "Configuring")),
                           SC("Configuring", "Activating")),
                           SC("Activating", "Activated")), out)
                  ELSE Append(Append(Append(events,
                           SC("Disconnected", "Preparing")),
                           SC("Preparing", "Failed")), out)
    BY <2>1 DEF AttemptEvents
  <2> HIDE DEF SC, out
  <2>4. /\ events' # <<>>
        /\ \A k \in DOMAIN events : k \in DOMAIN events' /\ events'[k] = events[k]
    BY <2>2, <2>3
  <2>5. NewEntry(p, d, ok).id = next_id
    BY DEF NewEntry
  <2>6. /\ \A k \in DOMAIN active : k \in DOMAIN active' /\ active'[k] = active[k]
        /\ \E k \in DOMAIN active' : active'[k].id = next_id
    BY <2>1, <2>2, <2>5
  <2>7. /\ \A a : Tracked(a) => Tracked(a)'
        /\ th'[t].pc = "register" => Tracked(th[t].id)'
    BY <1>2, <2>6 DEF Tracked
  <2>8. view' = view
    BY <1>4 DEF ActivateMatching
  <2> QED BY <1>1, <1>2, <2>4, <2>7, <2>8, ManagerRegion
<1> QED BY <1>3, <1>4, ActivateCases

(* The removed connection's events are on their way.                       *)
LEMMA DeactivateTold ==
    ASSUME FInv, NEW t \in Threads, Explained(th[t]), DeactivateUnderLock(t)
    PROVE  Explained(th[t])'
<1>1. /\ th[t].pc = "deactivate" /\ th[t].evs = <<>> /\ th[t].id \in ActiveIds
      /\ UNCHANGED <<act_objs, announced, root_state, actSignal>>
  BY DEF DeactivateUnderLock, At, FInv, ArgsFit, registry, signals
<1>2. th'[t].pc \in {"drain", "idle"} /\ th'[t].evs = <<>>
  <2>1. (Goto(t, "drain") \/ Return(t)) /\ "drain" \in Pcs /\ th \in [Threads -> Thread]
    BY DEF DeactivateUnderLock, Pcs, FInv
  <2> QED BY <1>1, <2>1, GotoMoves, ReturnMoves, IdleType DEF SameButPc
<1>3. CASE UNCHANGED vars
  BY <1>1, <1>2, <1>3, NothingTold DEF vars
<1>4. ASSUME NEW ok \in BOOLEAN, NEW held \in BOOLEAN, Deactivate(th[t].id, ok, held)
      PROVE  Explained(th[t])'
  <2>0. PICK id \in ActiveIds : id = th[t].id
    BY <1>1
  <2>1. PICK i \in DOMAIN active : TeardownEffect(i, id, ok, held)
    BY <1>4, <2>0, DeactivateEffect DEF FInv, IInv
  <2> DEFINE SC(s, u) == StateChanged(id, active[i].profile, s, u)
             down == SC("Activated", "Deactivating")
             ended == SC("Deactivating", IF ok THEN "Disconnected" ELSE "Failed")
             out == Outcome(IF ok THEN "Deactivated" ELSE "Failed", id,
                            active[i].profile)
  <2>2. events' = Append(Append(Append(events, down), ended), out)
    BY <2>1 DEF TeardownEffect, TeardownEvents
  <2>3. out.active_id = id /\ (ok => out.kind = "Deactivated")
    BY DEF Outcome
  <2> HIDE DEF down, ended, out
  <2>4. active \in Seq(ActiveConnection) /\ events \in Seq(ConnectionEvent)
    BY DEF FInv, IInv, TypeOK
  <2>5. /\ events' # <<>>
        /\ \A k \in DOMAIN events : k \in DOMAIN events' /\ events'[k] = events[k]
        /\ Len(events) + 3 \in DOMAIN events' /\ events'[Len(events) + 3] = out
    BY <2>2, <2>4
  <2>6. active[i].id = id /\ view' = view
    BY <2>1 DEF TeardownEffect
  <2>7. \A a : Tracked(a) => Tracked(a)' \/ Dead(events, a)'
    <3>1. CASE ok
      <4>1. active' = RemoveAt(active, i)
        BY <2>1, <3>1 DEF TeardownEffect
      <4>2. \A k \in DOMAIN active :
               k # i => \E j \in DOMAIN active' : active'[j] = active[k]
        BY <2>4, <4>1, RemoveAtMembers
      <4>3. Dead(events, id)'
        BY <2>3, <2>5, <3>1 DEF Dead
      <4> QED BY <2>6, <4>2, <4>3 DEF Tracked
    <3>2. CASE ~ok
      <4> DEFINE f == [id |-> id, profile |-> active[i].profile,
                       device |-> active[i].device, state |-> "Failed"]
      <4>1. active' = [active EXCEPT ![i] = f]
        BY <2>1, <3>2 DEF TeardownEffect
      <4>2. f.id = id
        OBVIOUS
      <4> HIDE DEF f
      <4>3. DOMAIN active' = DOMAIN active
            /\ \A k \in DOMAIN active : active'[k].id = active[k].id
        BY <2>4, <2>6, <4>1, <4>2
      <4> QED BY <4>3 DEF Tracked
    <3> QED BY <3>1, <3>2
  <2> QED BY <1>1, <1>2, <2>5, <2>6, <2>7, ManagerRegion
<1> QED BY <1>3, <1>4 DEF DeactivateUnderLock

(* The new object is there; its announcement is next.                      *)
LEMMA RegisterActiveTold ==
    ASSUME FInv, NEW t \in Threads, Explained(th[t]), RegisterActiveConnectionObject(t)
    PROVE  Explained(th[t])'
<1>1. /\ th[t].pc = "register" /\ th[t].evs = <<>> /\ th[t].id \in ActiveIds
      /\ act_objs' = act_objs \cup {th[t].id} /\ Goto(t, "added") /\ "added" \in Pcs
      /\ UNCHANGED <<active, events, view, announced, root_state, actSignal>>
      /\ th \in [Threads -> Thread]
  BY DEF RegisterActiveConnectionObject, At, FInv, ArgsFit, signals, vars, Pcs
<1>2. th'[t].pc = "added" /\ th'[t].evs = <<>> /\ th'[t].id = th[t].id
  BY <1>1, GotoMoves DEF SameButPc
<1>3. ObjectsExplained(th[t])'
  BY <1>1, <1>2 DEF Explained, ObjectsExplained, Tracked, Dead
<1>4. RootExplained(th[t])'
  BY <1>1, <1>2 DEF Explained, RootExplained, CurrentNmState
<1>5. SignalsExplained(th[t])'
  BY <1>1, <1>2 DEF Explained, SignalsExplained, SignalLeadsTo
<1> QED BY <1>3, <1>4, <1>5 DEF Explained

(* The new connection is announced before its events are mirrored.         *)
LEMMA AnnounceAddedTold ==
    ASSUME FInv, NEW t \in Threads, Explained(th[t]), AnnounceAdded(t)
    PROVE  Explained(th[t])'
<1>1. /\ th[t].pc = "added" /\ th[t].evs = <<>> /\ th[t].id \in ActiveIds
      /\ announced' = [announced EXCEPT ![th[t].id] = "added"]
      /\ Goto(t, "drain") /\ "drain" \in Pcs
      /\ UNCHANGED <<active, events, view, act_objs, root_state, actSignal>>
      /\ th \in [Threads -> Thread]
      /\ announced \in [ActiveIds -> {"no", "added", "removed"}]
  BY DEF AnnounceAdded, At, FInv, ArgsFit, registry, vars, Pcs, FacadeTypeOK
<1>2. th'[t].pc = "drain" /\ th'[t].evs = <<>>
  BY <1>1, GotoMoves DEF SameButPc
<1>3. ObjectsExplained(th[t])'
  BY <1>1, <1>2 DEF Explained, ObjectsExplained, Tracked, Dead
<1>4. RootExplained(th[t])'
  BY <1>1, <1>2 DEF Explained, RootExplained, CurrentNmState
<1>5. SignalsExplained(th[t])'
  BY <1>1, <1>2 DEF Explained, SignalsExplained, SignalLeadsTo
<1> QED BY <1>3, <1>4, <1>5 DEF Explained

(* What was in the queue is now with the thread, and the consumer of the   *)
(* drained events knows it.                                                *)
LEMMA DrainTold ==
    ASSUME FInv, NEW t \in Threads, Explained(th[t]), Drain(t)
    PROVE  Explained(th[t])'
<1>1. /\ th[t].pc = "drain" /\ th[t].evs = <<>>
      /\ UNCHANGED <<active, act_objs, announced, root_state, actSignal>>
      /\ events' = <<>>
  BY DEF Drain, At, FInv, ArgsFit, registry, signals, DrainEvents, vars
<1>2. th'[t].pc = "emit" /\ th'[t].evs = events
  BY DrainMoves
<1>3. ObjectsExplained(th[t])'
  BY <1>1, <1>2 DEF Explained, ObjectsExplained, Tracked, Dead
<1>4. RootExplained(th[t])'
  BY <1>1, <1>2 DEF RootExplained
<1>5. ASSUME NEW a \in ActiveIds
      PROVE  \E s \in ConnectionStates :
                actSignal'[a] = ActiveNmState(s) /\ Replays(th'[t].evs, a, s, view'[a])
  <2>1. PICK s \in ConnectionStates :
            actSignal[a] = ActiveNmState(s) /\ Replays(<<>>, a, s, view[a])
    BY <1>1 DEF Explained, SignalsExplained, SignalLeadsTo
  <2>2. s = view[a]
    BY <2>1 DEF Replays, Changes
  <2>3. Replays(events, a, view[a], view'[a])
    <3>1. CASE events = <<>>
      BY <1>1, <3>1 DEF Drain, vars, Replays, Changes
    <3>2. CASE events # <<>>
      BY <3>2, DrainReplays DEF Drain, FInv, IInv
    <3> QED BY <3>1, <3>2
  <2> QED BY <1>1, <1>2, <2>1, <2>2, <2>3
<1>6. SignalsExplained(th[t])'
  BY <1>5 DEF SignalsExplained, SignalLeadsTo
<1> QED BY <1>3, <1>4, <1>6 DEF Explained

(* Taking the first event off leaves what the rest of them tell.           *)
LEMMA ReplayTail ==
    ASSUME NEW evs \in Seq(ConnectionEvent), evs # <<>>, NEW a, NEW s, NEW after,
           Replays(evs, a, s, after), NEW rest, rest = Tail(evs)
    PROVE  Replays(rest, a,
                   IF evs[1].kind = "StateChanged" /\ evs[1].active_id = a
                   THEN evs[1].current ELSE s, after)
<1> DEFINE n == Len(evs)
<1>1. /\ n \in Nat /\ n >= 1 /\ DOMAIN evs = 1..n /\ DOMAIN rest = 1..(n - 1)
      /\ \A k \in 1..(n - 1) : rest[k] = evs[k + 1]
  OBVIOUS
<1> HIDE DEF n
<1>2. \A k \in Changes(rest, a) : /\ k \in 1..(n - 1) /\ rest[k] = evs[k + 1]
                                  /\ k + 1 \in Changes(evs, a)
  BY <1>1 DEF Changes
<1>3. \A k \in Changes(evs, a) : k \in 1..n /\ (k # 1 => k - 1 \in Changes(rest, a))
  <2> TAKE k \in Changes(evs, a)
  <2>1. k \in 1..n /\ evs[k].kind = "StateChanged" /\ evs[k].active_id = a
    BY <1>1 DEF Changes
  <2>2. CASE k # 1
    <3>1. k - 1 \in 1..(n - 1) /\ rest[k - 1] = evs[k]
      BY <1>1, <2>1, <2>2
    <3> QED BY <1>1, <2>1, <3>1 DEF Changes
  <2> QED BY <2>1, <2>2
<1>4. 1 \in Changes(evs, a) <=> (evs[1].kind = "StateChanged" /\ evs[1].active_id = a)
  BY <1>1 DEF Changes
<1>5. ASSUME Changes(rest, a) = {}
      PROVE  after = IF evs[1].kind = "StateChanged" /\ evs[1].active_id = a
                     THEN evs[1].current ELSE s
  <2>1. \A k \in Changes(evs, a) : k = 1
    BY <1>3, <1>5
  <2>2. CASE 1 \in Changes(evs, a)
    BY <1>4, <2>1, <2>2 DEF Replays
  <2>3. CASE 1 \notin Changes(evs, a)
    <3>1. Changes(evs, a) = {}
      BY <2>1, <2>3
    <3> QED BY <1>4, <2>3, <3>1 DEF Replays
  <2> QED BY <2>2, <2>3
<1>6. ASSUME NEW k \in Changes(rest, a), \A m \in Changes(rest, a) : m <= k
      PROVE  after = rest[k].current
  <2>1. k + 1 \in Changes(evs, a) /\ rest[k] = evs[k + 1] /\ k \in 1..(n - 1)
    BY <1>2
  <2>2. \A m \in Changes(evs, a) : m <= k + 1
    BY <1>1, <1>3, <1>6, <2>1
  <2> QED BY <2>1, <2>2 DEF Replays
<1> QED BY <1>5, <1>6 DEF Replays

(* The obituaries left are those that were there but for the first.        *)
LEMMA DeadTail ==
    ASSUME NEW evs \in Seq(ConnectionEvent), evs # <<>>, NEW a, Dead(evs, a),
           NEW rest, rest = Tail(evs)
    PROVE  Dead(rest, a) \/ (evs[1].kind = "Deactivated" /\ evs[1].active_id = a)
<1>1. PICK k \in DOMAIN evs : evs[k].kind = "Deactivated" /\ evs[k].active_id = a
  BY DEF Dead
<1>2. CASE k # 1
  <2>1. k - 1 \in DOMAIN rest /\ rest[k - 1] = evs[k]
    BY <1>2
  <2> QED BY <1>1, <2>1 DEF Dead
<1> QED BY <1>1, <1>2

(* Mirroring an event makes the listener catch up with it.                 *)
LEMMA EmitTold ==
    ASSUME FInv, NEW t \in Threads, Explained(th[t]), Emit(t)
    PROVE  Explained(th[t])'
<1> DEFINE evs == th[t].evs
           e == Head(evs)
<1>1. /\ evs \in Seq(ConnectionEvent) /\ evs # <<>> /\ th[t].pc = "emit"
      /\ th'[t].pc = "emit" /\ th'[t].evs = Tail(evs)
      /\ UNCHANGED <<active, events, view, root_state>>
  <2>1. th[t] \in Thread
    BY DEF FInv
  <2> QED BY <2>1, EmitMirrors DEF Thread, vars
<1>2. /\ e = evs[1] /\ e.active_id \in ActiveIds
      /\ e.kind = "StateChanged" => e.current \in ConnectionStates
  BY <1>1, HeadOfDrained
<1>3. \/ /\ e.kind = "StateChanged" /\ UNCHANGED <<act_objs, announced>>
         /\ actSignal' = [actSignal EXCEPT ![e.active_id] = ActiveNmState(e.current)]
      \/ /\ e.kind = "Deactivated" /\ UNCHANGED actSignal
         /\ act_objs' = act_objs \ {e.active_id}
         /\ announced' = [announced EXCEPT ![e.active_id] = "removed"]
      \/ /\ e.kind \in {"Activated", "Failed"}
         /\ UNCHANGED <<act_objs, announced, actSignal>>
  BY DEF Emit, MirrorStateChanged, MirrorDeactivated, MirrorOutcome, registry, signals
<1> HIDE DEF e
<1>4. ASSUME NEW a, Dead(th[t].evs, a)
      PROVE  Dead(th[t].evs, a)' \/ (e.kind = "Deactivated" /\ e.active_id = a)
  <2>1. Dead(Tail(evs), a) \/ (e.kind = "Deactivated" /\ e.active_id = a)
    BY <1>1, <1>2, <1>4, DeadTail
  <2> QED BY <1>1, <2>1 DEF Dead
<1> HIDE DEF evs
<1>5. ObjectsExplained(th[t])'
  <2>1. ASSUME NEW a \in act_objs'
        PROVE  Tracked(a)' \/ Dead(events, a)' \/ Dead(th[t].evs, a)'
    <3>1. a \in act_objs /\ ~(e.kind = "Deactivated" /\ e.active_id = a)
      BY <1>3, <2>1
    <3>2. Tracked(a) \/ Dead(events, a) \/ Dead(th[t].evs, a)
      BY <3>1 DEF Explained, ObjectsExplained
    <3>3. (Tracked(a) => Tracked(a)') /\ (Dead(events, a) => Dead(events, a)')
      BY <1>1 DEF Tracked, Dead
    <3> QED BY <1>4, <3>1, <3>2, <3>3
  <2>2. ASSUME NEW a \in ActiveIds
        PROVE  a \in act_objs' <=> announced'[a] = "added"
    <3>1. a \in act_objs <=> announced[a] = "added"
      BY <1>1 DEF Explained, ObjectsExplained
    <3>2. announced \in [ActiveIds -> {"no", "added", "removed"}]
      BY DEF FInv, FacadeTypeOK
    <3> QED BY <1>2, <1>3, <3>1, <3>2
  <2> QED BY <1>1, <2>1, <2>2 DEF ObjectsExplained
<1>6. RootExplained(th[t])'
  BY <1>1 DEF RootExplained
<1>7. ASSUME NEW a \in ActiveIds
      PROVE  \E s \in ConnectionStates :
                actSignal'[a] = ActiveNmState(s) /\ Replays(th'[t].evs, a, s, view'[a])
  <2>1. PICK s \in ConnectionStates :
            actSignal[a] = ActiveNmState(s) /\ Replays(evs, a, s, view[a])
    BY DEF Explained, SignalsExplained, SignalLeadsTo, evs
  <2>2. actSignal \in [ActiveIds -> {"activating", "activated", "deactivating",
                                     "deactivated"}]
    BY DEF FInv, FacadeTypeOK
  <2>3. CASE e.kind = "StateChanged" /\ e.active_id = a
    <3>1. Replays(Tail(evs), a, e.current, view[a])
      BY <1>1, <1>2, <2>1, <2>3, ReplayTail
    <3>2. actSignal'[a] = ActiveNmState(e.current)
      BY <1>3, <2>2, <2>3
    <3> QED BY <1>1, <1>2, <2>3, <3>1, <3>2
  <2>4. CASE ~(e.kind = "StateChanged" /\ e.active_id = a)
    <3>1. Replays(Tail(evs), a, s, view[a])
      BY <1>1, <1>2, <2>1, <2>4, ReplayTail
    <3>2. actSignal'[a] = actSignal[a]
      BY <1>3, <2>2, <2>4
    <3> QED BY <1>1, <2>1, <3>1, <3>2
  <2> QED BY <2>3, <2>4
<1>8. SignalsExplained(th[t])'
  BY <1>7 DEF SignalsExplained, SignalLeadsTo
<1> QED BY <1>5, <1>6, <1>8 DEF Explained

(* The daemon-wide state is read and announced last.                       *)
LEMMA RootTold ==
    ASSUME FInv, NEW t \in Threads, Explained(th[t]),
           ReadRootState(t) \/ EmitRootState(t)
    PROVE  Explained(th[t])'
<1>1. CASE ReadRootState(t)
  <2>1. /\ th[t].pc = "emit" /\ th[t].evs = <<>>
        /\ UNCHANGED <<active, events, view, act_objs, announced, root_state, actSignal>>
    BY <1>1 DEF ReadRootState, At, registry, signals, vars
  <2>2. th'[t].pc = "root" /\ th'[t].evs = <<>> /\ th'[t].root = CurrentNmState
    BY <1>1, ReadRootMoves
  <2>3. ObjectsExplained(th[t])'
    BY <2>1, <2>2 DEF Explained, ObjectsExplained, Tracked, Dead
  <2>4. RootExplained(th[t])'
    BY <2>1, <2>2 DEF RootExplained, CurrentNmState
  <2>5. SignalsExplained(th[t])'
    BY <2>1, <2>2 DEF Explained, SignalsExplained, SignalLeadsTo
  <2> QED BY <2>3, <2>4, <2>5 DEF Explained
<1>2. CASE EmitRootState(t)
  <2>1. /\ th[t].pc = "root" /\ th[t].evs = <<>> /\ root_state' = th[t].root
        /\ UNCHANGED <<active, events, view, act_objs, announced, actSignal>>
    BY <1>2 DEF EmitRootState, At, signals, vars, FInv, ArgsFit
  <2>2. th'[t].pc = "idle" /\ th'[t].evs = <<>>
    BY <1>2, ReturnMoves, IdleType DEF EmitRootState, FInv
  <2>3. ObjectsExplained(th[t])'
    BY <2>1, <2>2 DEF Explained, ObjectsExplained, Tracked, Dead
  <2>4. RootExplained(th[t])'
    BY <2>1, <2>2 DEF Explained, RootExplained, CurrentNmState
  <2>5. SignalsExplained(th[t])'
    BY <2>1, <2>2 DEF Explained, SignalsExplained, SignalLeadsTo
  <2> QED BY <2>3, <2>4, <2>5 DEF Explained
<1> QED BY <1>1, <1>2

(* The regions that have nothing to tell.                                  *)
LEMMA QuietRegion ==
    ASSUME FInv, NEW t \in Threads,
           \/ Create(t) \/ RegisterConnectionObject(t) \/ LookUpDevice(t)
           \/ LookUpActive(t) \/ DeleteUnderLock(t) \/ UnregisterConnection(t)
    PROVE  Moves(t) /\ (Explained(th[t]) => Explained(th[t])')
<1>0. /\ th \in [Threads -> Thread] /\ ArgsFit(th[t])
      /\ Idle.pc = "idle" /\ Idle.evs = <<>>
      /\ {"object", "activate", "active", "unregister"} \subseteq Pcs
  BY IdleType DEF FInv, Pcs
<1>1. /\ UNCHANGED <<active, events, view, act_objs, announced, root_state, actSignal>>
      /\ th[t].pc \in {"create", "object", "device", "name", "active", "delete",
                       "unregister"}
      /\ \/ Return(t) \/ RegisterConnectionObject(t) \/ LookUpActive(t)
         \/ \E next \in {"object", "activate", "active", "unregister"} : Goto(t, next)
  <2>1. CASE Create(t)
    BY <2>1 DEF Create, At, CreateProfile, registry, signals, vars
  <2>2. CASE RegisterConnectionObject(t)
    BY <2>2 DEF RegisterConnectionObject, At, signals, vars
  <2>3. CASE LookUpDevice(t)
    BY <2>3 DEF LookUpDevice, At, registry, signals, vars
  <2>4. CASE LookUpActive(t)
    <3>1. th[t].pc = "active" /\ UNCHANGED <<vars, registry, signals>>
      BY <2>4 DEF LookUpActive, At
    <3> QED BY <2>4, <3>1 DEF registry, signals, vars
  <2>5. CASE DeleteUnderLock(t)
    BY <2>5 DEF DeleteUnderLock, At, DeleteProfile, registry, signals, vars
  <2>6. CASE UnregisterConnection(t)
    BY <2>6 DEF UnregisterConnection, At, vars
  <2> QED BY <2>1, <2>2, <2>3, <2>4, <2>5, <2>6
<1>2. th[t].evs = <<>>
  BY <1>0, <1>1 DEF ArgsFit
<1>3. /\ Moves(t) /\ th'[t].evs = <<>>
      /\ th'[t].pc \notin {"register", "added", "emit", "root"}
  <2>1. CASE Return(t)
    BY <1>0, <2>1, ReturnMoves
  <2>2. CASE RegisterConnectionObject(t)
    BY <2>2, RegisterConnectionMoves
  <2>3. CASE LookUpActive(t)
    BY <2>3, LookUpActiveMoves
  <2>4. ASSUME NEW next \in {"object", "activate", "active", "unregister"}, Goto(t, next)
        PROVE  Moves(t) /\ th'[t].evs = <<>> /\ th'[t].pc = next
    BY <1>0, <1>2, <2>4, GotoMoves DEF SameButPc
  <2> QED BY <1>1, <2>1, <2>2, <2>3, <2>4
<1> QED BY <1>1, <1>2, <1>3, NothingTold

(* Every region keeps the account of what has been told.                   *)
LEMMA RegionSolo ==
    ASSUME FInv, FInv', Solo, NEW t \in Threads, Region(t)
    PROVE  Solo'
<1>1. overlap' = overlap /\ th[t].pc # "idle"
  BY DEF Region, Create, RegisterConnectionObject, LookUpDevice, ActivateUnderLock,
         RegisterActiveConnectionObject, AnnounceAdded, LookUpActive,
         DeactivateUnderLock, DeleteUnderLock, UnregisterConnection, Drain, Emit,
         ReadRootState, EmitRootState, At
<1>2. ~overlap' => ~overlap /\ Alone(t)
  BY <1>1 DEF Solo
<1>3. CASE \/ Create(t) \/ RegisterConnectionObject(t) \/ LookUpDevice(t)
           \/ LookUpActive(t) \/ DeleteUnderLock(t) \/ UnregisterConnection(t)
  BY <1>2, <1>3, QuietRegion, SoloStep
<1>4. CASE \/ ActivateUnderLock(t) \/ RegisterActiveConnectionObject(t)
           \/ AnnounceAdded(t) \/ DeactivateUnderLock(t)
           \/ Drain(t) \/ Emit(t) \/ ReadRootState(t) \/ EmitRootState(t)
  <2>1. Moves(t)
    BY <1>4, OtherRegions
  <2>2. Explained(th[t]) => Explained(th[t])'
    BY <1>4, ActivateTold, RegisterActiveTold, AnnounceAddedTold, DeactivateTold,
       DrainTold, EmitTold, RootTold
  <2> QED BY <1>2, <2>1, <2>2, SoloStep
<1> QED BY <1>3, <1>4 DEF Region

(* So does every step.                                                     *)
LEMMA NextSolo == FInv /\ FInv' /\ Solo /\ [FacadeNext]_fvars => Solo'
<1> SUFFICES ASSUME FInv, FInv', Solo, [FacadeNext]_fvars
             PROVE  Solo'
  OBVIOUS
<1>1. ASSUME UNCHANGED <<vars, registry, signals, th, overlap>>
      PROVE  Solo'
  <2>1. UNCHANGED <<active, events, view, act_objs, announced, root_state, actSignal,
                    th, overlap>>
    BY <1>1 DEF vars, registry, signals
  <2> QED BY <2>1 DEF Solo, Alone, AllIdle, Explained, ObjectsExplained, RootExplained,
                      SignalsExplained, SignalLeadsTo, Tracked, Dead, CurrentNmState
<1>2. ASSUME NEW t \in Threads, NEW w \in Thread, Begin(t, w), w.evs = <<>>,
             w.pc \in {"device", "create", "deactivate", "name", "delete"}
      PROVE  Solo'
  <2>1. /\ Moves(t) /\ th'[t] = w /\ th[t].pc = "idle" /\ th[t].evs = <<>>
        /\ UNCHANGED <<active, events, view, act_objs, announced, root_state, actSignal>>
    BY <1>2, MovesTo DEF Begin, FInv, ArgsFit, vars, registry, signals
  <2>2. ~overlap' => ~overlap /\ Alone(t)
    BY <1>2, Zenon DEF Begin, Alone
  <2>3. Explained(th[t]) => Explained(th[t])'
    BY <1>2, <2>1, NothingTold
  <2> QED BY <2>1, <2>2, <2>3, SoloStep
<1>3. ASSUME NEW t \in BusThreads, Call(t)
      PROVE  Solo'
  <2>1. t \in Threads
    BY DEF Threads
  <2>2. CASE Started(t)
    BY <1>2, <2>1, <2>2 DEF Started
  <2>3. CASE \E p \in ProfileIds, s \in Settings : ConnectionUpdate(t, p, s)
    <3>1. PICK p \in ProfileIds, s \in Settings : ConnectionUpdate(t, p, s)
      BY <2>3
    <3>2. /\ th' = th /\ th[t].pc = "idle" /\ th[t].evs = <<>> /\ Moves(t)
          /\ UNCHANGED <<active, events, view, act_objs, announced, root_state, actSignal>>
      BY <2>1, <3>1 DEF ConnectionUpdate, UpdateProfile, registry, signals, FInv,
                        ArgsFit, Moves
    <3>3. ~overlap' => ~overlap /\ Alone(t)
      BY <3>1, Zenon DEF ConnectionUpdate, Alone
    <3>4. Explained(th[t]) => Explained(th[t])'
      BY <2>1, <3>2, NothingTold
    <3> QED BY <2>1, <3>2, <3>3, <3>4, SoloStep
  <2> QED BY <1>3, <2>2, <2>3, CallCases
<1>4. ASSUME NEW t \in OwnerThreads, NEW id \in ActiveIds, OwnerTeardown(t, id)
      PROVE  Solo'
  <2>1. t \in Threads
    BY DEF Threads
  <2> QED BY <1>2, <1>4, <2>1, OwnerStarts
<1>5. ASSUME NEW t \in Threads, Region(t)
      PROVE  Solo'
  BY <1>5, RegionSolo
<1>6. ASSUME NEW i \in Indices, NEW to \in LinkStates, LinkChange(i, to)
      PROVE  Solo'
  BY <1>1, <1>6 DEF LinkChange
<1>7. CASE UNCHANGED fvars
  BY <1>1, <1>7 DEF fvars
<1> QED BY <1>3, <1>4, <1>5, <1>6, <1>7 DEF FacadeNext

(* At the start there is nothing to tell.                                  *)
LEMMA InitSolo == FacadeInit => Solo
<1> SUFFICES ASSUME FacadeInit PROVE Solo
  OBVIOUS
<1>1. \A t \in Threads : th[t].pc = "idle"
  BY IdleType DEF FacadeInit
<1>2. ObjectsExplained(Idle)
  BY IdleType DEF FacadeInit, ObjectsExplained
<1>3. RootExplained(Idle)
  BY IdleType DEF FacadeInit, RootExplained, CurrentNmState
<1>4. ASSUME NEW a \in ActiveIds
      PROVE  SignalLeadsTo(Idle.evs, a)
  <2>1. /\ "Disconnected" \in ConnectionStates
        /\ ActiveNmState("Disconnected") = "deactivated"
    BY DEF ConnectionStates, ActiveNmState
  <2>2. Replays(<<>>, a, "Disconnected", view[a]) /\ actSignal[a] = "deactivated"
    BY <1>4 DEF FacadeInit, Replays, Changes
  <2> QED BY <2>1, <2>2, IdleType DEF SignalLeadsTo
<1> QED BY <1>1, <1>2, <1>3, <1>4 DEF Solo, Explained, SignalsExplained

(* As long as operations have not overlapped, a client that follows the    *)
(* signals agrees with one that reads the properties, whenever nothing is  *)
(* under way and the queue is empty: on the daemon's state, on the state   *)
(* of every connection and on which of them have an object on the bus.     *)
THEOREM QuietBusIsTruthful == FacadeSpec => []QuietBusAgrees
<1>1. FInv /\ Solo => QuietBusAgrees
  <2> SUFFICES ASSUME FInv, Solo, ~overlap, AllIdle, events = <<>>
               PROVE  /\ root_state = CurrentNmState
                      /\ \A a \in act_objs : Tracked(a)
                      /\ \A a \in ActiveIds : a \in act_objs <=> announced[a] = "added"
                      /\ \A a \in ActiveIds :
                            /\ Tracked(a) => actSignal[a] = ActiveNmState(EntryOf(a).state)
                            /\ ~Tracked(a) => actSignal[a] = "deactivated"
    <3>1. FInv => \A k \in DOMAIN active : active[k].id \in ActiveIds
      <4>1. FInv => \A k \in DOMAIN active : active[k] \in ActiveConnection
        BY DEF FInv, IInv, TypeOK
      <4> QED BY <4>1 DEF ActiveConnection
    <3>2. FInv => act_objs \subseteq ActiveIds
      BY DEF FInv, FacadeTypeOK
    <3> QED BY <3>1, <3>2 DEF QuietBusAgrees, RootProperties, ActiveProperties, Tracked
  <2>1. Explained(Idle)
    BY DEF Solo
  <2>2. root_state = CurrentNmState
    BY <2>1, IdleType DEF Explained, RootExplained
  <2>3. /\ \A a \in act_objs : Tracked(a)
        /\ \A a \in ActiveIds : a \in act_objs <=> announced[a] = "added"
    BY <2>1, IdleType DEF Explained, ObjectsExplained, Dead
  <2>4. ASSUME NEW a \in ActiveIds
        PROVE  actSignal[a] = ActiveNmState(StateOf(a))
    <3>1. PICK s \in ConnectionStates :
              actSignal[a] = ActiveNmState(s) /\ Replays(<<>>, a, s, view[a])
      BY <2>1, IdleType DEF Explained, SignalsExplained, SignalLeadsTo
    <3>2. s = view[a]
      BY <3>1 DEF Replays, Changes
    <3>3. Replays(<<>>, a, view[a], StateOf(a))
      BY DEF FInv, Chronicled, Chronicle
    <3>4. StateOf(a) = view[a]
      BY <3>3 DEF Replays, Changes
    <3> QED BY <3>1, <3>2, <3>4
  <2>5. ASSUME NEW a \in ActiveIds, Tracked(a)
        PROVE  EntryOf(a).state = StateOf(a)
    BY <2>5 DEF EntryOf, StateOf, Tracked
  <2>6. ASSUME NEW a \in ActiveIds, ~Tracked(a)
        PROVE  ActiveNmState(StateOf(a)) = "deactivated"
    <3>1. StateOf(a) = "Disconnected"
      BY <2>6 DEF StateOf, Tracked
    <3> QED BY <3>1 DEF ActiveNmState
  <2> QED BY <2>2, <2>3, <2>4, <2>5, <2>6
<1>2. FacadeSpec => []Solo
  BY InitSolo, NextSolo, FacadeInvariance, PTL DEF FacadeSpec
<1> QED BY <1>1, <1>2, FacadeInvariance, PTL
=============================================================================
