------------------------- MODULE ActivationManager -------------------------
(***************************************************************************)
(* The activation manager (connection/activation.rs) as the Daemon owns it *)
(* (daemon.rs): the profile store, the list of tracked active connections, *)
(* the handle counter and the queue of connection events.                  *)
(*                                                                         *)
(* Every operation takes &mut self behind the daemon mutex, so each one is *)
(* a single step here. The ActivationEngine is a trait object: the model   *)
(* lets it report success or failure freely and keeps, in engineUp, which  *)
(* profiles it holds up. A call that the code refuses before it touches    *)
(* any state (unknown id, device mismatch, already active) changes nothing *)
(* and is a stuttering step.                                               *)
(***************************************************************************)
EXTENDS ConnectionState, ConnectionProfile, Sequences, SequencesExt

CONSTANT MaxActivations   \* bound on activation attempts

ASSUME BoundAssumption == MaxActivations \in Nat

VARIABLES
    profiles,   \* the profile store: contents by id, None if not stored
    next_id,    \* the next ActiveConnectionId
    active,     \* Vec<ActiveConnection>
    events,     \* Vec<ConnectionEvent> not drained yet
    engineUp,   \* external: the profiles the engine has reported up
    view,       \* what a consumer of the drained events believes, by handle
    given       \* history: how many activations have been given each handle

vars == <<profiles, next_id, active, events, engineUp, view, given>>

ActiveIds == 1..MaxActivations

ActiveConnection ==
    [id : ActiveIds, profile : ProfileIds, device : Devices,
     state : ConnectionStates]

ConnectionEvent ==
    [kind : {"StateChanged"}, active_id : ActiveIds, profile_id : ProfileIds,
     previous : ConnectionStates, current : ConnectionStates]
    \cup [kind : {"Activated", "Deactivated", "Failed"},
          active_id : ActiveIds, profile_id : ProfileIds]

TypeOK ==
    /\ profiles \in [ProfileIds -> Settings \cup {None}]
    /\ next_id \in 1..(MaxActivations + 1)
    /\ active \in Seq(ActiveConnection)
    /\ events \in Seq(ConnectionEvent)
    /\ engineUp \subseteq ProfileIds
    /\ view \in [ActiveIds -> ConnectionStates]
    /\ given \in [ActiveIds -> Nat]

Init ==
    /\ profiles = [p \in ProfileIds |-> None]
    /\ next_id = 1
    /\ active = <<>>
    /\ events = <<>>
    /\ engineUp = {}
    /\ view = [a \in ActiveIds |-> "Disconnected"]
    /\ given = [a \in ActiveIds |-> 0]

-----------------------------------------------------------------------------
(* The profile store, reached through Daemon. Invalid contents are refused *)
(* by validate before anything changes, so only valid ones are enumerated. *)

CreateProfile(p, s) ==
    /\ profiles[p] = None
    /\ profiles' = [profiles EXCEPT ![p] = s]
    /\ UNCHANGED <<next_id, active, events, engineUp, view, given>>

UpdateProfile(p, s) ==
    /\ profiles[p] # None
    /\ profiles' = [profiles EXCEPT ![p] = s]
    /\ UNCHANGED <<next_id, active, events, engineUp, view, given>>

DeleteProfile(p) ==
    /\ profiles[p] # None
    /\ profiles' = [profiles EXCEPT ![p] = None]
    /\ UNCHANGED <<next_id, active, events, engineUp, view, given>>

-----------------------------------------------------------------------------
(* Transitions. A walk is the ActiveConnection being moved, the events the *)
(* moves have pushed, and whether a move was refused (the ? early return). *)

(* Bug: a profile that has failed does not count as tracked.               *)
MutIsActive(p) ==
    \E i \in DOMAIN active : active[i].profile = p /\ active[i].state = "Activated"

IsActive(p) == \E i \in DOMAIN active : active[i].profile = p

StartWalk(entry, evs) == [entry |-> entry, events |-> evs, refused |-> FALSE]

(* Bug: the event names the state that is being entered as the previous one. *)
MutTransition(walk, next) ==
    IF ~walk.refused /\ CanTransitionTo(walk.entry.state, next)
    THEN [walk EXCEPT
            !.entry.state = next,
            !.events = Append(@, StateChanged(walk.entry.id, walk.entry.profile,
                                              next, next))]
    ELSE [walk EXCEPT !.refused = TRUE]

Transition(walk, next) ==
    IF ~walk.refused /\ CanTransitionTo(walk.entry.state, next)
    THEN [walk EXCEPT
            !.entry.state = next,
            !.events = Append(@, StateChanged(walk.entry.id, walk.entry.profile,
                                              walk.entry.state, next))]
    ELSE [walk EXCEPT !.refused = TRUE]

(* Bug: the entry walks on to Activated whatever the engine answered.      *)
MutActivateWalk(p, d, ok) ==
    LET entry == [id |-> next_id, profile |-> p, device |-> d,
                  state |-> "Preparing"]
        start == StartWalk(entry, Append(events,
                     StateChanged(next_id, p, "Disconnected", "Preparing")))
    IN  Transition(Transition(Transition(start, "Configuring"),
                              "Activating"), "Activated")

(* activate_matching with the engine's answer `ok`. Success walks through  *)
(* the intermediate states; failure is tracked as well as success.         *)
ActivateWalk(p, d, ok) ==
    LET entry == [id |-> next_id, profile |-> p, device |-> d,
                  state |-> "Preparing"]
        start == StartWalk(entry, Append(events,
                     StateChanged(next_id, p, "Disconnected", "Preparing")))
    IN  IF ok
        THEN Transition(Transition(Transition(start, "Configuring"),
                                   "Activating"), "Activated")
        ELSE Transition(start, "Failed")

(* Bug: handles are numbered by the length of the list.                    *)
MutActivateMatching(p, d, ok) ==
    LET walk == ActivateWalk(p, d, ok)
    IN  /\ next_id <= MaxActivations
        /\ next_id' = Len(active) + 2
        /\ given' = [given EXCEPT ![next_id] = @ + 1]
        /\ engineUp' = IF ok THEN engineUp \cup {p} ELSE engineUp
        /\ events' = Append(walk.events,
                            Outcome(IF ok THEN "Activated" ELSE "Failed",
                                    next_id, p))
        /\ active' = Append(active, walk.entry)
        /\ UNCHANGED <<profiles, view>>

(* Bug: the counter moves on by two, before and after the call.            *)
MutActivateMatchingTwice(p, d, ok) ==
    LET walk == ActivateWalk(p, d, ok)
    IN  /\ next_id <= MaxActivations
        /\ next_id' = next_id + 2
        /\ given' = [given EXCEPT ![next_id] = @ + 1]
        /\ engineUp' = IF ok THEN engineUp \cup {p} ELSE engineUp
        /\ events' = walk.events
        /\ active' = Append(active, walk.entry)
        /\ UNCHANGED <<profiles, view>>

ActivateMatching(p, d, ok) ==
    LET walk == ActivateWalk(p, d, ok)
    IN  /\ next_id <= MaxActivations
        /\ next_id' = next_id + 1
        /\ given' = [given EXCEPT ![next_id] = @ + 1]
        /\ engineUp' = IF ok THEN engineUp \cup {p} ELSE engineUp
        /\ IF walk.refused
           THEN /\ events' = walk.events
                /\ UNCHANGED active
           ELSE /\ events' = Append(walk.events,
                                    Outcome(IF ok THEN "Activated" ELSE "Failed",
                                            next_id, p))
                /\ active' = Append(active, walk.entry)
        /\ UNCHANGED <<profiles, view>>

(* ActivationManager::activate: the first profile in autoconnect order     *)
(* that is stored, matches the device and has no tracked entry.            *)
Candidates(d) ==
    { p \in ProfileIds : /\ Eligible(profiles, p)
                         /\ Matches(profiles[p], d)
                         /\ ~IsActive(p) }

Activate(d, ok) ==
    \E p \in Candidates(d) :
        /\ \A q \in Candidates(d) \ {p} : Before(profiles, p, q)
        /\ ActivateMatching(p, d, ok)

(* ActivationManager::activate_profile.                                    *)
ActivateProfile(p, d, ok) ==
    /\ profiles[p] # None
    /\ Matches(profiles[p], d)
    /\ ~IsActive(p)
    /\ ActivateMatching(p, d, ok)

(* Bug: the guard that only an Activated connection may be taken down is   *)
(* dropped, and the entry is removed whatever the engine answers.          *)
MutDeactivate(id, ok, held) ==
    \E i \in DOMAIN active :
        /\ active[i].id = id
        /\ active' = RemoveAt(active, i)
        /\ events' = Append(events, Outcome("Deactivated", id, active[i].profile))
        /\ engineUp' = IF ok THEN engineUp \ {active[i].profile} ELSE engineUp
        /\ UNCHANGED <<profiles, next_id, view, given>>

(* ActivationManager::deactivate with the engine's answer `ok`. `held` is  *)
(* whether an engine that reports failure still holds the profile up.      *)
Deactivate(id, ok, held) ==
    \E i \in DOMAIN active :
        LET p    == active[i].profile
            down == Transition(StartWalk(active[i], events), "Deactivating")
            walk == Transition(down, IF ok THEN "Disconnected" ELSE "Failed")
            what == IF ok THEN "Deactivated" ELSE "Failed"
        IN  /\ active[i].id = id
            /\ active[i].state = "Activated"
            /\ ~down.refused
            /\ engineUp' = IF ~ok /\ held THEN engineUp ELSE engineUp \ {p}
            /\ events' = IF walk.refused
                         THEN walk.events
                         ELSE Append(walk.events, Outcome(what, id, p))
            /\ active' = IF ok /\ ~walk.refused
                         THEN RemoveAt(active, i)
                         ELSE [active EXCEPT ![i] = walk.entry]
            /\ UNCHANGED <<profiles, next_id, view, given>>

-----------------------------------------------------------------------------
(* drain_events, and a consumer that applies what it took in order.        *)

Changes(evs, a) ==
    { k \in DOMAIN evs : evs[k].kind = "StateChanged" /\ evs[k].active_id = a }

(* Applying evs in order takes handle a from state `before` to `after`.    *)
Replays(evs, a, before, after) ==
    /\ Changes(evs, a) = {} => after = before
    /\ \A k \in Changes(evs, a) :
           (\A m \in Changes(evs, a) : m <= k) => after = evs[k].current

DrainEvents ==
    /\ events # <<>>
    /\ view' = [a \in ActiveIds |->
                  CHOOSE s \in ConnectionStates : Replays(events, a, view[a], s)]
    /\ events' = <<>>
    /\ UNCHANGED <<profiles, next_id, active, engineUp, given>>

Next ==
    \/ \E p \in ProfileIds, s \in Settings : CreateProfile(p, s)
    \/ \E p \in ProfileIds, s \in Settings : UpdateProfile(p, s)
    \/ \E p \in ProfileIds : DeleteProfile(p)
    \/ \E d \in Devices, ok \in BOOLEAN : Activate(d, ok)
    \/ \E p \in ProfileIds, d \in Devices, ok \in BOOLEAN :
           ActivateProfile(p, d, ok)
    \/ \E id \in ActiveIds, ok, held \in BOOLEAN : Deactivate(id, ok, held)
    \/ DrainEvents

Spec == Init /\ [][Next]_vars

-----------------------------------------------------------------------------
(* Properties.                                                             *)

(* Handles and profiles identify entries: the list is in handle order, a   *)
(* handle is below the counter, and no profile is tracked twice, whichever *)
(* of the two activation calls added it and however the store changed      *)
(* (is_active is asked on the list, not on the store).                     *)
EntriesUnique ==
    /\ \A i, j \in DOMAIN active : i < j => active[i].id < active[j].id
    /\ \A i \in DOMAIN active : active[i].id < next_id
    /\ \A i, j \in DOMAIN active :
           active[i].profile = active[j].profile => i = j

(* Between calls an entry is settled: Activated or Failed, never halfway   *)
(* along a walk.                                                           *)
EntriesSettled ==
    \A i \in DOMAIN active : active[i].state \in {"Activated", "Failed"}

StateOf(a) ==
    IF \E i \in DOMAIN active : active[i].id = a
    THEN active[CHOOSE i \in DOMAIN active : active[i].id = a].state
    ELSE "Disconnected"

(* A consumer that drains the queue now knows the exact state of every     *)
(* handle ever given out, the removed ones included: no operation changes  *)
(* the list without pushing the matching events.                           *)
EventsReplayToState ==
    \A a \in ActiveIds : Replays(events, a, view[a], StateOf(a))

(* The queued changes of one handle form an unbroken chain of legal jumps  *)
(* that starts where the consumer's view stands, although the events of    *)
(* several handles are interleaved in one queue.                           *)
EventChainLegal ==
    \A a \in ActiveIds : \A k \in Changes(events, a) :
        /\ CanTransitionTo(events[k].previous, events[k].current)
        /\ (\A m \in Changes(events, a) : m >= k)
              => events[k].previous = view[a]
        /\ \A m \in Changes(events, a) :
              (m < k /\ \A n \in Changes(events, a) : n <= m \/ n >= k)
                 => events[k].previous = events[m].current

(* The manager never fabricates success: an entry is Activated only while  *)
(* the engine holds its profile up; and what the engine holds up is always *)
(* tracked, so it is never out of reach of the list.                       *)
EngineAgrees ==
    /\ \A i \in DOMAIN active :
           active[i].state = "Activated" => active[i].profile \in engineUp
    /\ \A p \in engineUp : IsActive(p)

(* A handle denotes one activation for ever: the counter never gives a     *)
(* handle out twice, however entries come and go, no entry and no queued   *)
(* event carries a handle that was not given out, and every event of a     *)
(* handle names the profile its entry has, those still queued after the    *)
(* entry has gone included.                                                *)
HandlesNeverReused ==
    /\ \A a \in ActiveIds : given[a] <= 1
    /\ \A i \in DOMAIN active : given[active[i].id] = 1
    /\ \A k \in DOMAIN events : given[events[k].active_id] = 1
    /\ \A i \in DOMAIN active, k \in DOMAIN events :
           events[k].active_id = active[i].id
               => events[k].profile_id = active[i].profile
    /\ \A k, m \in DOMAIN events :
           events[k].active_id = events[m].active_id
               => events[k].profile_id = events[m].profile_id

(* An entry leaves the list only when it was Activated and the engine has  *)
(* taken its profile down; a Failed one is kept, unchanged.                *)
OnlyTornDownEntriesLeave ==
    [][ \A i \in DOMAIN active :
            (\A j \in DOMAIN active' : active'[j].id # active[i].id)
                => /\ active[i].state = "Activated"
                   /\ active[i].profile \in engineUp \ engineUp' ]_vars

Status(p) ==
    IF ~IsActive(p) THEN "Down"
    ELSE IF \E i \in DOMAIN active :
                active[i].profile = p /\ active[i].state = "Activated"
         THEN "Up" ELSE "Failed"

Lifecycle == INSTANCE ProfileLifecycle WITH
                 status <- [p \in ProfileIds |-> Status(p)]

(* The manager implements the per-profile lifecycle: in particular a       *)
(* failed profile never comes up again while the daemon lives.             *)
ImplementsLifecycle == Lifecycle!Spec

=============================================================================
