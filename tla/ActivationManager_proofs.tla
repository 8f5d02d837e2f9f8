---------------------- MODULE ActivationManager_proofs ----------------------
(***************************************************************************)
(* Proofs about the activation manager, for every set of profiles, devices *)
(* and contents and for every bound on the number of activations.          *)
(***************************************************************************)
EXTENDS ActivationManager, SequenceTheorems, TLAPS

(* The entry that activate_matching appends.                               *)
NewEntry(p, d, ok) ==
    [id |-> next_id, profile |-> p, device |-> d,
     state |-> IF ok THEN "Activated" ELSE "Failed"]

(* The queue after it.                                                     *)
AttemptEvents(p, ok) ==
    LET start == Append(events,
                     StateChanged(next_id, p, "Disconnected", "Preparing"))
    IN  IF ok
        THEN Append(Append(Append(Append(start,
                 StateChanged(next_id, p, "Preparing", "Configuring")),
                 StateChanged(next_id, p, "Configuring", "Activating")),
                 StateChanged(next_id, p, "Activating", "Activated")),
                 Outcome("Activated", next_id, p))
        ELSE Append(Append(start,
                 StateChanged(next_id, p, "Preparing", "Failed")),
                 Outcome("Failed", next_id, p))

(* The queue after deactivate.                                             *)
TeardownEvents(id, p, ok) ==
    LET start == Append(events,
                     StateChanged(id, p, "Activated", "Deactivating"))
    IN  IF ok
        THEN Append(Append(start,
                 StateChanged(id, p, "Deactivating", "Disconnected")),
                 Outcome("Deactivated", id, p))
        ELSE Append(Append(start,
                 StateChanged(id, p, "Deactivating", "Failed")),
                 Outcome("Failed", id, p))

(* What deactivate does when entry i has handle id.                        *)
TeardownEffect(i, id, ok, held) ==
    /\ active[i].id = id
    /\ active[i].state = "Activated"
    /\ engineUp' = IF ~ok /\ held THEN engineUp
                   ELSE engineUp \ {active[i].profile}
    /\ active' = IF ok THEN RemoveAt(active, i)
                 ELSE [active EXCEPT ![i] =
                          [id |-> id, profile |-> active[i].profile,
                           device |-> active[i].device, state |-> "Failed"]]
    /\ events' = TeardownEvents(id, active[i].profile, ok)
    /\ UNCHANGED <<profiles, next_id, view, given>>

(* A legal move of a walk changes the state of its entry, pushes one event *)
(* and leaves the walk unrefused.                                          *)
LEMMA TransitionTaken ==
    ASSUME NEW id, NEW p, NEW d, NEW from, NEW to, NEW evs,
           CanTransitionTo(from, to)
    PROVE  Transition([entry |-> [id |-> id, profile |-> p, device |-> d,
                                  state |-> from],
                       events |-> evs, refused |-> FALSE], to)
           = [entry |-> [id |-> id, profile |-> p, device |-> d, state |-> to],
              events |-> Append(evs, StateChanged(id, p, from, to)),
              refused |-> FALSE]
BY DEF Transition

(* activate_matching tracks the attempt, with its outcome, as one new      *)
(* entry at the end of the list: no walk is ever refused.                  *)
LEMMA ActivateEffect ==
    ASSUME NEW p, NEW d, NEW ok \in BOOLEAN, ActivateMatching(p, d, ok)
    PROVE  /\ active' = Append(active, NewEntry(p, d, ok))
           /\ events' = AttemptEvents(p, ok)
<1> DEFINE W(s, evs) == [entry |-> [id |-> next_id, profile |-> p,
                                    device |-> d, state |-> s],
                         events |-> evs, refused |-> FALSE]
           e0 == Append(events, StateChanged(next_id, p, "Disconnected", "Preparing"))
           e1 == Append(e0, StateChanged(next_id, p, "Preparing", "Configuring"))
           e2 == Append(e1, StateChanged(next_id, p, "Configuring", "Activating"))
           e3 == Append(e2, StateChanged(next_id, p, "Activating", "Activated"))
           f1 == Append(e0, StateChanged(next_id, p, "Preparing", "Failed"))
<1>1. CASE ok
  <2>1. Transition(W("Preparing", e0), "Configuring") = W("Configuring", e1)
    BY TransitionTaken DEF CanTransitionTo, LegalTransitions
  <2>2. Transition(W("Configuring", e1), "Activating") = W("Activating", e2)
    BY TransitionTaken DEF CanTransitionTo, LegalTransitions
  <2>3. Transition(W("Activating", e2), "Activated") = W("Activated", e3)
    BY TransitionTaken DEF CanTransitionTo, LegalTransitions
  <2>4. ActivateWalk(p, d, ok) = W("Activated", e3)
    BY <1>1, <2>1, <2>2, <2>3 DEF ActivateWalk, StartWalk
  <2>5. NewEntry(p, d, ok) = W("Activated", e3).entry
    BY <1>1 DEF NewEntry
  <2>6. ~ActivateWalk(p, d, ok).refused
        /\ ActivateWalk(p, d, ok).entry = NewEntry(p, d, ok)
    BY <2>4, <2>5
  <2>7. events' = AttemptEvents(p, ok)
    <3>1. ActivateWalk(p, d, ok).events = e3
      BY <2>4
    <3>2. events' = Append(e3, Outcome("Activated", next_id, p))
      BY <1>1, <2>6, <3>1 DEF ActivateMatching
    <3> QED BY <1>1, <3>2 DEF AttemptEvents
  <2> QED BY <2>6, <2>7 DEF ActivateMatching
<1>2. CASE ~ok
  <2>1. Transition(W("Preparing", e0), "Failed") = W("Failed", f1)
    BY TransitionTaken DEF CanTransitionTo, LegalTransitions
  <2>2. ActivateWalk(p, d, ok) = W("Failed", f1)
    BY <1>2, <2>1 DEF ActivateWalk, StartWalk
  <2>3. ~ActivateWalk(p, d, ok).refused
        /\ ActivateWalk(p, d, ok).entry = NewEntry(p, d, ok)
    BY <1>2, <2>2 DEF NewEntry
  <2>4. events' = AttemptEvents(p, ok)
    <3>1. ActivateWalk(p, d, ok).events = f1
      BY <2>2
    <3>2. events' = Append(f1, Outcome("Failed", next_id, p))
      BY <1>2, <2>3, <3>1 DEF ActivateMatching
    <3> QED BY <1>2, <3>2 DEF AttemptEvents
  <2> QED BY <2>3, <2>4 DEF ActivateMatching
<1> QED BY <1>1, <1>2

(* deactivate on an Activated entry either removes it or marks it Failed.  *)
LEMMA DeactivateEffect ==
    ASSUME NEW id, NEW ok \in BOOLEAN, NEW held, Deactivate(id, ok, held),
           TypeOK
    PROVE  \E i \in DOMAIN active : TeardownEffect(i, id, ok, held)
<1>1. PICK i \in DOMAIN active :
         /\ active[i].id = id
         /\ active[i].state = "Activated"
         /\ engineUp' = IF ~ok /\ held THEN engineUp
                        ELSE engineUp \ {active[i].profile}
         /\ LET down == Transition(StartWalk(active[i], events), "Deactivating")
                walk == Transition(down, IF ok THEN "Disconnected" ELSE "Failed")
                what == IF ok THEN "Deactivated" ELSE "Failed"
            IN  /\ active' = IF ok /\ ~walk.refused THEN RemoveAt(active, i)
                             ELSE [active EXCEPT ![i] = walk.entry]
                /\ events' = IF walk.refused THEN walk.events
                             ELSE Append(walk.events,
                                         Outcome(what, id, active[i].profile))
         /\ UNCHANGED <<profiles, next_id, view, given>>
  BY DEF Deactivate
<1> DEFINE p == active[i].profile
           d == active[i].device
           E(s) == [id |-> id, profile |-> p, device |-> d, state |-> s]
           W(s, evs) == [entry |-> E(s), events |-> evs, refused |-> FALSE]
           e1 == Append(events, StateChanged(id, p, "Activated", "Deactivating"))
           last == IF ok THEN "Disconnected" ELSE "Failed"
           e2 == Append(e1, StateChanged(id, p, "Deactivating", last))
<1>2. active[i] = E("Activated")
  <2>1. active[i] \in ActiveConnection
    BY DEF TypeOK
  <2> QED BY <1>1, <2>1 DEF ActiveConnection
<1>3. Transition(StartWalk(active[i], events), "Deactivating")
        = W("Deactivating", e1)
  <2>1. StartWalk(active[i], events) = W("Activated", events)
    BY <1>2 DEF StartWalk
  <2> QED BY <2>1, TransitionTaken DEF CanTransitionTo, LegalTransitions
<1>4. Transition(W("Deactivating", e1), last) = W(last, e2)
  <2>1. CanTransitionTo("Deactivating", last)
    BY DEF CanTransitionTo, LegalTransitions
  <2> QED BY <2>1, TransitionTaken
<1>5. /\ ~W(last, e2).refused
      /\ W(last, e2).entry = E(last)
      /\ W(last, e2).events = e2
  OBVIOUS
<1>6. active' = IF ok THEN RemoveAt(active, i) ELSE [active EXCEPT ![i] = E(last)]
  BY <1>1, <1>3, <1>4, <1>5
<1>7. events' = TeardownEvents(id, p, ok)
  <2>1. events' = Append(e2, Outcome(IF ok THEN "Deactivated" ELSE "Failed",
                                     id, p))
    BY <1>1, <1>3, <1>4, <1>5
  <2>2. CASE ok  BY <2>1, <2>2 DEF TeardownEvents
  <2>3. CASE ~ok BY <2>1, <2>3 DEF TeardownEvents
  <2> QED BY <2>2, <2>3
<1> QED
  <2> WITNESS i \in DOMAIN active
  <2> QED BY <1>1, <1>6, <1>7 DEF TeardownEffect

(* Taking one element out of a sequence keeps the order of the others.     *)
LEMMA RemoveAtElements ==
    ASSUME NEW S, NEW s \in Seq(S), NEW i \in DOMAIN s
    PROVE  /\ RemoveAt(s, i) \in Seq(S)
           /\ Len(RemoveAt(s, i)) = Len(s) - 1
           /\ DOMAIN RemoveAt(s, i) = 1..(Len(s) - 1)
           /\ \A j \in 1..(Len(s) - 1) :
                 RemoveAt(s, i)[j] = IF j < i THEN s[j] ELSE s[j + 1]
<1> DEFINE l == SubSeq(s, 1, i - 1)
           r == SubSeq(s, i + 1, Len(s))
<1>1. /\ i \in 1..Len(s)
      /\ Len(s) \in Nat
      /\ \A j \in 1..Len(s) : s[j] \in S
  OBVIOUS
<1>2. /\ l \in Seq(S)
      /\ Len(l) = i - 1
      /\ \A j \in 1..(i - 1) : l[j] = s[j]
  <2>1. \A j \in 1..(i - 1) : s[j] \in S
    BY <1>1
  <2> QED BY <1>1, <2>1, SubSeqProperties
<1>3. /\ r \in Seq(S)
      /\ Len(r) = Len(s) - i
      /\ \A j \in 1..(Len(s) - i) : r[j] = s[i + j]
  <2>1. \A j \in (i + 1)..Len(s) : s[j] \in S
    BY <1>1
  <2> HIDE DEF r
  <2>2. /\ SubSeq(s, i + 1, Len(s)) \in Seq(S)
        /\ Len(SubSeq(s, i + 1, Len(s)))
             = IF i + 1 <= Len(s) THEN Len(s) - (i + 1) + 1 ELSE 0
        /\ \A j \in 1..(Len(s) - (i + 1) + 1) :
              SubSeq(s, i + 1, Len(s))[j] = s[(i + 1) + j - 1]
    BY <1>1, <2>1, SubSeqProperties
  <2> QED BY <1>1, <2>2 DEF r
<1>4. RemoveAt(s, i) = l \o r
  BY DEF RemoveAt
<1> HIDE DEF l, r
<1>5. /\ l \o r \in Seq(S)
      /\ Len(l \o r) = Len(l) + Len(r)
      /\ \A j \in 1..(Len(l) + Len(r)) :
            (l \o r)[j] = IF j <= Len(l) THEN l[j] ELSE r[j - Len(l)]
  BY <1>2, <1>3, ConcatProperties
<1>6. \A j \in 1..(Len(s) - 1) :
          (l \o r)[j] = IF j < i THEN s[j] ELSE s[j + 1]
  <2> SUFFICES ASSUME NEW j \in 1..(Len(s) - 1)
               PROVE  (l \o r)[j] = IF j < i THEN s[j] ELSE s[j + 1]
    OBVIOUS
  <2>1. j \in 1..(Len(l) + Len(r))
    BY <1>1, <1>2, <1>3
  <2>2. (l \o r)[j] = IF j <= i - 1 THEN l[j] ELSE r[j - (i - 1)]
    BY <1>2, <1>5, <2>1
  <2>3. CASE j < i
    BY <1>1, <1>2, <2>2, <2>3
  <2>4. CASE ~(j < i)
    <3>1. /\ j - (i - 1) \in 1..(Len(s) - i)
          /\ i + (j - (i - 1)) = j + 1
          /\ ~(j <= i - 1)
      BY <1>1, <2>4
    <3>2. (l \o r)[j] = r[j - (i - 1)]
      BY <2>2, <3>1
    <3>3. r[j - (i - 1)] = s[i + (j - (i - 1))]
      BY <1>3, <3>1
    <3> QED BY <2>4, <3>1, <3>2, <3>3
  <2> QED BY <2>3, <2>4
<1>7. Len(l \o r) = Len(s) - 1
  BY <1>1, <1>2, <1>3, <1>5
<1>8. DOMAIN (l \o r) = 1..(Len(s) - 1)
  BY <1>5, <1>7
<1> QED BY <1>4, <1>5, <1>6, <1>7, <1>8

(* What is left after taking out position i is what the others held.       *)
LEMMA RemoveAtMembers ==
    ASSUME NEW S, NEW s \in Seq(S), NEW i \in DOMAIN s
    PROVE  /\ \A j \in DOMAIN RemoveAt(s, i) :
                 \E k \in DOMAIN s : k # i /\ RemoveAt(s, i)[j] = s[k]
           /\ \A k \in DOMAIN s :
                 k # i => \E j \in DOMAIN RemoveAt(s, i) : RemoveAt(s, i)[j] = s[k]
<1> DEFINE n == Len(s)
           t == RemoveAt(s, i)
<1>1. n \in Nat /\ DOMAIN s = 1..n /\ i \in 1..n
  OBVIOUS
<1>2. /\ DOMAIN t = 1..(n - 1)
      /\ \A j \in 1..(n - 1) : t[j] = IF j < i THEN s[j] ELSE s[j + 1]
  BY RemoveAtElements
<1> HIDE DEF t
<1>3. \A j \in 1..(n - 1) : \E k \in 1..n : k # i /\ t[j] = s[k]
  BY <1>1, <1>2
<1>4. ASSUME NEW k \in 1..n, k # i
      PROVE  \E j \in 1..(n - 1) : t[j] = s[k]
  <2>1. CASE k < i
    BY <1>1, <1>2, <2>1
  <2>2. CASE k > i
    <3>1. k - 1 \in 1..(n - 1) /\ ~(k - 1 < i) /\ (k - 1) + 1 = k
      BY <1>1, <2>2
    <3>2. t[k - 1] = s[k]
      BY <1>2, <3>1
    <3> QED BY <3>1, <3>2
  <2> QED BY <1>1, <1>4, <2>1, <2>2
<1> QED BY <1>1, <1>2, <1>3, <1>4 DEF t

(* The queue stays a sequence of events when an attempt is recorded...     *)
LEMMA AttemptEventsType ==
    ASSUME NEW p \in ProfileIds, NEW ok \in BOOLEAN, TypeOK,
           next_id <= MaxActivations
    PROVE  AttemptEvents(p, ok) \in Seq(ConnectionEvent)
<1>1. next_id \in ActiveIds
  BY BoundAssumption DEF TypeOK, ActiveIds
<1>2. \A a, b \in ConnectionStates :
          StateChanged(next_id, p, a, b) \in ConnectionEvent
  BY <1>1 DEF StateChanged, ConnectionEvent
<1>3. \A w \in {"Activated", "Deactivated", "Failed"} :
          Outcome(w, next_id, p) \in ConnectionEvent
  BY <1>1 DEF Outcome, ConnectionEvent
<1>4. {"Disconnected", "Preparing", "Configuring", "Activating", "Activated",
       "Failed"} \subseteq ConnectionStates
  BY DEF ConnectionStates
<1>5. events \in Seq(ConnectionEvent)
  BY DEF TypeOK
<1> QED BY <1>2, <1>3, <1>4, <1>5 DEF AttemptEvents

(* ... and when a teardown is.                                             *)
LEMMA TeardownEventsType ==
    ASSUME NEW id \in ActiveIds, NEW p \in ProfileIds, NEW ok \in BOOLEAN,
           TypeOK
    PROVE  TeardownEvents(id, p, ok) \in Seq(ConnectionEvent)
<1>1. \A a, b \in ConnectionStates :
          StateChanged(id, p, a, b) \in ConnectionEvent
  BY DEF StateChanged, ConnectionEvent
<1>2. \A w \in {"Activated", "Deactivated", "Failed"} :
          Outcome(w, id, p) \in ConnectionEvent
  BY DEF Outcome, ConnectionEvent
<1>3. {"Disconnected", "Deactivating", "Activated", "Failed"}
        \subseteq ConnectionStates
  BY DEF ConnectionStates
<1>4. events \in Seq(ConnectionEvent)
  BY DEF TypeOK
<1> QED BY <1>1, <1>2, <1>3, <1>4 DEF TeardownEvents

-----------------------------------------------------------------------------
(* The inductive invariant. Neither EntriesUnique nor EngineAgrees is      *)
(* inductive by itself: taking a profile down removes it from engineUp,    *)
(* which is harmless to the other entries only because no other entry has  *)
(* that profile.                                                           *)
IInv == TypeOK /\ EntriesUnique /\ EntriesSettled /\ EngineAgrees

(* The steps of Next, with both activation calls reduced to what they      *)
(* share: a matching stored profile that has no entry is attempted.        *)
Attempts == \E p \in ProfileIds, d \in Devices, ok \in BOOLEAN :
                ~IsActive(p) /\ ActivateMatching(p, d, ok)

StoreStep == /\ profiles' \in [ProfileIds -> Settings \cup {None}]
             /\ UNCHANGED <<next_id, active, events, engineUp, view, given>>

(* Every step is a store step, an attempt, a deactivation or a drain.      *)
LEMMA NextCases ==
    ASSUME TypeOK, [Next]_vars
    PROVE  \/ StoreStep
           \/ Attempts
           \/ \E id \in ActiveIds, ok, held \in BOOLEAN : Deactivate(id, ok, held)
           \/ DrainEvents
<1>1. CASE UNCHANGED vars
  BY <1>1 DEF vars, StoreStep, TypeOK
<1>2. ASSUME NEW p \in ProfileIds, NEW s \in Settings,
             CreateProfile(p, s) \/ UpdateProfile(p, s)
      PROVE  StoreStep
  BY <1>2 DEF CreateProfile, UpdateProfile, StoreStep, TypeOK
<1>3. ASSUME NEW p \in ProfileIds, DeleteProfile(p)
      PROVE  StoreStep
  BY <1>3 DEF DeleteProfile, StoreStep, TypeOK
<1>4. ASSUME NEW d \in Devices, NEW ok \in BOOLEAN, Activate(d, ok)
      PROVE  Attempts
  BY <1>4 DEF Activate, Candidates, Attempts
<1>5. ASSUME NEW p \in ProfileIds, NEW d \in Devices, NEW ok \in BOOLEAN,
             ActivateProfile(p, d, ok)
      PROVE  Attempts
  BY <1>5 DEF ActivateProfile, Attempts
<1> QED BY <1>1, <1>2, <1>3, <1>4, <1>5 DEF Next

(* What a consumer makes of the drained queue is a state per handle, and   *)
(* the one that replaying the queue leads to.                              *)
LEMMA DrainReplays ==
    ASSUME TypeOK, DrainEvents
    PROVE  /\ view' \in [ActiveIds -> ConnectionStates]
           /\ \A a \in ActiveIds : Replays(events, a, view[a], view'[a])
<1> SUFFICES ASSUME NEW a \in ActiveIds
             PROVE  \E s \in ConnectionStates : Replays(events, a, view[a], s)
  BY DEF DrainEvents
<1> DEFINE LastChange(k) == \A m \in Changes(events, a) : m <= k
<1>1. Changes(events, a) \subseteq DOMAIN events /\ DOMAIN events \subseteq Int
  BY DEF TypeOK, Changes
<1>2. ASSUME NEW k \in Changes(events, a)
      PROVE  events[k].current \in ConnectionStates
  BY <1>1 DEF TypeOK, Changes, ConnectionEvent
<1>3. CASE Changes(events, a) = {}
  BY <1>3 DEF Replays, TypeOK
<1>4. CASE \E k \in Changes(events, a) : LastChange(k)
  <2>1. PICK k \in Changes(events, a) : LastChange(k)
    BY <1>4
  <2>2. \A n \in Changes(events, a) : LastChange(n) => n = k
    BY <1>1, <2>1
  <2> QED BY <1>2, <2>1, <2>2 DEF Replays
<1>5. CASE Changes(events, a) # {} /\ ~ \E k \in Changes(events, a) : LastChange(k)
  BY <1>2, <1>5 DEF Replays
<1> QED BY <1>3, <1>4, <1>5

(* Init establishes the invariant.                                         *)
LEMMA InitIInv == Init => IInv
<1> SUFFICES ASSUME Init PROVE IInv
  OBVIOUS
<1>1. TypeOK
  BY BoundAssumption DEF Init, TypeOK, ConnectionStates, ActiveIds
<1>2. EntriesUnique /\ EntriesSettled /\ EngineAgrees
  BY DEF Init, EntriesUnique, EntriesSettled, EngineAgrees
<1> QED BY <1>1, <1>2 DEF IInv

(* An attempt appends one settled entry for a profile that had none.       *)
LEMMA AttemptIInv ==
    ASSUME IInv, NEW p \in ProfileIds, NEW d \in Devices, NEW ok \in BOOLEAN,
           ~IsActive(p), ActivateMatching(p, d, ok)
    PROVE  IInv'
<1> DEFINE n == Len(active)
           e == NewEntry(p, d, ok)
<1>1. TypeOK /\ EntriesUnique /\ EntriesSettled /\ EngineAgrees
  BY DEF IInv
<1>2. /\ next_id \in 1..MaxActivations
      /\ next_id' = next_id + 1
      /\ engineUp' = IF ok THEN engineUp \cup {p} ELSE engineUp
      /\ profiles' = profiles
      /\ view' = view
      /\ given' = [given EXCEPT ![next_id] = @ + 1]
      /\ given' \in [ActiveIds -> Nat]
  BY <1>1, BoundAssumption DEF ActivateMatching, TypeOK, ActiveIds
<1>3. /\ active \in Seq(ActiveConnection)
      /\ n \in Nat
      /\ DOMAIN active = 1..n
  BY <1>1 DEF TypeOK
<1>4. /\ e \in ActiveConnection
      /\ e.id = next_id
      /\ e.profile = p
      /\ e.state = IF ok THEN "Activated" ELSE "Failed"
  BY <1>2 DEF NewEntry, ActiveConnection, ActiveIds, ConnectionStates
<1> HIDE DEF e
<1>5. /\ active' \in Seq(ActiveConnection)
      /\ DOMAIN active' = 1..(n + 1)
      /\ active'[n + 1] = e
      /\ \A i \in 1..n : active'[i] = active[i]
  <2>1. active' = Append(active, e)
    BY ActivateEffect DEF e
  <2> QED BY <1>3, <1>4, <2>1
<1>6. TypeOK'
  <2>1. events' \in Seq(ConnectionEvent)
    BY <1>1, <1>2, ActivateEffect, AttemptEventsType
  <2> QED BY <1>1, <1>2, <1>5, <2>1, BoundAssumption DEF TypeOK
<1>7. EntriesUnique'
  <2>1. \A i \in 1..n : active[i].profile # p
    BY <1>3 DEF IsActive
  <2>2. \A i \in 1..n : active[i].id < next_id
    BY <1>1, <1>3 DEF EntriesUnique
  <2>3. \A i, j \in 1..(n + 1) : i < j => active'[i].id < active'[j].id
    <3> SUFFICES ASSUME NEW i \in 1..(n + 1), NEW j \in 1..(n + 1), i < j
                 PROVE  active'[i].id < active'[j].id
      OBVIOUS
    <3>1. i \in 1..n
      BY <1>3
    <3>2. CASE j = n + 1
      BY <1>3, <1>4, <1>5, <2>2, <3>1, <3>2
    <3>3. CASE j \in 1..n
      BY <1>1, <1>3, <1>5, <3>1, <3>3 DEF EntriesUnique
    <3> QED BY <1>3, <3>2, <3>3
  <2>4. \A i \in 1..(n + 1) : active'[i].id < next_id'
    <3>1. \A i \in 1..n : active[i].id \in Int
      <4>1. \A i \in 1..n : active[i] \in ActiveConnection
        BY <1>3
      <4> QED BY <4>1, BoundAssumption DEF ActiveConnection, ActiveIds
    <3> QED BY <1>2, <1>3, <1>4, <1>5, <2>2, <3>1
  <2>5. \A i, j \in 1..(n + 1) :
            active'[i].profile = active'[j].profile => i = j
    BY <1>1, <1>3, <1>4, <1>5, <2>1 DEF EntriesUnique
  <2> QED BY <1>5, <2>3, <2>4, <2>5 DEF EntriesUnique
<1>8. EntriesSettled'
  BY <1>1, <1>3, <1>4, <1>5 DEF EntriesSettled
<1>9. EngineAgrees'
  BY <1>1, <1>2, <1>3, <1>4, <1>5 DEF EngineAgrees, IsActive
<1> QED BY <1>6, <1>7, <1>8, <1>9 DEF IInv

(* Teardown removes an Activated entry or marks it Failed.                 *)
LEMMA DeactivateIInv ==
    ASSUME IInv, NEW id \in ActiveIds, NEW ok \in BOOLEAN,
           NEW held \in BOOLEAN, Deactivate(id, ok, held)
    PROVE  IInv'
<1>1. TypeOK /\ EntriesUnique /\ EntriesSettled /\ EngineAgrees
  BY DEF IInv
<1>2. PICK i \in DOMAIN active : TeardownEffect(i, id, ok, held)
  BY <1>1, DeactivateEffect
<1> USE DEF TeardownEffect
<1> DEFINE n == Len(active)
           p == active[i].profile
<1>3. /\ active \in Seq(ActiveConnection)
      /\ n \in Nat
      /\ DOMAIN active = 1..n
      /\ i \in 1..n
      /\ \A j \in 1..n : active[j] \in ActiveConnection
  BY <1>1 DEF TypeOK
<1>4. p \in ProfileIds /\ active[i].device \in Devices
  BY <1>3 DEF ActiveConnection
<1>5. events' \in Seq(ConnectionEvent)
  BY <1>1, <1>2, <1>4, TeardownEventsType
<1>6. CASE ok
  <2>1. active' = RemoveAt(active, i)
    BY <1>2, <1>6
  <2>2. /\ active' \in Seq(ActiveConnection)
        /\ DOMAIN active' = 1..(n - 1)
        /\ \A j \in 1..(n - 1) :
              active'[j] = IF j < i THEN active[j] ELSE active[j + 1]
    BY <1>3, <2>1, RemoveAtElements
  <2>3. engineUp' = engineUp \ {p}
    BY <1>2, <1>6
  <2>4. TypeOK'
    BY <1>1, <1>2, <1>5, <2>2, <2>3 DEF TypeOK
  <2>a. /\ \A j \in DOMAIN active' : \E k \in DOMAIN active :
              k # i /\ active'[j] = active[k]
        /\ \A k \in DOMAIN active : k # i =>
              \E j \in DOMAIN active' : active'[j] = active[k]
    BY <1>3, <2>1, RemoveAtMembers
  <2>5. \A j \in 1..(n - 1) : \E k \in 1..n : k # i /\ active'[j] = active[k]
    BY <1>3, <2>2, <2>a
  <2>6. \A k \in 1..n : k # i => \E j \in 1..(n - 1) : active'[j] = active[k]
    BY <1>3, <2>2, <2>a
  <2>7. EntriesUnique'
    <3> DEFINE at(j) == IF j < i THEN j ELSE j + 1
    <3>a. \A j \in 1..(n - 1) : at(j) \in 1..n /\ active'[j] = active[at(j)]
      BY <1>3, <2>2
    <3>b. \A j, k \in 1..(n - 1) : /\ j < k => at(j) < at(k)
                                   /\ at(j) = at(k) => j = k
      BY <1>3
    <3> HIDE DEF at
    <3>1. \A j, k \in 1..(n - 1) : j < k => active'[j].id < active'[k].id
      BY <1>1, <1>3, <3>a, <3>b DEF EntriesUnique
    <3>2. \A j \in 1..(n - 1) : active'[j].id < next_id'
      BY <1>1, <1>2, <1>3, <2>5 DEF EntriesUnique
    <3>3. \A j, k \in 1..(n - 1) :
              active'[j].profile = active'[k].profile => j = k
      BY <1>1, <1>3, <3>a, <3>b DEF EntriesUnique
    <3> QED BY <2>2, <3>1, <3>2, <3>3 DEF EntriesUnique
  <2>8. EntriesSettled'
    BY <1>1, <1>3, <2>2, <2>5 DEF EntriesSettled
  <2>9. EngineAgrees'
    <3>1. \A k \in 1..n : k # i => active[k].profile # p
      BY <1>1, <1>3 DEF EntriesUnique
    <3>2. \A j \in 1..(n - 1) :
              active'[j].state = "Activated" => active'[j].profile \in engineUp'
      BY <1>1, <1>3, <2>3, <2>5, <3>1 DEF EngineAgrees
    <3>3. \A q \in engineUp' : \E j \in 1..(n - 1) : active'[j].profile = q
      <4> SUFFICES ASSUME NEW q \in engineUp'
                   PROVE  \E j \in 1..(n - 1) : active'[j].profile = q
        OBVIOUS
      <4>1. PICK k \in 1..n : active[k].profile = q
        BY <1>1, <1>3, <2>3 DEF EngineAgrees, IsActive
      <4>2. k # i
        BY <2>3, <4>1
      <4> QED BY <2>6, <4>1, <4>2
    <3> QED BY <2>2, <3>2, <3>3 DEF EngineAgrees, IsActive
  <2> QED BY <2>4, <2>7, <2>8, <2>9 DEF IInv
<1>7. CASE ~ok
  <2> DEFINE f == [id |-> id, profile |-> p, device |-> active[i].device,
                   state |-> "Failed"]
  <2>1. active' = [active EXCEPT ![i] = f]
    BY <1>2, <1>7
  <2>2. /\ f \in ActiveConnection
        /\ f.id = id /\ f.profile = p /\ f.state = "Failed"
    BY <1>4 DEF ActiveConnection, ConnectionStates
  <2> HIDE DEF f
  <2>3. /\ active' \in Seq(ActiveConnection)
        /\ DOMAIN active' = 1..n
        /\ active'[i] = f
        /\ \A j \in 1..n : j # i => active'[j] = active[j]
    BY <1>3, <2>1, <2>2
  <2>4. engineUp' \in {engineUp, engineUp \ {p}}
    BY <1>2
  <2>5. TypeOK'
    BY <1>1, <1>2, <1>5, <2>3, <2>4 DEF TypeOK
  <2>6. \A j \in 1..n : /\ active'[j].id = active[j].id
                        /\ active'[j].profile = active[j].profile
    BY <1>2, <1>3, <2>2, <2>3
  <2>7. EntriesUnique'
    BY <1>1, <1>2, <1>3, <2>3, <2>6 DEF EntriesUnique
  <2>8. EntriesSettled'
    BY <1>1, <1>3, <2>2, <2>3 DEF EntriesSettled
  <2>9. EngineAgrees'
    <3>1. \A k \in 1..n : k # i => active[k].profile # p
      BY <1>1, <1>3 DEF EntriesUnique
    <3> QED BY <1>1, <1>3, <2>2, <2>3, <2>4, <2>6, <3>1
            DEF EngineAgrees, IsActive
  <2> QED BY <2>5, <2>7, <2>8, <2>9 DEF IInv
<1> QED BY <1>6, <1>7

(* Every step keeps the invariant.                                         *)
LEMMA NextIInv == IInv /\ [Next]_vars => IInv'
<1> SUFFICES ASSUME IInv, [Next]_vars PROVE IInv'
  OBVIOUS
<1>1. CASE StoreStep
  BY <1>1 DEF StoreStep, IInv, TypeOK, EntriesUnique, EntriesSettled,
              EngineAgrees, IsActive
<1>2. CASE Attempts
  BY <1>2, AttemptIInv DEF Attempts
<1>3. CASE \E id \in ActiveIds, ok, held \in BOOLEAN : Deactivate(id, ok, held)
  BY <1>3, DeactivateIInv
<1>4. CASE DrainEvents
  <2>1. TypeOK'
    BY <1>4, DrainReplays DEF DrainEvents, IInv, TypeOK
  <2> QED BY <1>4, <2>1 DEF DrainEvents, IInv, EntriesUnique, EntriesSettled,
                            EngineAgrees, IsActive
<1> QED BY <1>1, <1>2, <1>3, <1>4, NextCases DEF IInv

(* The manager's state is well typed, no profile is tracked twice, every   *)
(* tracked entry is settled, and Activated is never fabricated.            *)
THEOREM Invariance == Spec => []IInv
BY InitIInv, NextIInv, PTL DEF Spec

(* The type invariant, for every instance.                                 *)
THEOREM TypeCorrect == Spec => []TypeOK
BY Invariance, PTL DEF IInv

(* No profile is ever tracked twice and handles order the list.            *)
THEOREM NoDuplicateEntries == Spec => []EntriesUnique
BY Invariance, PTL DEF IInv

(* Between calls no entry is halfway along its walk.                       *)
THEOREM AlwaysSettled == Spec => []EntriesSettled
BY Invariance, PTL DEF IInv

(* An Activated entry is backed by the engine, and what the engine holds   *)
(* up is tracked.                                                          *)
THEOREM NoFabricatedSuccess == Spec => []EngineAgrees
BY Invariance, PTL DEF IInv

-----------------------------------------------------------------------------
(* Teardown as the list sees it: entry i, which was Activated, is removed  *)
(* and its profile taken down, or is marked Failed; nothing else moves.    *)
LEMMA TeardownMembers ==
    ASSUME IInv, NEW id \in ActiveIds, NEW ok \in BOOLEAN,
           NEW held \in BOOLEAN, Deactivate(id, ok, held)
    PROVE  \E i \in DOMAIN active :
              /\ active[i].state = "Activated"
              /\ ok => /\ engineUp' = engineUp \ {active[i].profile}
                       /\ \A j \in DOMAIN active' : \E k \in DOMAIN active :
                              k # i /\ active'[j] = active[k]
                       /\ \A k \in DOMAIN active : k # i =>
                              \E j \in DOMAIN active' : active'[j] = active[k]
              /\ ~ok => /\ DOMAIN active' = DOMAIN active
                        /\ active'[i].id = active[i].id
                        /\ active'[i].profile = active[i].profile
                        /\ active'[i].state = "Failed"
                        /\ \A k \in DOMAIN active : k # i => active'[k] = active[k]
<1>1. PICK i \in DOMAIN active : TeardownEffect(i, id, ok, held)
  BY DeactivateEffect DEF IInv
<1> USE DEF TeardownEffect
<1>2. active \in Seq(ActiveConnection)
  BY DEF IInv, TypeOK
<1>3. CASE ok
  <2>1. active' = RemoveAt(active, i) /\ engineUp' = engineUp \ {active[i].profile}
    BY <1>1, <1>3
  <2> QED BY <1>1, <1>2, <1>3, <2>1, RemoveAtMembers
<1>4. CASE ~ok
  <2>1. active' = [active EXCEPT ![i] =
                      [id |-> id, profile |-> active[i].profile,
                       device |-> active[i].device, state |-> "Failed"]]
    BY <1>1, <1>4
  <2> QED BY <1>1, <1>2, <1>4, <2>1
<1> QED BY <1>3, <1>4

(* A handle that a step adds to the list is the next of the counter, which *)
(* only grows.                                                             *)
LEMMA FreshHandles ==
    ASSUME IInv, [Next]_vars
    PROVE  /\ \A i \in DOMAIN active' :
                  (\A j \in DOMAIN active : active[j].id # active'[i].id)
                      => active'[i].id >= next_id /\ active'[i].id < next_id'
           /\ next_id \in Int /\ next_id' \in Int /\ next_id <= next_id'
<1>0. next_id \in Int
  BY DEF IInv, TypeOK
<1>1. CASE active' = active /\ next_id' = next_id
  BY <1>0, <1>1
<1>2. CASE Attempts
  <2>1. PICK p \in ProfileIds, d \in Devices, ok \in BOOLEAN :
           ActivateMatching(p, d, ok)
    BY <1>2 DEF Attempts
  <2>2. active' = Append(active, NewEntry(p, d, ok))
    BY <2>1, ActivateEffect
  <2>3. active \in Seq(ActiveConnection)
    BY DEF IInv, TypeOK
  <2>4. NewEntry(p, d, ok).id = next_id
    BY DEF NewEntry
  <2>5. next_id' = next_id + 1
    BY <2>1 DEF ActivateMatching
  <2> QED BY <1>0, <2>2, <2>3, <2>4, <2>5
<1>3. CASE \E id \in ActiveIds, ok, held \in BOOLEAN : Deactivate(id, ok, held)
  <2>1. \A j \in DOMAIN active' : \E k \in DOMAIN active :
            active'[j].id = active[k].id
    BY <1>3, TeardownMembers
  <2>2. next_id' = next_id
    BY <1>3 DEF Deactivate
  <2> QED BY <1>0, <2>1, <2>2
<1> QED BY <1>1, <1>2, <1>3, NextCases DEF IInv, StoreStep, DrainEvents

(* What keeps HandlesNeverReused: the handles given out are the ones below *)
(* the counter, each given once.                                           *)
GivenOnce == \A a \in ActiveIds : given[a] = IF a < next_id THEN 1 ELSE 0

(* Queue `new` is queue `evs` followed by events of handle a, profile p.   *)
Continues(evs, new, a, p) ==
    /\ new \in Seq(ConnectionEvent)
    /\ \A k \in DOMAIN new :
           \/ k \in DOMAIN evs /\ new[k] = evs[k]
           \/ new[k].active_id = a /\ new[k].profile_id = p

(* One more event of the handle continues the queue still.                 *)
LEMMA ContinuesPushed ==
    ASSUME NEW evs, NEW new, NEW a \in ActiveIds, NEW p \in ProfileIds,
           NEW e \in ConnectionEvent, Continues(evs, new, a, p),
           e.active_id = a, e.profile_id = p
    PROVE  Continues(evs, Append(new, e), a, p)
<1>1. new \in Seq(ConnectionEvent)
  BY DEF Continues
<1>2. /\ Append(new, e) \in Seq(ConnectionEvent)
      /\ DOMAIN Append(new, e) = 1..(Len(new) + 1)
      /\ DOMAIN new = 1..Len(new) /\ Len(new) \in Nat
      /\ Append(new, e)[Len(new) + 1] = e
      /\ \A k \in 1..Len(new) : Append(new, e)[k] = new[k]
  BY <1>1
<1>3. \A k \in 1..(Len(new) + 1) : k \in 1..Len(new) \/ k = Len(new) + 1
  BY <1>2
<1> QED BY <1>2, <1>3 DEF Continues

(* The events of a handle name its profile, those of outcomes included.    *)
LEMMA EventsOfHandle ==
    ASSUME NEW a \in ActiveIds, NEW p \in ProfileIds
    PROVE  /\ \A s, u \in ConnectionStates :
                 /\ StateChanged(a, p, s, u) \in ConnectionEvent
                 /\ StateChanged(a, p, s, u).active_id = a
                 /\ StateChanged(a, p, s, u).profile_id = p
           /\ \A w \in {"Activated", "Deactivated", "Failed"} :
                 /\ Outcome(w, a, p) \in ConnectionEvent
                 /\ Outcome(w, a, p).active_id = a
                 /\ Outcome(w, a, p).profile_id = p
BY DEF StateChanged, Outcome, ConnectionEvent

(* An attempt pushes events of the new handle only...                      *)
LEMMA AttemptContinues ==
    ASSUME NEW p \in ProfileIds, NEW ok \in BOOLEAN, TypeOK,
           next_id \in ActiveIds
    PROVE  Continues(events, AttemptEvents(p, ok), next_id, p)
<1> DEFINE SC(s, u) == StateChanged(next_id, p, s, u)
           e0 == Append(events, SC("Disconnected", "Preparing"))
           e1 == Append(e0, SC("Preparing", "Configuring"))
           e2 == Append(e1, SC("Configuring", "Activating"))
           e3 == Append(e2, SC("Activating", "Activated"))
           f1 == Append(e0, SC("Preparing", "Failed"))
<1>1. \A s, u \in ConnectionStates :
          /\ SC(s, u) \in ConnectionEvent
          /\ SC(s, u).active_id = next_id
          /\ SC(s, u).profile_id = p
  BY EventsOfHandle
<1>2. \A w \in {"Activated", "Failed"} :
          /\ Outcome(w, next_id, p) \in ConnectionEvent
          /\ Outcome(w, next_id, p).active_id = next_id
          /\ Outcome(w, next_id, p).profile_id = p
  BY EventsOfHandle
<1>3. {"Disconnected", "Preparing", "Configuring", "Activating", "Activated",
       "Failed"} \subseteq ConnectionStates
  BY DEF ConnectionStates
<1>4. AttemptEvents(p, ok) = IF ok THEN Append(e3, Outcome("Activated", next_id, p))
                             ELSE Append(f1, Outcome("Failed", next_id, p))
  BY DEF AttemptEvents
<1>5. Continues(events, events, next_id, p)
  BY DEF Continues, TypeOK
<1> HIDE DEF SC
<1>6. Continues(events, e0, next_id, p)
  BY <1>1, <1>3, <1>5, ContinuesPushed
<1> HIDE DEF e0
<1>7. Continues(events, e1, next_id, p) /\ Continues(events, f1, next_id, p)
  BY <1>1, <1>3, <1>6, ContinuesPushed
<1> HIDE DEF e1, f1
<1>8. Continues(events, e2, next_id, p)
  BY <1>1, <1>3, <1>7, ContinuesPushed
<1> HIDE DEF e2
<1>9. Continues(events, e3, next_id, p)
  BY <1>1, <1>3, <1>8, ContinuesPushed
<1> HIDE DEF e3
<1>10. /\ Continues(events, Append(e3, Outcome("Activated", next_id, p)), next_id, p)
       /\ Continues(events, Append(f1, Outcome("Failed", next_id, p)), next_id, p)
  BY <1>2, <1>7, <1>9, ContinuesPushed
<1> QED BY <1>4, <1>10

(* ... and a teardown events of the one it takes down.                     *)
LEMMA TeardownContinues ==
    ASSUME NEW a \in ActiveIds, NEW p \in ProfileIds, NEW ok \in BOOLEAN, TypeOK
    PROVE  Continues(events, TeardownEvents(a, p, ok), a, p)
<1> DEFINE last == IF ok THEN "Disconnected" ELSE "Failed"
           word == IF ok THEN "Deactivated" ELSE "Failed"
           e1 == Append(events, StateChanged(a, p, "Activated", "Deactivating"))
           e2 == Append(e1, StateChanged(a, p, "Deactivating", last))
<1>1. /\ {"Activated", "Deactivating", last} \subseteq ConnectionStates
      /\ word \in {"Activated", "Deactivated", "Failed"}
  BY DEF ConnectionStates
<1>2. TeardownEvents(a, p, ok) = Append(e2, Outcome(word, a, p))
  BY DEF TeardownEvents
<1>3. Continues(events, events, a, p)
  BY DEF Continues, TypeOK
<1> HIDE DEF last, word
<1>4. Continues(events, e1, a, p)
  BY <1>1, <1>3, EventsOfHandle, ContinuesPushed
<1> HIDE DEF e1
<1>5. Continues(events, e2, a, p)
  BY <1>1, <1>4, EventsOfHandle, ContinuesPushed
<1> HIDE DEF e2
<1>6. Continues(events, Append(e2, Outcome(word, a, p)), a, p)
  BY <1>1, <1>5, EventsOfHandle, ContinuesPushed
<1> QED BY <1>2, <1>6

(* The account of the handles holds at the start.                          *)
LEMMA InitHandles == Init => GivenOnce /\ HandlesNeverReused
<1> SUFFICES ASSUME Init PROVE GivenOnce /\ HandlesNeverReused
  OBVIOUS
<1>1. /\ next_id = 1 /\ active = <<>> /\ events = <<>>
      /\ \A a \in ActiveIds : given[a] = 0
  BY DEF Init
<1>2. \A a \in ActiveIds : a \in Int /\ a >= 1
  BY BoundAssumption DEF ActiveIds
<1> QED BY <1>1, <1>2 DEF GivenOnce, HandlesNeverReused

(* An attempt takes a handle that nothing carries.                         *)
LEMMA AttemptHandles ==
    ASSUME IInv, GivenOnce, HandlesNeverReused, NEW p \in ProfileIds,
           NEW d \in Devices, NEW ok \in BOOLEAN, ActivateMatching(p, d, ok)
    PROVE  GivenOnce' /\ HandlesNeverReused'
<1> DEFINE n == Len(active)
           new == AttemptEvents(p, ok)
<1>1. /\ next_id \in ActiveIds /\ next_id \in Int /\ next_id' = next_id + 1
      /\ given \in [ActiveIds -> Nat]
      /\ given' = [given EXCEPT ![next_id] = @ + 1]
      /\ ActiveIds \subseteq Int
  BY BoundAssumption DEF ActivateMatching, IInv, TypeOK, ActiveIds
<1>2. active' = Append(active, NewEntry(p, d, ok)) /\ events' = new
  BY ActivateEffect
<1>3. /\ active \in Seq(ActiveConnection) /\ events \in Seq(ConnectionEvent)
      /\ \A i \in DOMAIN active : active[i].id \in ActiveIds
      /\ \A k \in DOMAIN events : events[k].active_id \in ActiveIds
  <2>1. active \in Seq(ActiveConnection) /\ events \in Seq(ConnectionEvent)
    BY DEF IInv, TypeOK
  <2>2. /\ \A i \in DOMAIN active : active[i] \in ActiveConnection
        /\ \A k \in DOMAIN events : events[k] \in ConnectionEvent
    BY <2>1
  <2> QED BY <2>1, <2>2 DEF ActiveConnection, ConnectionEvent
<1>4. NewEntry(p, d, ok).id = next_id /\ NewEntry(p, d, ok).profile = p
  BY DEF NewEntry
<1>5. /\ DOMAIN active' = 1..(n + 1) /\ DOMAIN active = 1..n /\ n \in Nat
      /\ active'[n + 1].id = next_id /\ active'[n + 1].profile = p
      /\ \A i \in 1..n : active'[i] = active[i]
  BY <1>2, <1>3, <1>4
<1>6. \A i \in DOMAIN active' :
          \/ i \in DOMAIN active /\ active'[i] = active[i]
          \/ active'[i].id = next_id /\ active'[i].profile = p
  <2>1. \A i \in 1..(n + 1) : i \in 1..n \/ i = n + 1
    BY <1>5
  <2> HIDE DEF n
  <2> QED BY <1>5, <2>1
<1>7. \A k \in DOMAIN events' :
          \/ k \in DOMAIN events /\ events'[k] = events[k]
          \/ events'[k].active_id = next_id /\ events'[k].profile_id = p
  BY <1>1, <1>2, AttemptContinues DEF Continues, IInv
<1>8. /\ given[next_id] = 0
      /\ \A a \in ActiveIds : given'[a] = IF a = next_id THEN 1 ELSE given[a]
  <2>1. given[next_id] = 0
    BY <1>1 DEF GivenOnce
  <2> QED BY <1>1, <2>1
<1>9. GivenOnce'
  <2> SUFFICES ASSUME NEW a \in ActiveIds
               PROVE  given'[a] = IF a < next_id' THEN 1 ELSE 0
    BY DEF GivenOnce
  <2>1. given[a] = IF a < next_id THEN 1 ELSE 0
    BY DEF GivenOnce
  <2> QED BY <1>1, <1>8, <2>1
<1>10. /\ \A i \in DOMAIN active : active[i].id # next_id
       /\ \A k \in DOMAIN events : events[k].active_id # next_id
  BY <1>8 DEF HandlesNeverReused
<1>11. \A a \in ActiveIds : given'[a] <= 1
  BY <1>8 DEF HandlesNeverReused
<1>12. /\ \A i \in DOMAIN active' : given'[active'[i].id] = 1
       /\ \A k \in DOMAIN events' : given'[events'[k].active_id] = 1
  BY <1>1, <1>3, <1>6, <1>7, <1>8 DEF HandlesNeverReused
<1>13. \A i \in DOMAIN active', k \in DOMAIN events' :
           events'[k].active_id = active'[i].id
               => events'[k].profile_id = active'[i].profile
  BY <1>6, <1>7, <1>10 DEF HandlesNeverReused
<1>14. \A k, m \in DOMAIN events' :
           events'[k].active_id = events'[m].active_id
               => events'[k].profile_id = events'[m].profile_id
  BY <1>7, <1>10 DEF HandlesNeverReused
<1> QED BY <1>9, <1>11, <1>12, <1>13, <1>14 DEF HandlesNeverReused

(* A teardown pushes events of a handle that its entry carries already.    *)
LEMMA TeardownHandles ==
    ASSUME IInv, GivenOnce, HandlesNeverReused, NEW id \in ActiveIds,
           NEW ok \in BOOLEAN, NEW held \in BOOLEAN, Deactivate(id, ok, held)
    PROVE  GivenOnce' /\ HandlesNeverReused'
<1>1. PICK i \in DOMAIN active : TeardownEffect(i, id, ok, held)
  BY DeactivateEffect DEF IInv
<1> DEFINE p == active[i].profile
<1>2. /\ active[i].id = id /\ next_id' = next_id /\ given' = given
      /\ events' = TeardownEvents(id, p, ok)
      /\ ok => active' = RemoveAt(active, i)
      /\ ~ok => active' = [active EXCEPT ![i] =
                             [id |-> id, profile |-> p,
                              device |-> active[i].device, state |-> "Failed"]]
  BY <1>1 DEF TeardownEffect
<1>3. active \in Seq(ActiveConnection) /\ p \in ProfileIds
  <2>1. active \in Seq(ActiveConnection)
    BY DEF IInv, TypeOK
  <2>2. active[i] \in ActiveConnection
    BY <2>1
  <2> QED BY <2>1, <2>2 DEF ActiveConnection
<1>4. \A j \in DOMAIN active' : \E k \in DOMAIN active :
          active'[j].id = active[k].id /\ active'[j].profile = active[k].profile
  <2>1. CASE ok
    BY <1>2, <1>3, <2>1, RemoveAtMembers
  <2>2. CASE ~ok
    BY <1>2, <1>3, <2>2
  <2> QED BY <2>1, <2>2
<1>5. \A k, m \in DOMAIN active : active[k].id = active[m].id => k = m
  <2>1. \A k \in DOMAIN active : active[k] \in ActiveConnection
    BY <1>3
  <2>2. \A k \in DOMAIN active : active[k].id \in Int
    BY <2>1, BoundAssumption DEF ActiveConnection, ActiveIds
  <2>3. DOMAIN active \subseteq Int
    BY <1>3
  <2> QED BY <2>2, <2>3 DEF IInv, EntriesUnique
<1> HIDE DEF p
<1>6. \A k \in DOMAIN events' :
          \/ k \in DOMAIN events /\ events'[k] = events[k]
          \/ events'[k].active_id = id /\ events'[k].profile_id = p
  BY <1>2, <1>3, TeardownContinues DEF Continues, IInv
<1>7. /\ \A k \in DOMAIN active : active[k].id = id => active[k].profile = p
      /\ \A k \in DOMAIN events :
            events[k].active_id = id => events[k].profile_id = p
      /\ given[id] = 1
  BY <1>2, <1>5 DEF HandlesNeverReused, p
<1>8. GivenOnce'
  BY <1>2 DEF GivenOnce
<1>9. /\ \A j \in DOMAIN active' : given'[active'[j].id] = 1
      /\ \A k \in DOMAIN events' : given'[events'[k].active_id] = 1
      /\ \A a \in ActiveIds : given'[a] <= 1
  BY <1>2, <1>4, <1>6, <1>7 DEF HandlesNeverReused
<1>10. \A j \in DOMAIN active', k \in DOMAIN events' :
           events'[k].active_id = active'[j].id
               => events'[k].profile_id = active'[j].profile
  BY <1>4, <1>6, <1>7 DEF HandlesNeverReused
<1>11. \A k, m \in DOMAIN events' :
           events'[k].active_id = events'[m].active_id
               => events'[k].profile_id = events'[m].profile_id
  BY <1>6, <1>7 DEF HandlesNeverReused
<1> QED BY <1>8, <1>9, <1>10, <1>11 DEF HandlesNeverReused

(* No handle is given out twice, and whatever carries a handle, in the     *)
(* list or in the queue, names the profile of that one activation.         *)
THEOREM HandlesFresh == Spec => []HandlesNeverReused
<1>1. ASSUME IInv, GivenOnce, HandlesNeverReused, [Next]_vars
      PROVE  GivenOnce' /\ HandlesNeverReused'
  <2>1. CASE StoreStep
    BY <1>1, <2>1 DEF StoreStep, GivenOnce, HandlesNeverReused
  <2>2. CASE Attempts
    BY <1>1, <2>2, AttemptHandles DEF Attempts
  <2>3. CASE \E id \in ActiveIds, ok, held \in BOOLEAN : Deactivate(id, ok, held)
    BY <1>1, <2>3, TeardownHandles
  <2>4. CASE DrainEvents
    BY <1>1, <2>4 DEF DrainEvents, GivenOnce, HandlesNeverReused
  <2> QED BY <1>1, <2>1, <2>2, <2>3, <2>4, NextCases DEF IInv
<1> QED BY <1>1, InitHandles, Invariance, PTL DEF Spec

(* Only a connection that was up and has been taken down leaves the list.  *)
THEOREM EntriesLeaveTornDown == Spec => OnlyTornDownEntriesLeave
<1> DEFINE Leaves == \A i \in DOMAIN active :
                (\A j \in DOMAIN active' : active'[j].id # active[i].id)
                    => /\ active[i].state = "Activated"
                       /\ active[i].profile \in engineUp \ engineUp'
<1>1. ASSUME IInv, [Next]_vars PROVE Leaves
  <2>1. CASE active' = active
    BY <2>1
  <2>2. CASE Attempts
    <3>1. PICK p \in ProfileIds, d \in Devices, ok \in BOOLEAN :
             active' = Append(active, NewEntry(p, d, ok))
      BY <2>2, ActivateEffect DEF Attempts
    <3>2. active \in Seq(ActiveConnection)
      BY <1>1 DEF IInv, TypeOK
    <3> QED BY <3>1, <3>2
  <2>3. CASE \E id \in ActiveIds, ok, held \in BOOLEAN : Deactivate(id, ok, held)
    BY <1>1, <2>3, TeardownMembers DEF IInv, EngineAgrees
  <2> QED BY <1>1, <2>1, <2>2, <2>3, NextCases DEF IInv, StoreStep, DrainEvents
<1> QED BY <1>1, Invariance, PTL DEF Spec, OnlyTornDownEntriesLeave

(* The manager implements the per-profile lifecycle.                       *)
THEOREM Refinement == Spec => ImplementsLifecycle
<1> DEFINE st == [p \in ProfileIds |-> Status(p)]
<1>1. Init => Lifecycle!Init
  BY DEF Init, Lifecycle!Init, Status, IsActive
<1>2. ASSUME IInv, [Next]_vars PROVE [Lifecycle!Next]_st
  <2>1. CASE active' = active
    BY <2>1 DEF Status, IsActive
  <2>2. CASE Attempts
    <3>1. PICK p \in ProfileIds, d \in Devices, ok \in BOOLEAN :
             ~IsActive(p) /\ active' = Append(active, NewEntry(p, d, ok))
      BY <2>2, ActivateEffect DEF Attempts
    <3>2. active \in Seq(ActiveConnection)
      BY <1>2 DEF IInv, TypeOK
    <3>3. /\ NewEntry(p, d, ok).profile = p
          /\ NewEntry(p, d, ok).state = IF ok THEN "Activated" ELSE "Failed"
      BY DEF NewEntry
    <3>4. \A q \in ProfileIds : q # p => Status(q)' = Status(q)
      BY <3>1, <3>2, <3>3 DEF Status, IsActive
    <3>5. Status(p) = "Down" /\ Status(p)' \in {"Up", "Failed"}
      BY <3>1, <3>2, <3>3 DEF Status, IsActive
    <3>6. Lifecycle!Attempt(p)
      BY <3>4, <3>5 DEF Lifecycle!Attempt
    <3> QED BY <3>6 DEF Lifecycle!Next
  <2>3. CASE \E id \in ActiveIds, ok, held \in BOOLEAN : Deactivate(id, ok, held)
    <3>1. PICK id \in ActiveIds, ok \in BOOLEAN, held \in BOOLEAN :
             Deactivate(id, ok, held)
      BY <2>3
    <3>2. PICK i \in DOMAIN active :
             /\ active[i].state = "Activated"
             /\ ok => /\ \A j \in DOMAIN active' : \E k \in DOMAIN active :
                              k # i /\ active'[j] = active[k]
                      /\ \A k \in DOMAIN active : k # i =>
                              \E j \in DOMAIN active' : active'[j] = active[k]
             /\ ~ok => /\ DOMAIN active' = DOMAIN active
                       /\ active'[i].profile = active[i].profile
                       /\ active'[i].state = "Failed"
                       /\ \A k \in DOMAIN active : k # i => active'[k] = active[k]
      BY <1>2, <3>1, TeardownMembers
    <3>3. PICK p \in ProfileIds : p = active[i].profile
      <4>1. active[i] \in ActiveConnection
        BY <1>2 DEF IInv, TypeOK
      <4> QED BY <4>1 DEF ActiveConnection
    <3>4. \A k \in DOMAIN active : k # i => active[k].profile # p
      BY <1>2, <3>3 DEF IInv, EntriesUnique
    <3>5. Status(p) = "Up"
      BY <3>2, <3>3 DEF Status, IsActive
    <3>6. Status(p)' \in {"Down", "Failed"}
      <4>1. CASE ok
        BY <3>2, <3>4, <4>1 DEF Status, IsActive
      <4>2. CASE ~ok
        BY <3>2, <3>3, <3>4, <4>2 DEF Status, IsActive
      <4> QED BY <4>1, <4>2
    <3>7. \A q \in ProfileIds : q # p => Status(q)' = Status(q)
      <4>1. CASE ok
        BY <3>2, <3>3, <4>1 DEF Status, IsActive
      <4>2. CASE ~ok
        BY <3>2, <3>3, <4>2 DEF Status, IsActive
      <4> QED BY <4>1, <4>2
    <3>8. Lifecycle!TakeDown(p)
      BY <3>3, <3>5, <3>6, <3>7 DEF Lifecycle!TakeDown
    <3> QED BY <3>3, <3>8 DEF Lifecycle!Next
  <2> QED BY <1>2, <2>1, <2>2, <2>3, NextCases DEF IInv, StoreStep, DrainEvents
<1> QED BY <1>1, <1>2, Invariance, PTL DEF Spec, ImplementsLifecycle, Lifecycle!Spec

-----------------------------------------------------------------------------
(* The queue of events. What one handle's events tell is followed through  *)
(* every push: the changes replay from what the consumer believes to what  *)
(* the list holds, each links to the one before it, and there is a last    *)
(* one (the queue is finite; the fact is carried along, not derived).      *)

Linked(evs, a, before) ==
    \A k \in Changes(evs, a) :
        /\ CanTransitionTo(evs[k].previous, evs[k].current)
        /\ (\A m \in Changes(evs, a) : m >= k) => evs[k].previous = before
        /\ \A m \in Changes(evs, a) :
              (m < k /\ \A n \in Changes(evs, a) : n <= m \/ n >= k)
                 => evs[k].previous = evs[m].current

LastKnown(evs, a) ==
    Changes(evs, a) # {} =>
        \E k \in Changes(evs, a) : \A m \in Changes(evs, a) : m <= k

Chronicle(evs, a, before, after) ==
    Replays(evs, a, before, after) /\ Linked(evs, a, before) /\ LastKnown(evs, a)

Chronicled == \A a \in ActiveIds : Chronicle(events, a, view[a], StateOf(a))

(* No events tell of no change.                                            *)
LEMMA NothingToTell ==
    ASSUME NEW a, NEW s
    PROVE  Chronicle(<<>>, a, s, s)
BY DEF Chronicle, Replays, Linked, LastKnown, Changes

(* Pushing a change of the handle moves its chronicle one legal jump on... *)
LEMMA ChangePushed ==
    ASSUME NEW evs \in Seq(ConnectionEvent), NEW a, NEW p, NEW before,
           NEW from, NEW to, CanTransitionTo(from, to),
           Chronicle(evs, a, before, from)
    PROVE  Chronicle(Append(evs, StateChanged(a, p, from, to)), a, before, to)
<1> DEFINE e == StateChanged(a, p, from, to)
           n == Len(evs)
           new == Append(evs, e)
<1>1. /\ e.kind = "StateChanged" /\ e.active_id = a
      /\ e.previous = from /\ e.current = to
  BY DEF StateChanged
<1> HIDE DEF e
<1>2. /\ n \in Nat /\ DOMAIN evs = 1..n /\ DOMAIN new = 1..(n + 1)
      /\ new[n + 1] = e /\ \A k \in 1..n : new[k] = evs[k]
  OBVIOUS
<1> HIDE DEF n, new
<1>3. /\ Changes(evs, a) \subseteq 1..n
      /\ Changes(new, a) = Changes(evs, a) \cup {n + 1}
      /\ \A k \in Changes(evs, a) : new[k] = evs[k]
  BY <1>1, <1>2 DEF Changes
<1>4. \A k \in Changes(new, a) : k <= n + 1 /\ (k # n + 1 => k \in Changes(evs, a))
  BY <1>2, <1>3
<1>5. Replays(new, a, before, to) /\ LastKnown(new, a)
  BY <1>1, <1>2, <1>3, <1>4 DEF Replays, LastKnown
<1>6. Linked(new, a, before)
  <2> SUFFICES ASSUME NEW k \in Changes(new, a)
               PROVE  /\ CanTransitionTo(new[k].previous, new[k].current)
                      /\ (\A m \in Changes(new, a) : m >= k)
                             => new[k].previous = before
                      /\ \A m \in Changes(new, a) :
                            (m < k /\ \A l \in Changes(new, a) : l <= m \/ l >= k)
                               => new[k].previous = new[m].current
    BY DEF Linked
  <2>1. CASE k \in Changes(evs, a)
    <3>1. /\ CanTransitionTo(evs[k].previous, evs[k].current)
          /\ (\A m \in Changes(evs, a) : m >= k) => evs[k].previous = before
          /\ \A m \in Changes(evs, a) :
                (m < k /\ \A l \in Changes(evs, a) : l <= m \/ l >= k)
                   => evs[k].previous = evs[m].current
      BY <2>1 DEF Chronicle, Linked
    <3>2. \A m \in Changes(new, a) : m < k => m \in Changes(evs, a)
      BY <1>2, <1>3, <2>1
    <3> QED BY <1>3, <2>1, <3>1, <3>2
  <2>2. CASE k = n + 1
    <3>1. (\A m \in Changes(new, a) : m >= k) => Changes(evs, a) = {}
      BY <1>2, <1>3, <2>2
    <3>2. Changes(evs, a) = {} => from = before
      BY DEF Chronicle, Replays
    <3>3. ASSUME NEW m \in Changes(new, a), m < k,
                 \A l \in Changes(new, a) : l <= m \/ l >= k
          PROVE  from = new[m].current
      <4>1. m \in Changes(evs, a) /\ \A l \in Changes(evs, a) : l <= m
        BY <1>2, <1>3, <2>2, <3>3
      <4> QED BY <1>3, <4>1 DEF Chronicle, Replays
    <3> QED BY <1>1, <1>2, <2>2, <3>1, <3>2, <3>3
  <2> QED BY <1>4, <2>1, <2>2
<1> QED BY <1>5, <1>6 DEF Chronicle, new, e

(* ... and pushing anything else leaves it where it was.                   *)
LEMMA OtherPushed ==
    ASSUME NEW evs \in Seq(ConnectionEvent), NEW a, NEW before, NEW after, NEW e,
           e.kind # "StateChanged" \/ e.active_id # a,
           Chronicle(evs, a, before, after)
    PROVE  Chronicle(Append(evs, e), a, before, after)
<1>1. /\ Changes(Append(evs, e), a) = Changes(evs, a)
      /\ \A k \in Changes(evs, a) : Append(evs, e)[k] = evs[k]
  BY DEF Changes
<1> QED BY <1>1 DEF Chronicle, Replays, Linked, LastKnown

(* The state a handle has is that of the entry that carries it.            *)
HandleState(a) ==
    /\ \A i \in DOMAIN active : active[i].id = a => StateOf(a) = active[i].state
    /\ (\A i \in DOMAIN active : active[i].id # a) => StateOf(a) = "Disconnected"

(* The state of a handle, from the list of active connections.             *)
LEMMA StateOfEntry == IInv => \A a \in ActiveIds : HandleState(a)
<1> SUFFICES ASSUME IInv, NEW i \in DOMAIN active
             PROVE  StateOf(active[i].id) = active[i].state
  BY DEF StateOf, HandleState
<1>1. \A j \in DOMAIN active : active[j] \in ActiveConnection
  BY DEF IInv, TypeOK
<1>2. \A j \in DOMAIN active : active[j].id \in Int
  BY <1>1, BoundAssumption DEF ActiveConnection, ActiveIds
<1>3. /\ DOMAIN active \subseteq Int
      /\ \A j, k \in DOMAIN active : j < k => active[j].id < active[k].id
  BY DEF IInv, TypeOK, EntriesUnique
<1>4. \A j \in DOMAIN active : active[j].id = active[i].id => j = i
  BY <1>2, <1>3
<1> QED BY <1>4 DEF StateOf

(* The same in the next state.                                             *)
LEMMA StateOfEntryNext == IInv' => \A a \in ActiveIds : HandleState(a)'
<1>1. IInv' => (\A a \in ActiveIds : HandleState(a))'
  BY StateOfEntry, PTL
<1> QED BY <1>1

(* An attempt tells of the new handle from Disconnected to its outcome.    *)
LEMMA AttemptChronicled ==
    ASSUME IInv, IInv', Chronicled, NEW p \in ProfileIds, NEW d \in Devices,
           NEW ok \in BOOLEAN, ActivateMatching(p, d, ok)
    PROVE  Chronicled'
<1>1. /\ next_id \in ActiveIds /\ next_id \in Int /\ view' = view
      /\ active \in Seq(ActiveConnection) /\ events \in Seq(ConnectionEvent)
      /\ \A i \in DOMAIN active : active[i].id # next_id
  <2>1. next_id \in ActiveIds /\ next_id \in Int /\ view' = view
    BY BoundAssumption DEF ActivateMatching, IInv, TypeOK, ActiveIds
  <2>2. active \in Seq(ActiveConnection) /\ events \in Seq(ConnectionEvent)
    BY DEF IInv, TypeOK
  <2>3. \A i \in DOMAIN active : active[i].id < next_id
    BY DEF IInv, EntriesUnique
  <2> QED BY <2>1, <2>2, <2>3
<1>2. active' = Append(active, NewEntry(p, d, ok)) /\ events' = AttemptEvents(p, ok)
  BY ActivateEffect
<1>3. /\ NewEntry(p, d, ok).id = next_id
      /\ NewEntry(p, d, ok).state = IF ok THEN "Activated" ELSE "Failed"
  BY DEF NewEntry
<1>4. \A a \in ActiveIds : HandleState(a) /\ HandleState(a)'
  BY StateOfEntry, StateOfEntryNext
<1>5. ASSUME NEW a \in ActiveIds
      PROVE  StateOf(a)' = IF a = next_id THEN (IF ok THEN "Activated" ELSE "Failed")
                           ELSE StateOf(a)
  <2>1. /\ Len(active) \in Nat /\ DOMAIN active = 1..Len(active)
        /\ DOMAIN active' = 1..(Len(active) + 1)
        /\ active'[Len(active) + 1] = NewEntry(p, d, ok)
        /\ \A i \in 1..Len(active) : active'[i] = active[i]
    BY <1>1, <1>2
  <2>2. CASE a = next_id
    BY <1>3, <1>4, <2>1, <2>2 DEF HandleState
  <2>3. CASE a # next_id /\ \E i \in DOMAIN active : active[i].id = a
    <3>1. PICK i \in DOMAIN active : active[i].id = a
      BY <2>3
    <3>2. StateOf(a) = active[i].state
      BY <1>4, <3>1 DEF HandleState
    <3>3. i \in DOMAIN active' /\ active'[i] = active[i]
      BY <2>1
    <3>4. StateOf(a)' = active'[i].state
      BY <1>4, <3>1, <3>3 DEF HandleState
    <3> QED BY <2>3, <3>2, <3>3, <3>4
  <2>4. CASE a # next_id /\ \A i \in DOMAIN active : active[i].id # a
    <3>1. StateOf(a) = "Disconnected"
      BY <1>4, <2>4 DEF HandleState
    <3>2. \A i \in DOMAIN active' : active'[i].id # a
      BY <1>3, <2>1, <2>4
    <3>3. StateOf(a)' = "Disconnected"
      BY <1>4, <3>2 DEF HandleState
    <3> QED BY <2>4, <3>1, <3>3
  <2> QED BY <2>2, <2>3, <2>4
<1> DEFINE SC(s, u) == StateChanged(next_id, p, s, u)
           e0 == Append(events, SC("Disconnected", "Preparing"))
           e1 == Append(e0, SC("Preparing", "Configuring"))
           e2 == Append(e1, SC("Configuring", "Activating"))
           e3 == Append(e2, SC("Activating", "Activated"))
           f1 == Append(e0, SC("Preparing", "Failed"))
<1>6. \A s, u \in ConnectionStates :
          SC(s, u) \in ConnectionEvent /\ SC(s, u).active_id = next_id
  BY <1>1 DEF StateChanged, ConnectionEvent
<1>7. \A w \in {"Activated", "Failed"} : Outcome(w, next_id, p).kind # "StateChanged"
  BY DEF Outcome
<1>8. /\ {"Disconnected", "Preparing", "Configuring", "Activating", "Activated",
          "Failed"} \subseteq ConnectionStates
      /\ CanTransitionTo("Disconnected", "Preparing")
      /\ CanTransitionTo("Preparing", "Configuring")
      /\ CanTransitionTo("Configuring", "Activating")
      /\ CanTransitionTo("Activating", "Activated")
      /\ CanTransitionTo("Preparing", "Failed")
  BY DEF ConnectionStates, CanTransitionTo, LegalTransitions
<1>9. events' = IF ok THEN Append(e3, Outcome("Activated", next_id, p))
                ELSE Append(f1, Outcome("Failed", next_id, p))
  BY <1>2 DEF AttemptEvents
<1> HIDE DEF SC
<1>10. /\ e0 \in Seq(ConnectionEvent) /\ e1 \in Seq(ConnectionEvent)
       /\ e2 \in Seq(ConnectionEvent) /\ e3 \in Seq(ConnectionEvent)
       /\ f1 \in Seq(ConnectionEvent)
  BY <1>1, <1>6, <1>8
<1> HIDE DEF e0, e1, e2, e3, f1
<1>11. ASSUME NEW a \in ActiveIds, a # next_id
       PROVE  Chronicle(events', a, view[a], StateOf(a))
  <2>0. Chronicle(events, a, view[a], StateOf(a))
    BY DEF Chronicled
  <2>1. Chronicle(e0, a, view[a], StateOf(a))
    BY <1>1, <1>6, <1>8, <1>11, <2>0, OtherPushed DEF e0
  <2>2. Chronicle(e1, a, view[a], StateOf(a))
    BY <1>6, <1>8, <1>10, <1>11, <2>1, OtherPushed DEF e1
  <2>3. Chronicle(e2, a, view[a], StateOf(a))
    BY <1>6, <1>8, <1>10, <1>11, <2>2, OtherPushed DEF e2
  <2>4. Chronicle(e3, a, view[a], StateOf(a))
    BY <1>6, <1>8, <1>10, <1>11, <2>3, OtherPushed DEF e3
  <2>5. Chronicle(f1, a, view[a], StateOf(a))
    BY <1>6, <1>8, <1>10, <1>11, <2>1, OtherPushed DEF f1
  <2> QED BY <1>7, <1>9, <1>10, <2>4, <2>5, OtherPushed
<1>12. Chronicle(events', next_id, view[next_id], IF ok THEN "Activated" ELSE "Failed")
  <2> DEFINE v == view[next_id]
  <2>0. StateOf(next_id) = "Disconnected"
    BY <1>1, <1>4 DEF HandleState
  <2>a. Chronicle(events, next_id, v, "Disconnected")
    BY <1>1, <2>0 DEF Chronicled
  <2> HIDE DEF v
  <2>1. Chronicle(e0, next_id, v, "Preparing")
    BY <1>1, <1>8, <2>a, ChangePushed DEF e0, SC
  <2>2. Chronicle(e1, next_id, v, "Configuring")
    BY <1>8, <1>10, <2>1, ChangePushed DEF e1, SC
  <2>3. Chronicle(e2, next_id, v, "Activating")
    BY <1>8, <1>10, <2>2, ChangePushed DEF e2, SC
  <2>4. Chronicle(e3, next_id, v, "Activated")
    BY <1>8, <1>10, <2>3, ChangePushed DEF e3, SC
  <2>5. Chronicle(f1, next_id, v, "Failed")
    BY <1>8, <1>10, <2>1, ChangePushed DEF f1, SC
  <2>6. CASE ok
    <3>1. Chronicle(Append(e3, Outcome("Activated", next_id, p)), next_id, v, "Activated")
      BY <1>7, <1>10, <2>4, OtherPushed
    <3> QED BY <1>9, <2>6, <3>1 DEF v
  <2>7. CASE ~ok
    <3>1. Chronicle(Append(f1, Outcome("Failed", next_id, p)), next_id, v, "Failed")
      BY <1>7, <1>10, <2>5, OtherPushed
    <3> QED BY <1>9, <2>7, <3>1 DEF v
  <2> QED BY <2>6, <2>7
<1>13. \A a \in ActiveIds : Chronicle(events', a, view'[a], StateOf(a)')
  BY <1>1, <1>5, <1>11, <1>12
<1> QED BY <1>13 DEF Chronicled

(* A teardown tells of its handle down to where it ends.                   *)
LEMMA TeardownChronicled ==
    ASSUME IInv, IInv', Chronicled, NEW id \in ActiveIds, NEW ok \in BOOLEAN,
           NEW held \in BOOLEAN, Deactivate(id, ok, held)
    PROVE  Chronicled'
<1>1. PICK i \in DOMAIN active : TeardownEffect(i, id, ok, held)
  BY DeactivateEffect DEF IInv
<1> DEFINE p == active[i].profile
           last == IF ok THEN "Disconnected" ELSE "Failed"
           e1 == Append(events, StateChanged(id, p, "Activated", "Deactivating"))
           e2 == Append(e1, StateChanged(id, p, "Deactivating", last))
           out == Outcome(IF ok THEN "Deactivated" ELSE "Failed", id, p)
<1>2. /\ active[i].id = id /\ active[i].state = "Activated" /\ view' = view
      /\ events' = Append(e2, out)
      /\ ok => active' = RemoveAt(active, i)
      /\ ~ok => active' = [active EXCEPT ![i] =
                             [id |-> id, profile |-> p,
                              device |-> active[i].device, state |-> "Failed"]]
  BY <1>1 DEF TeardownEffect, TeardownEvents
<1>3. /\ active \in Seq(ActiveConnection) /\ events \in Seq(ConnectionEvent)
      /\ p \in ProfileIds
  <2>1. active \in Seq(ActiveConnection) /\ events \in Seq(ConnectionEvent)
    BY DEF IInv, TypeOK
  <2>2. active[i] \in ActiveConnection
    BY <2>1
  <2> QED BY <2>1, <2>2 DEF ActiveConnection
<1>4. \A a \in ActiveIds : HandleState(a) /\ HandleState(a)'
  BY StateOfEntry, StateOfEntryNext
<1>5. \A k \in DOMAIN active : k # i => active[k].id # id
  <2>1. \A k \in DOMAIN active : active[k] \in ActiveConnection
    BY <1>3
  <2>2. \A k \in DOMAIN active : active[k].id \in Int
    BY <2>1, BoundAssumption DEF ActiveConnection, ActiveIds
  <2>3. DOMAIN active \subseteq Int
    BY <1>3
  <2> QED BY <1>2, <2>2, <2>3 DEF IInv, EntriesUnique
<1>6. /\ ok => /\ \A j \in DOMAIN active' : \E k \in DOMAIN active :
                      k # i /\ active'[j] = active[k]
               /\ \A k \in DOMAIN active : k # i =>
                      \E j \in DOMAIN active' : active'[j] = active[k]
      /\ ~ok => /\ DOMAIN active' = DOMAIN active
                /\ active'[i].id = id /\ active'[i].state = "Failed"
                /\ \A k \in DOMAIN active : k # i => active'[k] = active[k]
  <2>1. CASE ok
    BY <1>2, <1>3, <2>1, RemoveAtMembers
  <2>2. CASE ~ok
    BY <1>2, <1>3, <2>2
  <2> QED BY <2>1, <2>2
<1>7. StateOf(id) = "Activated" /\ StateOf(id)' = last
  <2>1. StateOf(id) = "Activated"
    BY <1>2, <1>4 DEF HandleState
  <2>2. CASE ok
    <3>1. \A j \in DOMAIN active' : active'[j].id # id
      BY <1>5, <1>6, <2>2
    <3> QED BY <1>4, <2>1, <2>2, <3>1 DEF HandleState
  <2>3. CASE ~ok
    BY <1>4, <1>6, <2>1, <2>3 DEF HandleState
  <2> QED BY <2>2, <2>3
<1>8. ASSUME NEW a \in ActiveIds, a # id
      PROVE  StateOf(a)' = StateOf(a)
  <2>1. CASE \E k \in DOMAIN active : active[k].id = a
    <3>1. PICK k \in DOMAIN active : active[k].id = a
      BY <2>1
    <3>2. \E j \in DOMAIN active' : active'[j] = active[k]
      BY <1>2, <1>6, <1>8, <3>1
    <3>3. StateOf(a) = active[k].state
      BY <1>4, <3>1 DEF HandleState
    <3> QED BY <1>4, <3>1, <3>2, <3>3 DEF HandleState
  <2>2. CASE \A k \in DOMAIN active : active[k].id # a
    <3>1. \A j \in DOMAIN active' : active'[j].id # a
      BY <1>6, <1>8, <2>2
    <3> QED BY <1>4, <2>2, <3>1 DEF HandleState
  <2> QED BY <2>1, <2>2
<1>9. /\ {"Disconnected", "Deactivating", "Activated", "Failed"} \subseteq ConnectionStates
      /\ last \in ConnectionStates
      /\ CanTransitionTo("Activated", "Deactivating")
      /\ CanTransitionTo("Deactivating", last)
  BY DEF ConnectionStates, CanTransitionTo, LegalTransitions
<1>10. /\ out.kind # "StateChanged"
       /\ \A s, u \in ConnectionStates : /\ StateChanged(id, p, s, u) \in ConnectionEvent
                                         /\ StateChanged(id, p, s, u).active_id = id
  BY <1>3 DEF Outcome, StateChanged, ConnectionEvent
<1> HIDE DEF p, last, out
<1>11. e1 \in Seq(ConnectionEvent) /\ e2 \in Seq(ConnectionEvent)
  BY <1>3, <1>9, <1>10
<1> HIDE DEF e1, e2
<1>12. ASSUME NEW a \in ActiveIds, a # id
       PROVE  Chronicle(events', a, view[a], StateOf(a))
  <2>0. Chronicle(events, a, view[a], StateOf(a))
    BY DEF Chronicled
  <2>1. Chronicle(e1, a, view[a], StateOf(a))
    BY <1>3, <1>9, <1>10, <1>12, <2>0, OtherPushed DEF e1
  <2>2. Chronicle(e2, a, view[a], StateOf(a))
    BY <1>9, <1>10, <1>11, <1>12, <2>1, OtherPushed DEF e2
  <2> QED BY <1>2, <1>10, <1>11, <2>2, OtherPushed
<1>13. Chronicle(events', id, view[id], last)
  <2> DEFINE v == view[id]
  <2>0. Chronicle(events, id, v, "Activated")
    BY <1>7 DEF Chronicled
  <2> HIDE DEF v
  <2>1. Chronicle(e1, id, v, "Deactivating")
    BY <1>3, <1>9, <2>0, ChangePushed DEF e1
  <2>2. Chronicle(e2, id, v, last)
    BY <1>9, <1>11, <2>1, ChangePushed DEF e2
  <2>3. Chronicle(Append(e2, out), id, v, last)
    BY <1>10, <1>11, <2>2, OtherPushed
  <2> QED BY <1>2, <2>3 DEF v
<1>14. \A a \in ActiveIds : Chronicle(events', a, view'[a], StateOf(a)')
  BY <1>2, <1>7, <1>8, <1>12, <1>13
<1> QED BY <1>14 DEF Chronicled

(* A drain leaves an empty queue, and a consumer who knows the state.      *)
LEMMA DrainChronicled ==
    ASSUME IInv, Chronicled, DrainEvents
    PROVE  Chronicled'
<1>1. events' = <<>> /\ active' = active
  BY DEF DrainEvents
<1>2. ASSUME NEW a \in ActiveIds
      PROVE  view'[a] = StateOf(a)
  <2>1. Replays(events, a, view[a], view'[a])
    BY DrainReplays DEF IInv
  <2>2. Replays(events, a, view[a], StateOf(a)) /\ LastKnown(events, a)
    BY DEF Chronicled, Chronicle
  <2>3. CASE Changes(events, a) = {}
    BY <2>1, <2>2, <2>3 DEF Replays
  <2>4. CASE Changes(events, a) # {}
    BY <2>1, <2>2, <2>4 DEF Replays, LastKnown
  <2> QED BY <2>3, <2>4
<1>3. \A a \in ActiveIds : StateOf(a)' = StateOf(a)
  BY <1>1 DEF StateOf
<1>4. \A a \in ActiveIds : Chronicle(events', a, view'[a], StateOf(a)')
  BY <1>1, <1>2, <1>3, NothingToTell
<1> QED BY <1>4 DEF Chronicled

(* The account of the events holds at the start.                           *)
LEMMA InitChronicled == Init => Chronicled
<1> SUFFICES ASSUME Init, NEW a \in ActiveIds
             PROVE  Chronicle(events, a, view[a], StateOf(a))
  BY DEF Chronicled
<1>1. StateOf(a) = "Disconnected" /\ view[a] = "Disconnected" /\ events = <<>>
  BY DEF Init, StateOf
<1> QED BY <1>1, NothingToTell

(* Every operation queues exactly the events its changes call for.         *)
LEMMA NextChronicled == IInv /\ IInv' /\ Chronicled /\ [Next]_vars => Chronicled'
<1> SUFFICES ASSUME IInv, IInv', Chronicled, [Next]_vars PROVE Chronicled'
  OBVIOUS
<1>1. CASE StoreStep
  BY <1>1 DEF StoreStep, Chronicled, StateOf
<1>2. CASE Attempts
  BY <1>2, AttemptChronicled DEF Attempts
<1>3. CASE \E id \in ActiveIds, ok, held \in BOOLEAN : Deactivate(id, ok, held)
  BY <1>3, TeardownChronicled
<1>4. CASE DrainEvents
  BY <1>4, DrainChronicled
<1> QED BY <1>1, <1>2, <1>3, <1>4, NextCases DEF IInv

(* What one handle's events tell is complete and in order, however the     *)
(* events of several connections are mixed in the one queue.               *)
THEOREM ChronicleInvariance == Spec => []Chronicled
BY Invariance, InitChronicled, NextIInv, NextChronicled, PTL DEF Spec

(* Whoever drains the queue now knows the state of every handle: no        *)
(* operation of the manager changes the list without pushing the matching  *)
(* events.                                                                 *)
THEOREM EventsTellAll == Spec => []EventsReplayToState
<1>1. Chronicled => EventsReplayToState
  BY DEF Chronicled, Chronicle, EventsReplayToState
<1> QED BY <1>1, ChronicleInvariance, PTL

(* The queued changes of a handle are an unbroken chain of legal jumps.    *)
THEOREM ChainsAreLegal == Spec => []EventChainLegal
<1>1. Chronicled => EventChainLegal
  BY DEF Chronicled, Chronicle, Linked, EventChainLegal
<1> QED BY <1>1, ChronicleInvariance, PTL

=============================================================================
