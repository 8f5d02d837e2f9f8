---------------------- MODULE SupplicantClient_proofs ----------------------
(***************************************************************************)
(* Proofs about SupplicantClient, for any profiles, any timeout and any    *)
(* number of networks, faults and other clients.                           *)
(***************************************************************************)
EXTENDS SupplicantClient, TLAPS

-----------------------------------------------------------------------------
(* The inductive invariant. What a report claims was read at different     *)
(* moments by different calls: the invariant carries from each call to the *)
(* next what of it is still true.                                          *)

SupType == [state : States, reason : {0, 1}, current : 0 .. MaxPaths]

Waiting == pc \in {"state", "reason", "sleep"}

(* An activation under way holds no slot, and has a network of its own.    *)
Progress ==
    /\ sup \in SupType
    /\ pc \in {"add", "select", "cleanup"} \/ Waiting => slot = <<>>
    /\ pc \in {"select", "cleanup"} \/ Waiting => path \in Paths
    /\ pc \in {"disconnect", "remove"} => path \in Paths /\ result = "none"
    /\ Waiting \/ pc \in {"add", "select"} => result = "none"
    /\ pc = "sleep" => left # 0

(* While it waits, everything the supplicant is has been seen, and unless  *)
(* somebody came in between, what it is working on is our network.         *)
Watched ==
    /\ Waiting => Facts(sup) \subseteq saw
    /\ Waiting /\ ~meddled => sup.current = path
    /\ (pc = "select" \/ Waiting) /\ ~meddled => nets[path] = "us"

(* The state that was read was seen too.                                   *)
ReadWasSeen ==
    pc = "reason" =>
        /\ read \in saw
        /\ read = "completed" => meddled \/ "ours" \in saw

(* The verdict that a failed activation carries through its cleanup.       *)
Verdict ==
    pc = "cleanup" =>
        /\ result \in {"Bus", "Disassociated", "NotConnected", "Timeout"}
        /\ result = "Disassociated" => {"disconnected", "reason"} \subseteq saw
        /\ result = "NotConnected" => "inactive" \in saw
        /\ result = "Timeout" => left = 0 /\ saw \cap {"disconnected", "busy"} # {}

IInv == TypeOK /\ Progress /\ Watched /\ ReadWasSeen /\ Verdict

(* What the supplicant may become by each of its operations.               *)
LEMMA SetType ==
    ASSUME NEW st \in States, NEW r \in {0, 1}, NEW n \in 0 .. MaxPaths
    PROVE  /\ Set(st, r, n) \in SupType
           /\ Set(st, r, n).state = st /\ Set(st, r, n).reason = r
           /\ Set(st, r, n).current = n
BY DEF Set, SupType

(* After SelectNetwork the supplicant's current network is the one asked   *)
(* for.                                                                    *)
LEMMA SelectingType ==
    ASSUME sup \in SupType, NEW n \in Paths, NEW s \in Selecting(n)
    PROVE  s \in SupType /\ s.current = n
<1>1. PICK st \in {"inactive", "disconnected", "busy"}, r \in {sup.reason, 1} :
          s = Set(st, IF sup.state = "completed" THEN r ELSE sup.reason, n)
  BY DEF Selecting
<1>2. sup.reason \in {0, 1} /\ st \in States /\ n \in 0 .. MaxPaths
  BY SupplicantAssumption DEF SupType, States, Paths
<1> QED BY <1>1, <1>2, SetType

(* After RemoveNetwork the supplicant's state keeps its type.              *)
LEMMA RemovingType ==
    ASSUME sup \in SupType, NEW n, NEW s \in Removing(n)
    PROVE  s \in SupType
<1>1. CASE sup.current # n
  BY <1>1 DEF Removing
<1>2. CASE sup.current = n
  <2>1. PICK st \in {"inactive", "disconnected"}, r \in {sup.reason, 1} :
            s = Set(st, r, 0)
    BY <1>2 DEF Removing
  <2>2. r \in {0, 1} /\ st \in States /\ 0 \in 0 .. MaxPaths
    BY SupplicantAssumption DEF SupType, States
  <2> QED BY <2>1, <2>2, SetType
<1> QED BY <1>1, <1>2

(* A change of the supplicant on its own, or by another client: the engine *)
(* is where it was, and has seen it.                                       *)
LEMMA WorldMoves ==
    ASSUME IInv, UNCHANGED <<engine, lost>>,
           sup' \in SupType, nets' \in [Paths -> {"none", "us", "other"}],
           \/ Becomes(sup')
           \/ UNCHANGED <<sup, saw>>,
           \/ meddled'
           \/ UNCHANGED <<meddled, nets>> /\ sup'.current = sup.current
    PROVE  IInv'
<1>1. UNCHANGED <<pc, prof, path, slot, read, left, result>>
  BY DEF engine
<1>2. saw \subseteq saw' /\ (Facts(sup) \subseteq saw => Facts(sup') \subseteq saw')
  BY DEF Becomes, Facts
<1>3. Facts(sup)' = Facts(sup')
  BY <1>1 DEF Facts
<1>4. TypeOK'
  BY <1>1 DEF IInv, TypeOK, SupType
<1>5. Progress'
  BY <1>1 DEF IInv, Progress, Waiting
<1>6. meddled' \/ (~meddled' => ~meddled /\ sup'.current = sup.current /\ nets' = nets)
  OBVIOUS
<1>7. Watched'
  BY <1>1, <1>2, <1>3, <1>6 DEF IInv, Watched, Waiting
<1>8. meddled => meddled'
  OBVIOUS
<1>9. ReadWasSeen' /\ Verdict'
  BY <1>1, <1>2, <1>8 DEF IInv, ReadWasSeen, Verdict
<1> QED BY <1>4, <1>5, <1>7, <1>9 DEF IInv

(* What the supplicant and its other clients do by themselves.             *)
LEMMA WorldSteps ==
    ASSUME IInv, Associate \/ Drop \/ Retry \/ OtherClient \/ Restart
    PROVE  IInv'
<1>0. /\ sup \in SupType /\ nets \in [Paths -> {"none", "us", "other"}]
      /\ sup.state \in States /\ sup.reason \in {0, 1} /\ sup.current \in 0 .. MaxPaths
      /\ {"inactive", "disconnected", "busy", "completed"} \subseteq States
      /\ 0 \in 0 .. MaxPaths
  BY SupplicantAssumption DEF IInv, TypeOK, Progress, SupType, States
<1>1. CASE Associate
  <2>1. PICK r \in {0, sup.reason} : Becomes(Set("completed", r, sup.current))
    BY <1>1 DEF Associate
  <2>2. sup' = Set("completed", r, sup.current)
    BY <2>1 DEF Becomes
  <2>3. sup' \in SupType /\ sup'.current = sup.current
    BY <1>0, <2>2, SetType
  <2> QED BY <1>0, <1>1, <2>1, <2>2, <2>3, WorldMoves DEF Associate
<1>2. CASE Drop
  <2>1. Becomes(Set("disconnected", 1, sup.current))
    BY <1>2 DEF Drop
  <2>2. sup' = Set("disconnected", 1, sup.current)
    BY <2>1 DEF Becomes
  <2>3. sup' \in SupType /\ sup'.current = sup.current
    BY <1>0, <2>2, SetType
  <2> QED BY <1>0, <1>2, <2>1, <2>2, <2>3, WorldMoves DEF Drop
<1>3. CASE Retry
  <2>1. Becomes(Set("busy", sup.reason, sup.current))
    BY <1>3 DEF Retry
  <2>2. sup' = Set("busy", sup.reason, sup.current)
    BY <2>1 DEF Becomes
  <2>3. sup' \in SupType /\ sup'.current = sup.current
    BY <1>0, <2>2, SetType
  <2> QED BY <1>0, <1>3, <2>1, <2>2, <2>3, WorldMoves DEF Retry
<1>4. CASE OtherClient
  <2>0. meddled' /\ UNCHANGED <<engine, lost>>
    BY <1>4 DEF OtherClient
  <2>1. CASE \E n \in Free : /\ nets' = [nets EXCEPT ![n] = "other"]
                            /\ UNCHANGED <<sup, saw>>
    <3>1. nets' \in [Paths -> {"none", "us", "other"}]
      BY <1>0, <2>1 DEF Free
    <3> QED BY <1>0, <2>0, <2>1, <3>1, WorldMoves
  <2>2. CASE \E n \in Paths \ Free : /\ \E s \in Selecting(n) : Becomes(s)
                                    /\ UNCHANGED nets
    <3>1. PICK n \in Paths \ Free : \E s \in Selecting(n) : Becomes(s)
      BY <2>2
    <3>2. PICK s \in Selecting(n) : Becomes(s)
      BY <3>1
    <3>3. s \in SupType /\ sup' = s
      BY <1>0, <3>2, SelectingType DEF Becomes
    <3> QED BY <1>0, <2>0, <2>2, <3>2, <3>3, WorldMoves
  <2>3. CASE \E n \in Paths \ Free : /\ nets' = [nets EXCEPT ![n] = "none"]
                                    /\ \E s \in Removing(n) : Becomes(s)
    <3>1. PICK n \in Paths \ Free : /\ nets' = [nets EXCEPT ![n] = "none"]
                                   /\ \E s \in Removing(n) : Becomes(s)
      BY <2>3
    <3>2. PICK s \in Removing(n) : Becomes(s)
      BY <3>1
    <3>3. s \in SupType /\ sup' = s
      BY <1>0, <3>2, RemovingType DEF Becomes
    <3>4. nets' \in [Paths -> {"none", "us", "other"}]
      BY <1>0, <3>1
    <3> QED BY <1>0, <2>0, <3>2, <3>3, <3>4, WorldMoves
  <2>4. CASE Becomes(Set("disconnected", 1, 0)) /\ UNCHANGED nets
    <3>1. sup' = Set("disconnected", 1, 0) /\ sup' \in SupType
      BY <1>0, <2>4, SetType DEF Becomes
    <3> QED BY <1>0, <2>0, <2>4, <3>1, WorldMoves
  <2> QED BY <1>4, <2>1, <2>2, <2>3, <2>4 DEF OtherClient
<1>5. CASE Restart
  <2>1. sup' = Set("inactive", 0, 0) /\ Becomes(sup') /\ sup' \in SupType
    BY <1>0, <1>5, SetType DEF Restart, Becomes
  <2>2. /\ nets' \in [Paths -> {"none", "us", "other"}]
        /\ meddled' /\ UNCHANGED <<engine, lost>>
    BY <1>5 DEF Restart
  <2> QED BY <2>1, <2>2, WorldMoves
<1> QED BY <1>1, <1>2, <1>3, <1>4, <1>5

(* The supplicant stops answering, or answers again with less time left.   *)
LEMMA AnswersChange ==
    ASSUME IInv, Hang \/ Resume
    PROVE  IInv'
<1>1. /\ UNCHANGED <<pc, prof, path, slot, read, result>>
      /\ UNCHANGED <<sup, nets, saw, meddled>>
  BY DEF Hang, Resume, engine
<1>2. left' = left \/ (pc \in {"state", "reason"} /\ left' \in 0 .. left)
  BY DEF Hang, Resume, engine
<1>3. left' \in 0 .. Timeout
  BY <1>2, SupplicantAssumption DEF IInv, TypeOK
<1>4. TypeOK' /\ Facts(sup)' = Facts(sup)
  BY <1>1, <1>3 DEF IInv, TypeOK, Facts
<1> QED BY <1>1, <1>2, <1>4
        DEF IInv, Progress, Watched, ReadWasSeen, Verdict, Waiting

-----------------------------------------------------------------------------
(* The engine's calls.                                                     *)

(* Between calls of the engine there is nothing to carry but the types.    *)
LEMMA AtRest ==
    ASSUME TypeOK', sup' \in SupType, pc' = "idle"
    PROVE  IInv'
BY DEF IInv, Progress, Watched, ReadWasSeen, Verdict, Waiting

(* A call that fails changes nothing but the count of failures.            *)
LEMMA FailsChanges ==
    ASSUME Fails
    PROVE  lost' /\ UNCHANGED <<sup, nets, saw, meddled>>
BY DEF Fails

(* A refused activation, and one that starts.                              *)
LEMMA ActivateStep ==
    ASSUME IInv, NEW p \in Profiles, NEW ours \in BOOLEAN, Activate(p, ours)
    PROVE  IInv'
<1>1. CASE Return("Refused", slot) /\ UNCHANGED World
  BY <1>1, AtRest DEF Return, World, IInv, TypeOK, Progress
<1>2. CASE /\ slot = <<>>
           /\ pc' = "add" /\ prof' = p /\ path' = 0 /\ result' = "none"
           /\ UNCHANGED <<slot, read, left, sup, nets>>
  <2>1. TypeOK'
    BY <1>2, SupplicantAssumption DEF IInv, TypeOK
  <2> QED BY <1>2, <2>1
          DEF IInv, Progress, Watched, ReadWasSeen, Verdict, Waiting
<1> QED BY <1>1, <1>2, Zenon DEF Activate

(* AddNetwork answers with a path, or the activation is over.              *)
LEMMA AddNetworkStep ==
    ASSUME IInv, AddNetwork
    PROVE  IInv'
<1>0. slot = <<>> /\ result = "none" /\ sup \in SupType
  BY DEF IInv, Progress, AddNetwork
<1>1. CASE \E n \in Free : /\ nets' = [nets EXCEPT ![n] = "us"]
                          /\ pc' = "select" /\ path' = n
                          /\ UNCHANGED <<prof, slot, read, left, result, sup, saw,
                                         meddled, lost, faults, others>>
  <2>1. PICK n \in Free : /\ nets' = [nets EXCEPT ![n] = "us"]
                          /\ pc' = "select" /\ path' = n
                          /\ UNCHANGED <<slot, read, left, result, sup>>
    BY <1>1
  <2>2. /\ n \in Paths /\ n \in 0 .. MaxPaths
        /\ nets'[n] = "us" /\ nets' \in [Paths -> {"none", "us", "other"}]
    BY <2>1, SupplicantAssumption DEF Free, Paths, IInv, TypeOK
  <2>3. TypeOK'
    BY <2>1, <2>2 DEF IInv, TypeOK
  <2> QED BY <1>0, <2>1, <2>2, <2>3
          DEF IInv, Progress, Watched, ReadWasSeen, Verdict, Waiting
<1>2. CASE ((Free = {} /\ UNCHANGED World) \/ Fails) /\ Return("Rejected", slot)
  <2>1. UNCHANGED <<sup, nets>>
    BY <1>2 DEF World, Fails
  <2>2. pc' = "idle" /\ UNCHANGED <<slot, path, read, left>>
    BY <1>2 DEF Return
  <2> QED BY <1>0, <2>1, <2>2, AtRest DEF IInv, TypeOK
<1> QED BY <1>1, <1>2, Zenon DEF AddNetwork

(* A wait that fails, by a call or by its verdict, goes to the cleanup.    *)
LEMMA ToCleanup ==
    ASSUME IInv, pc = "select" \/ Waiting,
           pc' = "cleanup", UNCHANGED <<prof, path, slot, read, left>>,
           UNCHANGED <<sup, nets, saw, meddled>>,
           Verdict'
    PROVE  IInv'
<1>1. TypeOK'
  BY DEF IInv, TypeOK
<1> QED BY <1>1 DEF IInv, Progress, Watched, ReadWasSeen, Waiting

(* A D-Bus error between the select and the end leads to the cleanup.      *)
LEMMA BusFailure ==
    ASSUME IInv, pc = "select" \/ Waiting, pc' = "cleanup", result' = "Bus",
           UNCHANGED <<prof, path, slot, read, left>>,
           UNCHANGED <<sup, nets, saw, meddled>>
    PROVE  IInv'
<1>1. Verdict'
  BY DEF Verdict
<1> QED BY <1>1, ToCleanup

(* From the select on, what the supplicant is like is on record.           *)
LEMMA SelectNetworkStep ==
    ASSUME IInv, SelectNetwork
    PROVE  IInv'
<1>0. /\ pc = "select" /\ slot = <<>> /\ path \in Paths /\ result = "none"
      /\ sup \in SupType
  BY DEF IInv, Progress, SelectNetwork
<1>1. CASE /\ nets[path] # "none"
           /\ \E s \in Selecting(path) : sup' = s /\ saw' = Facts(s)
           /\ pc' = "state" /\ left' = Timeout
           /\ UNCHANGED <<prof, path, slot, read, result, nets, meddled, lost,
                          faults, others>>
  <2>1. PICK s \in Selecting(path) : sup' = s /\ saw' = Facts(s)
    BY <1>1
  <2>2. s \in SupType /\ s.current = path
    BY <1>0, <2>1, SelectingType
  <2>3. Facts(sup)' = Facts(s)
    BY <1>1, <2>1 DEF Facts
  <2>4. TypeOK'
    BY <1>1, <2>1, <2>2, SupplicantAssumption DEF IInv, TypeOK, SupType
  <2>5. Watched'
    BY <1>0, <1>1, <2>1, <2>2, <2>3 DEF IInv, Watched, Waiting
  <2> QED BY <1>0, <1>1, <2>1, <2>2, <2>4, <2>5
          DEF IInv, Progress, ReadWasSeen, Verdict, Waiting
<1>2. CASE /\ (nets[path] = "none" /\ UNCHANGED World) \/ Fails
           /\ pc' = "cleanup" /\ result' = "Bus"
           /\ UNCHANGED <<prof, path, slot, read, left>>
  <2>1. UNCHANGED <<sup, nets, saw, meddled>>
    BY <1>2 DEF World, Fails
  <2> QED BY <1>0, <1>2, <2>1, BusFailure
<1> QED BY <1>1, <1>2, Zenon DEF SelectNetwork

(* A state that is read is one the supplicant has had since the select.    *)
LEMMA GetStateStep ==
    ASSUME IInv, GetState
    PROVE  IInv'
<1>0. pc = "state" /\ Waiting /\ sup.state \in States
  BY DEF GetState, Waiting, IInv, TypeOK
<1>1. CASE /\ read' = sup.state /\ pc' = "reason"
           /\ UNCHANGED <<prof, path, slot, left, result, World>>
  <2>1. UNCHANGED <<prof, path, slot, left, result, sup, nets, saw, meddled>>
    BY <1>1 DEF World
  <2>2. TypeOK'
    BY <1>0, <1>1, <2>1 DEF IInv, TypeOK
  <2>3. Facts(sup)' = Facts(sup)
    BY <2>1 DEF Facts
  <2>4. Progress' /\ Watched' /\ Verdict'
    BY <1>0, <1>1, <2>1, <2>3 DEF IInv, Progress, Watched, Verdict, Waiting
  <2>5. ReadWasSeen'
    BY <1>0, <1>1, <2>1 DEF IInv, Watched, Waiting, ReadWasSeen, Facts
  <2> QED BY <2>2, <2>4, <2>5 DEF IInv
<1>2. CASE /\ Fails
           /\ pc' = "cleanup" /\ result' = "Bus"
           /\ UNCHANGED <<prof, path, slot, read, left>>
  BY <1>0, <1>2, BusFailure, FailsChanges
<1> QED BY <1>1, <1>2, Zenon DEF GetState

(* What a verdict says of the state and of the reason it was made from.    *)
LEMMA ClassifyFacts ==
    ASSUME NEW state \in States, NEW reason,
           NEW v, v = ClassifyState(state, reason)
    PROVE  /\ v \in {"Ok", "Disassociated", "NotConnected", "ongoing"}
           /\ v = "Ok" => state = "completed"
           /\ v = "Disassociated" => state = "disconnected" /\ reason # 0
           /\ v = "NotConnected" => state = "inactive"
           /\ v = "ongoing" => state \in {"disconnected", "busy"}
BY DEF ClassifyState, States

(* The reason read next decides between the errors and another round.      *)
LEMMA GetReasonStep ==
    ASSUME IInv, GetReason
    PROVE  IInv'
<1> DEFINE verdict == ClassifyState(read, sup.reason)
<1>0. /\ pc = "reason" /\ Waiting /\ read \in States /\ sup \in SupType
      /\ path \in Paths /\ read \in saw /\ Facts(sup) \subseteq saw
  BY DEF GetReason, Waiting, IInv, TypeOK, Progress, ReadWasSeen, Watched
<1>1. /\ verdict \in {"Ok", "Disassociated", "NotConnected", "ongoing"}
      /\ verdict = "Disassociated" => read = "disconnected" /\ sup.reason # 0
      /\ verdict = "NotConnected" => read = "inactive"
      /\ verdict = "ongoing" => read \in {"disconnected", "busy"}
  BY <1>0, ClassifyFacts
<1>2. sup.reason # 0 => "reason" \in saw
  BY <1>0 DEF Facts
<1>3. \/ Return("Ok", <<prof.id, path>>) /\ UNCHANGED World
      \/ left # 0 /\ Goto("sleep") /\ UNCHANGED World
      \/ /\ verdict # "Ok" /\ (verdict = "ongoing" => left = 0)
         /\ pc' = "cleanup"
         /\ result' = IF verdict = "ongoing" THEN "Timeout" ELSE verdict
         /\ UNCHANGED <<prof, path, slot, read, left, World>>
      \/ /\ Fails
         /\ pc' = "cleanup" /\ result' = "Bus"
         /\ UNCHANGED <<prof, path, slot, read, left>>
  BY Zenon DEF GetReason
<1> HIDE DEF verdict
<1>4. CASE Return("Ok", <<prof.id, path>>) /\ UNCHANGED World
  <2>1. /\ pc' = "idle" /\ slot' = <<prof.id, path>>
        /\ UNCHANGED <<path, read, left, sup, nets>>
    BY <1>4 DEF Return, World
  <2>2. slot'[2] \in Paths
    BY <1>0, <2>1
  <2> QED BY <1>0, <2>1, <2>2, AtRest DEF IInv, TypeOK
<1>5. CASE left # 0 /\ Goto("sleep") /\ UNCHANGED World
  <2>1. /\ pc' = "sleep"
        /\ UNCHANGED <<prof, path, slot, read, left, result, sup, nets, saw, meddled>>
    BY <1>5 DEF Goto, World
  <2>2. TypeOK' /\ Facts(sup)' = Facts(sup)
    BY <2>1 DEF IInv, TypeOK, Facts
  <2> QED BY <1>0, <1>5, <2>1, <2>2
          DEF IInv, Progress, Watched, ReadWasSeen, Verdict, Waiting
<1>6. CASE /\ verdict # "Ok" /\ (verdict = "ongoing" => left = 0)
           /\ pc' = "cleanup"
           /\ result' = IF verdict = "ongoing" THEN "Timeout" ELSE verdict
           /\ UNCHANGED <<prof, path, slot, read, left, World>>
  <2>1. UNCHANGED <<sup, nets, saw, meddled, left>>
    BY <1>6 DEF World
  <2>2. Verdict'
    BY <1>0, <1>1, <1>2, <1>6, <2>1 DEF Verdict
  <2> QED BY <1>0, <1>6, <2>1, <2>2, ToCleanup
<1>7. CASE /\ Fails
           /\ pc' = "cleanup" /\ result' = "Bus"
           /\ UNCHANGED <<prof, path, slot, read, left>>
  BY <1>0, <1>7, BusFailure, FailsChanges
<1> QED BY <1>3, <1>4, <1>5, <1>6, <1>7

(* Between two rounds the remaining time shrinks, or the wait times out.   *)
LEMMA SleepStep ==
    ASSUME IInv, Sleep
    PROVE  IInv'
<1>1. /\ pc = "sleep" /\ pc' = "state" /\ left' = left - 1
      /\ UNCHANGED <<prof, path, slot, read, result, sup, nets, saw, meddled>>
  BY DEF Sleep, World
<1>2. left' \in 0 .. Timeout
  BY <1>1, SupplicantAssumption DEF IInv, TypeOK, Progress
<1>3. TypeOK' /\ Facts(sup)' = Facts(sup)
  BY <1>1, <1>2 DEF IInv, TypeOK, Facts
<1> QED BY <1>1, <1>3
        DEF IInv, Progress, Watched, ReadWasSeen, Verdict, Waiting

(* A network is taken out of the supplicant.                               *)
LEMMA NetworkRemoved ==
    ASSUME IInv, NEW n \in Paths, nets' = [nets EXCEPT ![n] = "none"],
           \E s \in Removing(n) : Becomes(s)
    PROVE  /\ sup' \in SupType /\ nets'[n] = "none"
           /\ nets' \in [Paths -> {"none", "us", "other"}]
<1>1. PICK s \in Removing(n) : Becomes(s)
  OBVIOUS
<1>2. sup \in SupType /\ nets \in [Paths -> {"none", "us", "other"}]
  BY DEF IInv, TypeOK, Progress
<1>3. s \in SupType /\ sup' = s
  BY <1>1, <1>2, RemovingType DEF Becomes
<1> QED BY <1>2, <1>3

(* The cleanup ends the activation with the error that led to it.          *)
LEMMA CleanupStep ==
    ASSUME IInv, Cleanup
    PROVE  IInv'
<1>0. /\ pc = "cleanup" /\ path \in Paths /\ slot = <<>> /\ sup \in SupType
      /\ pc' = "idle" /\ UNCHANGED <<path, slot, read, left>>
  BY DEF IInv, Progress, Cleanup, Return
<1>1. CASE /\ nets' = [nets EXCEPT ![path] = "none"]
           /\ \E s \in Removing(path) : Becomes(s)
  <2>1. sup' \in SupType /\ nets' \in [Paths -> {"none", "us", "other"}]
    BY <1>0, <1>1, NetworkRemoved
  <2> QED BY <1>0, <2>1, AtRest DEF IInv, TypeOK, SupType
<1>2. CASE Fails
  BY <1>0, <1>2, AtRest, FailsChanges DEF IInv, TypeOK
<1> QED BY <1>1, <1>2 DEF Cleanup

(* A refused deactivation, and one that starts.                            *)
LEMMA DeactivateStep ==
    ASSUME IInv, NEW p \in Profiles, Deactivate(p)
    PROVE  IInv'
<1>1. CASE Return("Refused", slot) /\ UNCHANGED World
  BY <1>1, AtRest DEF Return, World, IInv, TypeOK, Progress
<1>2. CASE /\ slot # <<>>
           /\ pc' = "disconnect" /\ path' = slot[2] /\ result' = "none"
           /\ UNCHANGED <<slot, read, left, sup, nets>>
  <2>1. slot[2] \in Paths /\ slot[2] \in 0 .. MaxPaths
    BY <1>2, SupplicantAssumption DEF IInv, TypeOK, Paths
  <2>2. TypeOK'
    BY <1>2, <2>1 DEF IInv, TypeOK
  <2> QED BY <1>2, <2>1, <2>2
          DEF IInv, Progress, Watched, ReadWasSeen, Verdict, Waiting
<1> QED BY <1>1, <1>2, Zenon DEF Deactivate

(* Disconnect is followed by RemoveNetwork, whatever it answers.           *)
LEMMA DisconnectStep ==
    ASSUME IInv, Disconnect
    PROVE  IInv'
<1>0. /\ pc = "disconnect" /\ path \in Paths /\ result = "none" /\ pc' = "remove"
      /\ UNCHANGED <<path, slot, read, left, result>>
  BY DEF IInv, Progress, Disconnect, Goto
<1>1. sup' \in SupType /\ UNCHANGED nets
  <2>1. CASE Becomes(Set("disconnected", 1, 0)) /\ UNCHANGED nets
    BY <2>1, SetType, SupplicantAssumption DEF Becomes, States
  <2>2. CASE Fails
    BY <2>2, FailsChanges DEF IInv, Progress
  <2> QED BY <2>1, <2>2 DEF Disconnect
<1>2. TypeOK'
  BY <1>0, <1>1 DEF IInv, TypeOK, SupType
<1> QED BY <1>0, <1>1, <1>2
        DEF IInv, Progress, Watched, ReadWasSeen, Verdict, Waiting

(* The slot is cleared whatever RemoveNetwork answers.                     *)
LEMMA RemoveNetworkStep ==
    ASSUME IInv, RemoveNetwork
    PROVE  IInv'
<1>0. /\ path \in Paths /\ sup \in SupType
      /\ pc' = "idle" /\ slot' = <<>> /\ UNCHANGED <<path, read, left>>
  BY DEF IInv, Progress, RemoveNetwork, Return
<1>1. sup' \in SupType /\ nets' \in [Paths -> {"none", "us", "other"}]
  <2>1. CASE /\ nets' = [nets EXCEPT ![path] = "none"]
             /\ \E s \in Removing(path) : Becomes(s)
    BY <1>0, <2>1, NetworkRemoved
  <2>2. CASE UNCHANGED World \/ Fails
    BY <1>0, <2>2, FailsChanges DEF IInv, TypeOK, World
  <2> QED BY <2>1, <2>2 DEF RemoveNetwork
<1> QED BY <1>0, <1>1, AtRest DEF IInv, TypeOK, SupType

-----------------------------------------------------------------------------
(* The theorems.                                                           *)

(* The invariant holds at the start.                                       *)
LEMMA InitIInv == Init => IInv
<1> SUFFICES ASSUME Init PROVE IInv
  OBVIOUS
<1>1. sup \in SupType
  BY SetType, SupplicantAssumption DEF Init, States
<1>2. TypeOK
  BY <1>1, SupplicantAssumption DEF Init, TypeOK, SupType, States
<1> QED BY <1>1, <1>2 DEF Init, IInv, Progress, Watched, ReadWasSeen, Verdict, Waiting

(* Every step of the engine and of the supplicant keeps it.                *)
LEMMA StepIInv == IInv /\ [Next]_vars => IInv'
<1> SUFFICES ASSUME IInv, [Next]_vars PROVE IInv'
  OBVIOUS
<1>1. ASSUME NEW p \in Profiles, NEW ours \in BOOLEAN, Activate(p, ours)
      PROVE  IInv'
  BY <1>1, ActivateStep
<1>2. ASSUME NEW p \in Profiles, Deactivate(p)
      PROVE  IInv'
  BY <1>2, DeactivateStep
<1>3. CASE EngineStep
  BY <1>3, AddNetworkStep, SelectNetworkStep, GetStateStep, GetReasonStep, SleepStep,
     CleanupStep, DisconnectStep, RemoveNetworkStep DEF EngineStep, Call
<1>4. CASE Associate \/ Drop \/ Retry \/ OtherClient \/ Restart
  BY <1>4, WorldSteps
<1>5. CASE Hang \/ Resume
  BY <1>5, AnswersChange
<1>6. CASE UNCHANGED vars
  BY <1>6 DEF vars, engine, IInv, TypeOK, Progress, Watched, ReadWasSeen, Verdict,
              Waiting, Facts
<1> QED BY <1>1, <1>2, <1>3, <1>4, <1>5, <1>6 DEF Next, Request, SupplicantStep

(* Everything above holds at every step of the wait, whatever the          *)
(* supplicant, its other clients and its restarts do meanwhile, and        *)
(* however long it leaves a call unanswered.                               *)
THEOREM Invariance == Spec => []IInv
<1> QED BY InitIInv, StepIInv, PTL DEF Spec

(* The engine's fields and what it reads of the supplicant keep their      *)
(* types: in particular the slot names a network the engine has added, and *)
(* the poll loop of wait_for_completed never overruns its deadline.        *)
THEOREM TypeCorrect == Spec => []TypeOK
<1>1. IInv => TypeOK
  BY DEF IInv
<1> QED BY <1>1, Invariance, PTL

(* Only three calls return from a call under way: the last poll with a     *)
(* success, the cleanup with the verdict it was given, and the steps that  *)
(* report neither a success nor a verdict.                                 *)
LEMMA ReturnsAre ==
    ASSUME IInv, Next, pc # "idle", pc' = "idle"
    PROVE  GetReason \/ Cleanup \/ result' \in {"Rejected", "Bus", "Down"}
<1>1. pc \in {"add", "select", "state", "reason", "sleep", "cleanup", "disconnect",
             "remove"}
  BY DEF IInv, TypeOK
<1>2. ~(Associate \/ Drop \/ Retry \/ OtherClient \/ Restart \/ Hang \/ Resume)
  BY DEF Associate, Drop, Retry, OtherClient, Restart, Hang, Resume, engine
<1>3. ~(\E p \in Profiles, ours \in BOOLEAN : Activate(p, ours))
  BY DEF Activate
<1>4. ~(\E p \in Profiles : Deactivate(p))
  BY DEF Deactivate
<1>5. ~(SelectNetwork \/ GetState \/ Sleep \/ Disconnect)
  BY DEF SelectNetwork, GetState, Sleep, Disconnect, Goto
<1>6. AddNetwork => result' = "Rejected"
  BY DEF AddNetwork, Return
<1>7. RemoveNetwork => result' \in {"Bus", "Down"}
  BY DEF RemoveNetwork, Return
<1> QED BY <1>2, <1>3, <1>4, <1>5, <1>6, <1>7
        DEF Next, Request, SupplicantStep, EngineStep, Call

(* A step that reports is honest; every other step reports nothing.        *)
LEMMA StepHonest ==
    ASSUME IInv, [Next]_vars
    PROVE  HonestReport \/ UNCHANGED vars
<1>1. CASE pc = "idle" \/ pc' # "idle"
  BY <1>1 DEF HonestReport, Returns
<1>2. CASE pc # "idle" /\ pc' = "idle" /\ GetReason
  <2>1. /\ pc = "reason" /\ Return("Ok", <<prof.id, path>>)
        /\ ClassifyState(read, sup.reason) = "Ok"
    BY <1>2, Zenon DEF GetReason, Goto
  <2>2. read = "completed" /\ result' = "Ok" /\ slot' = <<prof.id, path>>
    BY <2>1, ClassifyFacts DEF Return, IInv, TypeOK
  <2>3. "completed" \in saw /\ (meddled \/ "ours" \in saw) /\ (meddled \/ nets[path] = "us")
    BY <2>1, <2>2 DEF IInv, ReadWasSeen, Watched, Waiting
  <2> QED BY <2>2, <2>3 DEF HonestReport, Returns
<1>3. CASE pc # "idle" /\ pc' = "idle" /\ Cleanup
  <2>1. /\ pc = "cleanup" /\ path \in Paths /\ slot = <<>>
        /\ result' = result /\ slot' = slot
    BY <1>3 DEF Cleanup, Return, IInv, Progress
  <2>2. lost' \/ nets'[path] # "us"
    <3>1. CASE /\ nets' = [nets EXCEPT ![path] = "none"]
               /\ \E s \in Removing(path) : Becomes(s)
      BY <2>1, <3>1, NetworkRemoved
    <3>2. CASE Fails
      BY <3>2, FailsChanges
    <3> QED BY <1>3, <3>1, <3>2 DEF Cleanup
  <2>3. Verdict
    BY DEF IInv
  <2> QED BY <2>1, <2>2, <2>3 DEF HonestReport, Returns, Verdict
<1>4. CASE pc # "idle" /\ pc' = "idle" /\ result' \in {"Rejected", "Bus", "Down"}
  BY <1>4 DEF HonestReport, Returns
<1>5. UNCHANGED vars => pc' = pc
  BY DEF vars, engine
<1> QED BY <1>1, <1>2, <1>3, <1>4, <1>5, ReturnsAre

(* What wait_for_completed and the cleanup of a failed activation report   *)
(* did happen since the network was selected, for any number of other      *)
(* clients, restarts and failing calls between its polls.                  *)
THEOREM ReportsAreHonest == Spec => OutcomeIsHonest
<1>1. IInv /\ [Next]_vars => [HonestReport]_vars
  BY StepHonest
<1> QED BY <1>1, Invariance, PTL DEF Spec, OutcomeIsHonest
=============================================================================
