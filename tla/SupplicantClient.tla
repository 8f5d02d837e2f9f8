-------------------------- MODULE SupplicantClient --------------------------
(***************************************************************************)
(* The wpa_supplicant client (linux/supplicant.rs) under the supplicant    *)
(* engine (connection/supplicant_engine.rs), one step per D-Bus call: a    *)
(* network is added, selected, and the State and DisconnectReason          *)
(* properties are polled until they settle or the deadline passes.         *)
(*                                                                         *)
(* wpa_supplicant is another process. It scans, associates, loses the      *)
(* association and tries again on its own, serves other clients (nmd       *)
(* disconnect, wpa_cli) meanwhile, may be restarted, and may stop          *)
(* answering: the blocking calls have no timeout of their own. Its         *)
(* transient states (scanning, associating, the handshakes) are one,       *)
(* "busy".                                                                 *)
(***************************************************************************)
EXTENDS Naturals, FiniteSets

CONSTANTS
    Profiles,      \* id, km ("wired" when not Wi-Fi), secret: whether it is found
    Timeout,       \* the association timeout, in poll intervals
    MaxPaths,      \* bound: networks added
    MaxFaults,     \* bound: failing calls, restarts, times it stops answering
    MaxOthers      \* bound: calls of other clients

ASSUME SupplicantAssumption ==
    /\ Timeout \in Nat /\ MaxPaths \in Nat \ {0}
    /\ MaxFaults \in Nat /\ MaxOthers \in Nat
    /\ \A p \in Profiles : p.km \in {"Open", "Owe", "WpaPsk", "Sae", "WpaEap", "wired"}

VARIABLES
    pc,        \* the next call of the engine
    prof,      \* the profile it is called for
    path,      \* the network it has added
    slot,      \* active_network: profile and path, or <<>>
    read,      \* the State that has been read
    left,      \* poll intervals to the deadline
    result,    \* of the last call of the engine
    sup,       \* external: state, reason, current network
    nets,      \* external: who configured each network there is
    hung,      \* external: whether calls are left unanswered
    saw,       \* what sup has been like since the network was selected
    meddled,   \* whether another client or a restart came in since then
    lost,      \* whether a call of this activation has failed
    faults, others

engine == <<pc, prof, path, slot, read, left, result>>
vars   == <<engine, sup, nets, saw, meddled, lost, faults, others, hung>>

States == {"inactive", "disconnected", "busy", "completed"}
Paths  == 1 .. MaxPaths
NoProfile == [id |-> 0, km |-> "Open", secret |-> FALSE]

-----------------------------------------------------------------------------
(* External: wpa_supplicant.                                               *)

Facts(s) ==
    {s.state} \cup (IF s.reason # 0 THEN {"reason"} ELSE {})
              \cup (IF s.state = "completed" /\ s.current = path THEN {"ours"} ELSE {})

(* Every change of it is seen by the ghost of a wait that is under way.    *)
Becomes(s) == sup' = s /\ saw' = saw \cup Facts(s)

Set(state, reason, current) == [state |-> state, reason |-> reason, current |-> current]

Free == { n \in Paths : nets[n] = "none" }

(* SelectNetwork drops the association there is, if any, and asks for a    *)
(* scan: until that starts the state is the one from before.               *)
Selecting(n) ==
    { Set(st, IF sup.state = "completed" THEN r ELSE sup.reason, n) :
        st \in {"inactive", "disconnected", "busy"}, r \in {sup.reason, 1} }

(* RemoveNetwork ends what used the network.                               *)
Removing(n) ==
    IF sup.current # n THEN {sup}
    ELSE { Set(st, r, 0) : st \in {"inactive", "disconnected"}, r \in {sup.reason, 1} }

Associate ==
    /\ sup.state = "busy" /\ sup.current # 0
    /\ \E r \in {0, sup.reason} : Becomes(Set("completed", r, sup.current))
    /\ UNCHANGED <<engine, nets, meddled, lost, faults, others>>

Drop ==
    /\ sup.state \in {"busy", "completed"}
    /\ Becomes(Set("disconnected", 1, sup.current))
    /\ UNCHANGED <<engine, nets, meddled, lost, faults, others>>

Retry ==
    /\ sup.state \in {"inactive", "disconnected"} /\ sup.current # 0
    /\ Becomes(Set("busy", sup.reason, sup.current))
    /\ UNCHANGED <<engine, nets, meddled, lost, faults, others>>

OtherClient ==
    /\ others < MaxOthers
    /\ others' = others + 1 /\ meddled' = TRUE
    /\ \/ \E n \in Free : /\ nets' = [nets EXCEPT ![n] = "other"]
                          /\ UNCHANGED <<sup, saw>>
       \/ \E n \in Paths \ Free : /\ \E s \in Selecting(n) : Becomes(s)
                                  /\ UNCHANGED nets
       \/ \E n \in Paths \ Free : /\ nets' = [nets EXCEPT ![n] = "none"]
                                  /\ \E s \in Removing(n) : Becomes(s)
       \/ /\ Becomes(Set("disconnected", 1, 0))
          /\ UNCHANGED nets
    /\ UNCHANGED <<engine, lost, faults>>

(* A restart forgets every network; their paths are used again.            *)
Restart ==
    /\ faults < MaxFaults
    /\ faults' = faults + 1 /\ meddled' = TRUE
    /\ nets' = [n \in Paths |-> "none"]
    /\ Becomes(Set("inactive", 0, 0))
    /\ UNCHANGED <<engine, lost, others>>

Hang ==
    /\ ~hung /\ faults < MaxFaults
    /\ faults' = faults + 1 /\ hung' = TRUE
    /\ UNCHANGED <<engine, sup, nets, saw, meddled, lost, others>>

(* Time has passed meanwhile, the deadline of a blocked wait with it.      *)
Resume ==
    /\ hung
    /\ hung' = FALSE
    /\ left' \in IF pc \in {"state", "reason"} THEN 0 .. left ELSE {left}
    /\ UNCHANGED <<pc, prof, path, slot, read, result>>
    /\ UNCHANGED <<sup, nets, saw, meddled, lost, faults, others>>

-----------------------------------------------------------------------------
(* The engine and its calls.                                               *)

Goto(next) == pc' = next /\ UNCHANGED <<prof, path, slot, read, left, result>>

Return(r, s) ==
    /\ pc' = "idle" /\ result' = r /\ slot' = s
    /\ UNCHANGED <<prof, path, read, left>>

(* A call, or the GetInterface before it, fails: the bus is unavailable.   *)
Fails ==
    /\ faults < MaxFaults
    /\ faults' = faults + 1 /\ lost' = TRUE
    /\ UNCHANGED <<sup, nets, saw, meddled, others>>

World == <<sup, nets, saw, meddled, lost, faults, others>>

(* retrieve_passphrase, EnvSecretProvider.                                 *)
HasPassphrase(p) == p.km \in {"WpaPsk", "Sae"} => p.secret

(* activate: refused, before any call, while a network is active, for      *)
(* another type or another interface, for WPA-EAP, without a passphrase.   *)
Activate(p, ours) ==
    /\ pc = "idle"
    /\ IF slot # <<>> \/ p.km \in {"wired", "WpaEap"} \/ ~ours \/ ~HasPassphrase(p)
       THEN Return("Refused", slot) /\ UNCHANGED World
       ELSE /\ pc' = "add" /\ prof' = p /\ path' = 0 /\ result' = "none"
            /\ saw' = {} /\ meddled' = FALSE /\ lost' = FALSE
            /\ UNCHANGED <<slot, read, left, sup, nets, faults, others>>

AddNetwork ==
    /\ pc = "add"
    /\ \/ \E n \in Free : /\ nets' = [nets EXCEPT ![n] = "us"]
                          /\ pc' = "select" /\ path' = n
                          /\ UNCHANGED <<prof, slot, read, left, result, sup, saw,
                                         meddled, lost, faults, others>>
       \/ ((Free = {} /\ UNCHANGED World) \/ Fails) /\ Return("Rejected", slot)

(* The select and the deadline of the wait; a network that is gone is      *)
(* refused.                                                                *)
SelectNetwork ==
    /\ pc = "select"
    /\ \/ /\ nets[path] # "none"
          /\ \E s \in Selecting(path) : sup' = s /\ saw' = Facts(s)
          /\ pc' = "state" /\ left' = Timeout
          /\ UNCHANGED <<prof, path, slot, read, result, nets, meddled, lost,
                         faults, others>>
       \/ ((nets[path] = "none" /\ UNCHANGED World) \/ Fails)
          /\ pc' = "cleanup" /\ result' = "Bus"
          /\ UNCHANGED <<prof, path, slot, read, left>>

GetState ==
    /\ pc = "state"
    /\ \/ /\ read' = sup.state /\ pc' = "reason"
          /\ UNCHANGED <<prof, path, slot, left, result, World>>
       \/ /\ Fails
          /\ pc' = "cleanup" /\ result' = "Bus"
          /\ UNCHANGED <<prof, path, slot, read, left>>

(* Bug: an association that has not finished its handshake counts.         *)
MutClassifyState(state, reason) ==
    CASE state \in {"completed", "busy"}          -> "Ok"
      [] state = "disconnected" /\ reason # 0 -> "Disassociated"
      [] state = "inactive"                   -> "NotConnected"
      [] OTHER                                -> "ongoing"

ClassifyState(state, reason) ==
    CASE state = "completed"                  -> "Ok"
      [] state = "disconnected" /\ reason # 0 -> "Disassociated"
      [] state = "inactive"                   -> "NotConnected"
      [] OTHER                                -> "ongoing"

(* The reason is read by a second call, the two are classified, and only   *)
(* then is the deadline looked at.                                         *)
GetReason ==
    LET verdict == ClassifyState(read, sup.reason) IN
    /\ pc = "reason"
    /\ \/ /\ verdict = "Ok"
          /\ Return("Ok", <<prof.id, path>>)
          /\ UNCHANGED World
       \/ /\ verdict = "ongoing" /\ left # 0
          /\ Goto("sleep")
          /\ UNCHANGED World
       \/ /\ verdict # "Ok" /\ (verdict = "ongoing" => left = 0)
          /\ pc' = "cleanup"
          /\ result' = IF verdict = "ongoing" THEN "Timeout" ELSE verdict
          /\ UNCHANGED <<prof, path, slot, read, left, World>>
       \/ /\ Fails
          /\ pc' = "cleanup" /\ result' = "Bus"
          /\ UNCHANGED <<prof, path, slot, read, left>>

(* Bug: every poll starts the timeout again.                               *)
MutSleep ==
    /\ pc = "sleep"
    /\ pc' = "state" /\ left' = Timeout
    /\ UNCHANGED <<prof, path, slot, read, result, World>>

Sleep ==
    /\ pc = "sleep"
    /\ pc' = "state" /\ left' = left - 1
    /\ UNCHANGED <<prof, path, slot, read, result, World>>

(* RemoveNetwork of a failed activation; its own failure is ignored.       *)
Cleanup ==
    /\ pc = "cleanup"
    /\ \/ /\ nets' = [nets EXCEPT ![path] = "none"]
          /\ \E s \in Removing(path) : Becomes(s)
          /\ UNCHANGED <<meddled, lost, faults, others>>
       \/ Fails
    /\ Return(result, slot)

(* deactivate: disconnect and remove, whatever the first answers; the      *)
(* slot is cleared whatever either answers.                                *)
Deactivate(p) ==
    /\ pc = "idle"
    /\ IF slot = <<>> THEN Return("Refused", slot) /\ UNCHANGED World
       ELSE IF slot[1] # p.id THEN Return("Refused", slot) /\ UNCHANGED World
       ELSE /\ pc' = "disconnect" /\ path' = slot[2] /\ result' = "none"
            /\ saw' = {} /\ meddled' = FALSE /\ lost' = FALSE
            /\ UNCHANGED <<prof, slot, read, left, sup, nets, faults, others>>

Disconnect ==
    /\ pc = "disconnect"
    /\ \/ /\ Becomes(Set("disconnected", 1, 0))
          /\ UNCHANGED <<nets, meddled, lost, faults, others>>
       \/ Fails
    /\ Goto("remove")

RemoveNetwork ==
    /\ pc = "remove"
    /\ \/ /\ nets[path] # "none"
          /\ nets' = [nets EXCEPT ![path] = "none"]
          /\ \E s \in Removing(path) : Becomes(s)
          /\ UNCHANGED <<meddled, lost, faults, others>>
          /\ Return(IF lost THEN "Bus" ELSE "Down", <<>>)
       \/ ((nets[path] = "none" /\ UNCHANGED World) \/ Fails) /\ Return("Bus", <<>>)

-----------------------------------------------------------------------------

Init ==
    /\ pc = "idle" /\ prof = NoProfile /\ path = 0 /\ slot = <<>>
    /\ read = "inactive" /\ left = 0 /\ result = "none"
    /\ sup \in { Set("inactive", 0, 0), Set("disconnected", 1, 0) }
    /\ nets = [n \in Paths |-> "none"]
    /\ saw = {} /\ meddled = FALSE /\ lost = FALSE /\ faults = 0 /\ others = 0
    /\ hung = FALSE

(* A call comes back, with an answer or an error, unless it is left        *)
(* unanswered.                                                             *)
Call ==
    /\ ~hung
    /\ \/ AddNetwork \/ SelectNetwork \/ GetState \/ GetReason \/ Cleanup
       \/ Disconnect \/ RemoveNetwork

EngineStep == (Call \/ Sleep) /\ UNCHANGED hung

(* The engine is called.                                                   *)
Request ==
    /\ \/ \E p \in Profiles, ours \in BOOLEAN : Activate(p, ours)
       \/ \E p \in Profiles : Deactivate(p)
    /\ UNCHANGED hung

SupplicantStep ==
    /\ ~hung /\ UNCHANGED hung
    /\ Associate \/ Drop \/ Retry \/ OtherClient \/ Restart

Next == Request \/ EngineStep \/ SupplicantStep \/ Hang \/ Resume

(* A thread that is in a call goes on when the call comes back, and sleep  *)
(* returns. This takes a supplicant that answers at all to do so in the    *)
(* end; one that has stopped answering is not assumed to start again.      *)
Fairness == WF_vars(EngineStep)

Spec == Init /\ [][Next]_vars /\ Fairness

-----------------------------------------------------------------------------
(* Properties.                                                             *)

(* Types of the engine's state and of what it reads of the supplicant.     *)
TypeOK ==
    /\ pc \in {"idle", "add", "select", "state", "reason", "sleep", "cleanup",
               "disconnect", "remove"}
    /\ path \in 0 .. MaxPaths /\ read \in States /\ left \in 0 .. Timeout
    /\ slot = <<>> \/ slot[2] \in Paths
    /\ nets \in [Paths -> {"none", "us", "other"}]
    /\ sup.state \in States /\ sup.current \in 0 .. MaxPaths

Returns(r) == pc # "idle" /\ pc' = "idle" /\ result' = r

(* What an activation reports did happen between the select and the        *)
(* report, and is about its own network unless another client or a         *)
(* restart came in: success means that it was up; a failure means that     *)
(* the supplicant was in the state it names, and leaves neither the        *)
(* network nor the slot behind unless a call failed. The two properties    *)
(* are read apart: "disassociated" may join a state with the reason of an  *)
(* earlier network, and all that is true of it is that both were seen.     *)
HonestReport ==
    /\ Returns("Ok") =>
         /\ "completed" \in saw
         /\ meddled \/ "ours" \in saw
         /\ slot' = <<prof.id, path>> /\ (meddled \/ nets[path] = "us")
    /\ Returns("Disassociated") => {"disconnected", "reason"} \subseteq saw
    /\ Returns("NotConnected")  => "inactive" \in saw
    /\ Returns("Timeout") => left = 0 /\ saw \cap {"disconnected", "busy"} # {}
    /\ \A r \in {"Disassociated", "NotConnected", "Timeout"} :
          Returns(r) => slot' = <<>> /\ (lost' \/ nets'[path] # "us")

OutcomeIsHonest == [][HonestReport]_vars

(* An engine call ends if the supplicant goes on answering: the deadline   *)
(* bounds the wait, however often the supplicant reconnects and is dropped *)
(* again, and a call that was held up for a time picks up where it was.    *)
WaitEnds == <>[]~hung => (pc # "idle" ~> pc = "idle")

(* wait_for_completed "Blocks until association reaches `completed`, a     *)
(* terminal failure, or `timeout` elapses".                                *)
TimeoutElapses ==
    pc \in {"state", "reason", "sleep"} ~> pc \notin {"state", "reason", "sleep"}

=============================================================================
