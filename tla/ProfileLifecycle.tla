-------------------------- MODULE ProfileLifecycle --------------------------
(***************************************************************************)
(* What the activation manager promises for each profile, with no list of  *)
(* entries, no handles and no events: a profile is down, up, or has failed *)
(* in this daemon's lifetime.                                              *)
(***************************************************************************)
CONSTANT ProfileIds

VARIABLE status   \* one of "Down", "Up", "Failed" for each profile

Init == status = [p \in ProfileIds |-> "Down"]

(* An activation attempt ends up or failed.                                *)
Attempt(p) ==
    /\ status[p] = "Down"
    /\ \E s \in {"Up", "Failed"} : status' = [status EXCEPT ![p] = s]

(* Only what is up is taken down, and that may fail too.                   *)
TakeDown(p) ==
    /\ status[p] = "Up"
    /\ \E s \in {"Down", "Failed"} : status' = [status EXCEPT ![p] = s]

Next == \E p \in ProfileIds : Attempt(p) \/ TakeDown(p)

Spec == Init /\ [][Next]_status

=============================================================================
