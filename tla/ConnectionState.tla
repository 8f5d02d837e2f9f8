-------------------------- MODULE ConnectionState --------------------------
(***************************************************************************)
(* The typed lifecycle of an active connection (connection/state.rs): the  *)
(* states, the jumps transition_to allows and the events a consumer of the *)
(* activation manager sees.                                                *)
(***************************************************************************)

ConnectionStates ==
    { "Unknown", "Disconnected", "Preparing", "Configuring",
      "Activating", "Activated", "Deactivating", "Failed" }

LegalTransitions ==
    { <<"Unknown", "Disconnected">>,
      <<"Disconnected", "Preparing">>,
      <<"Preparing", "Configuring">>,   <<"Preparing", "Failed">>,
      <<"Configuring", "Activating">>,  <<"Configuring", "Failed">>,
      <<"Activating", "Activated">>,    <<"Activating", "Failed">>,
      <<"Activated", "Deactivating">>,  <<"Activated", "Failed">>,
      <<"Deactivating", "Disconnected">>, <<"Deactivating", "Failed">>,
      <<"Failed", "Disconnected">> }

(* A plausible slip in the table: teardown may only fail.                  *)
MutCanTransitionTo(from, to) ==
    <<from, to>> \in LegalTransitions \ {<<"Deactivating", "Disconnected">>}

CanTransitionTo(from, to) == <<from, to>> \in LegalTransitions

StateChanged(id, profile, from, to) ==
    [kind |-> "StateChanged", active_id |-> id, profile_id |-> profile,
     previous |-> from, current |-> to]

(* The outcome events: "Activated", "Deactivated" and "Failed".            *)
Outcome(what, id, profile) ==
    [kind |-> what, active_id |-> id, profile_id |-> profile]

=============================================================================
