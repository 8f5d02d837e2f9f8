------------------------- MODULE MCSupplicantClient -------------------------
(* A network with a passphrase, and one whose passphrase is missing; two   *)
(* faults, so that a call that was held up can fail, and two calls of      *)
(* other clients, which can add a network and select it.                   *)
EXTENDS SupplicantClient

MCProfiles == { [id |-> 1, km |-> "WpaPsk", secret |-> TRUE],
                [id |-> 2, km |-> "Sae", secret |-> FALSE] }

=============================================================================
