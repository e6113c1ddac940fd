------------------------- MODULE MCCredentialHandoff -------------------------
(* Two accounts for the model checker.                                     *)
EXTENDS CredentialHandoff

CONSTANTS alice, bob

MCUsers == {alice, bob}
=============================================================================
