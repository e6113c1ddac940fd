---------------------------- MODULE MCMessageStore ----------------------------
(* Two accounts for the model checker.                                     *)
EXTENDS MessageStore

CONSTANTS alice, bob

MCUsers == {alice, bob}
=============================================================================
