---------------------------- MODULE MCMessageView ----------------------------
(* Two accounts and two chat screens for the model checker.                *)
EXTENDS MessageView

CONSTANTS alice, bob, chat1, chat2

MCUsers == {alice, bob}
MCScreens == {chat1, chat2}
=============================================================================
