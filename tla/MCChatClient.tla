--------------------------- MODULE MCChatClient ---------------------------
(* Instances of ChatClient for TLC.                                        *)
EXTENDS ChatClient, TLC

CONSTANTS u1, u2
=============================================================================
