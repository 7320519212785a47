------------------------- MODULE MCHelpConversation -------------------------
(* Instances of HelpConversation for TLC.                                  *)
EXTENDS HelpConversation
=============================================================================
