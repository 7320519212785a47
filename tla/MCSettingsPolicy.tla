-------------------------- MODULE MCSettingsPolicy --------------------------
(* Two settings, two invalidation rows; the server forces one setting, the  *)
(* other one, or lifts the policy.                                          *)
EXTENDS SettingsPolicy, TLC

CONSTANTS a, b, f1, f2

MCConfigs == {[bypass |-> FALSE, managed |-> (a :> FALSE)],
              [bypass |-> FALSE, managed |-> (b :> FALSE)],
              [bypass |-> TRUE, managed |-> Nothing]}
=============================================================================
