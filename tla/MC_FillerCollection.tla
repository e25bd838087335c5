------------------------ MODULE MC_FillerCollection ------------------------
(* A collection small enough for TLC. *)
EXTENDS FillerCollection, TLC

CONSTANTS env, config, flag, f1, f2

ThreeTags == {env, config, flag}
TwoFillers == {f1, f2}
=============================================================================
