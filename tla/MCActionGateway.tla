-------------------------- MODULE MCActionGateway --------------------------
(* TLC instance of ActionGateway: two callers race for one key. *)
EXTENDS ActionGateway, TLC

MCRun == {1}
MCClock == {0}
MCBothModes == {"unsafe", "provider_idempotent"}
MCSymmetry == Permutations(Caller) \cup Permutations(Body)
=============================================================================
