---------------------------- MODULE MCQuarantine ----------------------------
(* TLC instance of Quarantine: a Run that writes, its successor in the thread *)
(* and two operators.                                                         *)
EXTENDS Quarantine, TLC

MCRun == {1, 2}
MCWriter == {1}
MCClock == {0}
MCBothModes == {"unsafe", "provider_idempotent"}
MCSymmetry == Permutations(Operator)
=============================================================================
