------------------------- MODULE MCPostgresRunStore -------------------------
(* TLC instance of PostgresRunStore: two Runs of one thread, two connections. *)
EXTENDS PostgresRunStore, TLC

MCRun == 1 .. 2
MCClock == 0 .. 1

SessionSymmetry == Permutations(Session)
=============================================================================
