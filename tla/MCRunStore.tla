----------------------------- MODULE MCRunStore -----------------------------
(* TLC instance of RunStore: two Runs, of one thread or of two. *)
EXTENDS RunStore, TLC

MCRun == 1 .. 2
MCClock == 0 .. 1

ThreadSymmetry == Permutations(Thread)
=============================================================================
