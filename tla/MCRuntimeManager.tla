-------------------------- MODULE MCRuntimeManager --------------------------
(* Small instances of RuntimeManager. *)
EXTENDS RuntimeManager, TLC

MCOneRun == {1}
MCTwoRuns == 1 .. 2

\* The clock stands still; Tick moves the deadlines.
MCClock == {0}

\* Two processes and two Runs of one thread: any two of a crash, a starved
\* heartbeat and an undecided external action.
MCThread == [crash |-> 1, stop |-> 0, fault |-> 0, late |-> 1, pending |-> 1,
             cancel |-> 0, any |-> 2]

\* One process with two workers: any two disturbances, of all kinds.
MCAnyTwo == [crash |-> 1, stop |-> 1, fault |-> 1, late |-> 1, pending |-> 1,
             cancel |-> 1, any |-> 2]

ManagerSymmetry == Permutations(Manager)
=============================================================================
