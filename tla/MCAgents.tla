------------------------------ MODULE MCAgents ------------------------------
(***************************************************************************)
(* Instances of Agents: one travel Run with two attempts, and a release    *)
(* Run with one attempt that another replays in up to two.                 *)
(***************************************************************************)
EXTENDS Agents, TLC

MCRun == {1, 2, 3}
MCTravelRun == {1}
MCReleaseRun == {2, 3}
MCClock == {0}
MCSteps == {1, 2, 3}
MCAttemptsOf == 1 :> 2 @@ 2 :> 1 @@ 3 :> 2
MCThreadOf == 1 :> "t1" @@ 2 :> "t2" @@ 3 :> "t2"
MCTravel == {{1}}
MCOffered == {{1}, {2, 3}}

\* Two checks and the evidence step that depends on both.
MCGraph == 1 :> {} @@ 2 :> {} @@ 3 :> {1, 2}
MCPlain == [manifest |-> [n \in MCSteps |-> "m1"], replay |-> [source |-> 0, steps |-> {}]]
MCReplay(m, s) ==
  2 :> MCPlain @@ 3 :> [manifest |-> [n \in MCSteps |-> IF n = 1 THEN m ELSE "m1"],
                        replay |-> [source |-> 2, steps |-> s]]
MCRequest == {MCReplay("m1", {3}), MCReplay("m2", {3}),
              2 :> MCPlain @@ 3 :> MCPlain}

MCSymmetry == Permutations(Value)
=============================================================================
