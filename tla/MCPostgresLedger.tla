-------------------------- MODULE MCPostgresLedger --------------------------
(* TLC instance of PostgresLedger: one load per group of methods that share  *)
(* rows, each on three connections.                                            *)
EXTENDS PostgresLedger, TLC

MCRun == {1, 2}

Start ==
  {"create_or_get_execution", "mark_running", "_finalize_execution", "claim_step",
   "_finalize_step", "recover_interrupted_step", "append_event"}

Action ==
  {"claim_step", "prepare_external_action", "begin_external_action_dispatch",
   "retry_external_action_dispatch", "finalize_external_action",
   "finalize_reconciliation_unknown", "_finalize_execution"}

Parking ==
  {"claim_step", "prepare_external_action", "begin_external_action_dispatch",
   "finalize_external_action", "quarantine_checkpoint_conflict",
   "apply_quarantine_resolution", "commit_completed_run"}

Replay == {"claim_step", "_finalize_step", "reuse_completed_step", "_finalize_execution"}

Memory == {"upsert_from_run", "upsert", "forget_memory", "get_or_create_run_snapshot"}

Loaded(ms, rs, bs, attempts, claims) ==
  [methods |-> ms, runs |-> rs, besides |-> bs, max_attempts |-> attempts, max_claims |-> claims]

MCLoad ==
  {Loaded(Start, {1}, {}, 2, 2),
   Loaded(Action, {1}, {"cancel"}, 1, 2),
   Loaded(Parking, {1}, {"foreign"}, 1, 2),
   Loaded(Replay, {1, 2}, {}, 1, 1),
   Loaded(Memory, {1}, {}, 2, 2)}

MCSymmetry == Permutations(Session)
=============================================================================
