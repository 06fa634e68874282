------------------------ MODULE PostgresLedgerProofs ------------------------
(***************************************************************************)
(* Proofs about PostgresLedger, for any number of connections, Runs and    *)
(* calls.  The order in which the methods lock their rows is all that is   *)
(* used of their statements (Disciplined); from it follows that nobody     *)
(* changes what a transaction has read until it ends, and the rest from    *)
(* that.                                                                   *)
(***************************************************************************)
EXTENDS PostgresLedger, TLAPS

-----------------------------------------------------------------------------
(* The programs of the methods as lists of statements. *)

\* Two sequences joined are the sequence that has the elements of both.
LEMMA Joined ==
  ASSUME NEW S, NEW u \in Seq(S), NEW v \in Seq(S), NEW w \in Seq(S),
         Len(w) = Len(u) + Len(v),
         \A i \in 1 .. Len(u) : w[i] = u[i],
         \A i \in 1 .. Len(v) : w[Len(u) + i] = v[i]
  PROVE  u \o v = w
<1> DEFINE x == u \o v
<1>1. x \in Seq(S) /\ Len(x) = Len(w)
  OBVIOUS
<1>2. ASSUME NEW i \in 1 .. Len(w)
      PROVE  x[i] = w[i]
  <2>1. CASE i <= Len(u)
    BY <2>1
  <2>2. CASE ~(i <= Len(u))
    <3> DEFINE j == i - Len(u)
    <3>1. j \in 1 .. Len(v) /\ i = Len(u) + j
      BY <2>2
    <3> QED
      BY <3>1, <2>2
  <2> QED
    BY <2>1, <2>2
<1> HIDE DEF x
<1>3. x = w
  BY <1>1, <1>2
<1> QED
  BY <1>3 DEF x

\* The joins that the programs are written with.
LEMMA Joins ==
  /\ \A a : <<>> \o <<a>> = <<a>>
  /\ \A a, b : <<a>> \o <<b>> = <<a, b>>
  /\ \A a, b, c : <<a, b>> \o <<c>> = <<a, b, c>>
  /\ \A a, b, c, d : <<a, b, c>> \o <<d>> = <<a, b, c, d>>
  /\ \A a, b, c, d, e : <<a, b, c, d>> \o <<e>> = <<a, b, c, d, e>>
  /\ \A a, b, c, d, e, f, g : <<a, b, c, d, e, f>> \o <<g>> = <<a, b, c, d, e, f, g>>
  /\ \A a, b, c : <<a>> \o <<b, c>> = <<a, b, c>>
  /\ \A a, b, c, d : <<a, b>> \o <<c, d>> = <<a, b, c, d>>
  /\ \A a, b, c, d : <<a>> \o <<b, c, d>> = <<a, b, c, d>>
  /\ \A a, b, c, d, e : <<a>> \o <<b, c, d, e>> = <<a, b, c, d, e>>
  /\ \A a, b, c, d, e, f : <<a>> \o <<b, c, d, e, f>> = <<a, b, c, d, e, f>>
<1>1. \A a : <<>> \o <<a>> = <<a>>
  <2> TAKE a
  <2> DEFINE S == {a}
             u == <<>>
             v == <<a>>
             w == <<a>>
  <2>1. u \in Seq(S) /\ v \in Seq(S) /\ w \in Seq(S) /\ Len(w) = Len(u) + Len(v)
    OBVIOUS
  <2>2. \A i \in 1 .. Len(u) : w[i] = u[i]
    OBVIOUS
  <2>3. \A i \in 1 .. Len(v) : w[Len(u) + i] = v[i]
    OBVIOUS
  <2> HIDE DEF u, v, w, S
  <2>4. u \o v = w
    BY Zenon, <2>1, <2>2, <2>3, Joined
  <2> QED
    BY Zenon, <2>4 DEF u, v, w
<1>2. \A a, b : <<a>> \o <<b>> = <<a, b>>
  <2> TAKE a, b
  <2> DEFINE S == {a, b}
             u == <<a>>
             v == <<b>>
             w == <<a, b>>
  <2>1. u \in Seq(S) /\ v \in Seq(S) /\ w \in Seq(S) /\ Len(w) = Len(u) + Len(v)
    OBVIOUS
  <2>2. \A i \in 1 .. Len(u) : w[i] = u[i]
    OBVIOUS
  <2>3. \A i \in 1 .. Len(v) : w[Len(u) + i] = v[i]
    OBVIOUS
  <2> HIDE DEF u, v, w, S
  <2>4. u \o v = w
    BY Zenon, <2>1, <2>2, <2>3, Joined
  <2> QED
    BY Zenon, <2>4 DEF u, v, w
<1>3. \A a, b, c : <<a, b>> \o <<c>> = <<a, b, c>>
  <2> TAKE a, b, c
  <2> DEFINE S == {a, b, c}
             u == <<a, b>>
             v == <<c>>
             w == <<a, b, c>>
  <2>1. u \in Seq(S) /\ v \in Seq(S) /\ w \in Seq(S) /\ Len(w) = Len(u) + Len(v)
    OBVIOUS
  <2>2. \A i \in 1 .. Len(u) : w[i] = u[i]
    OBVIOUS
  <2>3. \A i \in 1 .. Len(v) : w[Len(u) + i] = v[i]
    OBVIOUS
  <2> HIDE DEF u, v, w, S
  <2>4. u \o v = w
    BY Zenon, <2>1, <2>2, <2>3, Joined
  <2> QED
    BY Zenon, <2>4 DEF u, v, w
<1>4. \A a, b, c, d : <<a, b, c>> \o <<d>> = <<a, b, c, d>>
  <2> TAKE a, b, c, d
  <2> DEFINE S == {a, b, c, d}
             u == <<a, b, c>>
             v == <<d>>
             w == <<a, b, c, d>>
  <2>1. u \in Seq(S) /\ v \in Seq(S) /\ w \in Seq(S) /\ Len(w) = Len(u) + Len(v)
    OBVIOUS
  <2>2. \A i \in 1 .. Len(u) : w[i] = u[i]
    OBVIOUS
  <2>3. \A i \in 1 .. Len(v) : w[Len(u) + i] = v[i]
    OBVIOUS
  <2> HIDE DEF u, v, w, S
  <2>4. u \o v = w
    BY Zenon, <2>1, <2>2, <2>3, Joined
  <2> QED
    BY Zenon, <2>4 DEF u, v, w
<1>5. \A a, b, c, d, e : <<a, b, c, d>> \o <<e>> = <<a, b, c, d, e>>
  <2> TAKE a, b, c, d, e
  <2> DEFINE S == {a, b, c, d, e}
             u == <<a, b, c, d>>
             v == <<e>>
             w == <<a, b, c, d, e>>
  <2>1. u \in Seq(S) /\ v \in Seq(S) /\ w \in Seq(S) /\ Len(w) = Len(u) + Len(v)
    OBVIOUS
  <2>2. \A i \in 1 .. Len(u) : w[i] = u[i]
    OBVIOUS
  <2>3. \A i \in 1 .. Len(v) : w[Len(u) + i] = v[i]
    OBVIOUS
  <2> HIDE DEF u, v, w, S
  <2>4. u \o v = w
    BY Zenon, <2>1, <2>2, <2>3, Joined
  <2> QED
    BY Zenon, <2>4 DEF u, v, w
<1>6. \A a, b, c, d, e, f, g : <<a, b, c, d, e, f>> \o <<g>> = <<a, b, c, d, e, f, g>>
  <2> TAKE a, b, c, d, e, f, g
  <2> DEFINE S == {a, b, c, d, e, f, g}
             u == <<a, b, c, d, e, f>>
             v == <<g>>
             w == <<a, b, c, d, e, f, g>>
  <2>1. u \in Seq(S) /\ v \in Seq(S) /\ w \in Seq(S) /\ Len(w) = Len(u) + Len(v)
    OBVIOUS
  <2>2. \A i \in 1 .. Len(u) : w[i] = u[i]
    OBVIOUS
  <2>3. \A i \in 1 .. Len(v) : w[Len(u) + i] = v[i]
    OBVIOUS
  <2> HIDE DEF u, v, w, S
  <2>4. u \o v = w
    BY Zenon, <2>1, <2>2, <2>3, Joined
  <2> QED
    BY Zenon, <2>4 DEF u, v, w
<1>7. \A a, b, c : <<a>> \o <<b, c>> = <<a, b, c>>
  <2> TAKE a, b, c
  <2> DEFINE S == {a, b, c}
             u == <<a>>
             v == <<b, c>>
             w == <<a, b, c>>
  <2>1. u \in Seq(S) /\ v \in Seq(S) /\ w \in Seq(S) /\ Len(w) = Len(u) + Len(v)
    OBVIOUS
  <2>2. \A i \in 1 .. Len(u) : w[i] = u[i]
    OBVIOUS
  <2>3. \A i \in 1 .. Len(v) : w[Len(u) + i] = v[i]
    OBVIOUS
  <2> HIDE DEF u, v, w, S
  <2>4. u \o v = w
    BY Zenon, <2>1, <2>2, <2>3, Joined
  <2> QED
    BY Zenon, <2>4 DEF u, v, w
<1>8. \A a, b, c, d : <<a, b>> \o <<c, d>> = <<a, b, c, d>>
  <2> TAKE a, b, c, d
  <2> DEFINE S == {a, b, c, d}
             u == <<a, b>>
             v == <<c, d>>
             w == <<a, b, c, d>>
  <2>1. u \in Seq(S) /\ v \in Seq(S) /\ w \in Seq(S) /\ Len(w) = Len(u) + Len(v)
    OBVIOUS
  <2>2. \A i \in 1 .. Len(u) : w[i] = u[i]
    OBVIOUS
  <2>3. \A i \in 1 .. Len(v) : w[Len(u) + i] = v[i]
    OBVIOUS
  <2> HIDE DEF u, v, w, S
  <2>4. u \o v = w
    BY Zenon, <2>1, <2>2, <2>3, Joined
  <2> QED
    BY Zenon, <2>4 DEF u, v, w
<1>9. \A a, b, c, d : <<a>> \o <<b, c, d>> = <<a, b, c, d>>
  <2> TAKE a, b, c, d
  <2> DEFINE S == {a, b, c, d}
             u == <<a>>
             v == <<b, c, d>>
             w == <<a, b, c, d>>
  <2>1. u \in Seq(S) /\ v \in Seq(S) /\ w \in Seq(S) /\ Len(w) = Len(u) + Len(v)
    OBVIOUS
  <2>2. \A i \in 1 .. Len(u) : w[i] = u[i]
    OBVIOUS
  <2>3. \A i \in 1 .. Len(v) : w[Len(u) + i] = v[i]
    OBVIOUS
  <2> HIDE DEF u, v, w, S
  <2>4. u \o v = w
    BY Zenon, <2>1, <2>2, <2>3, Joined
  <2> QED
    BY Zenon, <2>4 DEF u, v, w
<1>10. \A a, b, c, d, e : <<a>> \o <<b, c, d, e>> = <<a, b, c, d, e>>
  <2> TAKE a, b, c, d, e
  <2> DEFINE S == {a, b, c, d, e}
             u == <<a>>
             v == <<b, c, d, e>>
             w == <<a, b, c, d, e>>
  <2>1. u \in Seq(S) /\ v \in Seq(S) /\ w \in Seq(S) /\ Len(w) = Len(u) + Len(v)
    OBVIOUS
  <2>2. \A i \in 1 .. Len(u) : w[i] = u[i]
    OBVIOUS
  <2>3. \A i \in 1 .. Len(v) : w[Len(u) + i] = v[i]
    OBVIOUS
  <2> HIDE DEF u, v, w, S
  <2>4. u \o v = w
    BY Zenon, <2>1, <2>2, <2>3, Joined
  <2> QED
    BY Zenon, <2>4 DEF u, v, w
<1>11. \A a, b, c, d, e, f : <<a>> \o <<b, c, d, e, f>> = <<a, b, c, d, e, f>>
  <2> TAKE a, b, c, d, e, f
  <2> DEFINE S == {a, b, c, d, e, f}
             u == <<a>>
             v == <<b, c, d, e, f>>
             w == <<a, b, c, d, e, f>>
  <2>1. u \in Seq(S) /\ v \in Seq(S) /\ w \in Seq(S) /\ Len(w) = Len(u) + Len(v)
    OBVIOUS
  <2>2. \A i \in 1 .. Len(u) : w[i] = u[i]
    OBVIOUS
  <2>3. \A i \in 1 .. Len(v) : w[Len(u) + i] = v[i]
    OBVIOUS
  <2> HIDE DEF u, v, w, S
  <2>4. u \o v = w
    BY Zenon, <2>1, <2>2, <2>3, Joined
  <2> QED
    BY Zenon, <2>4 DEF u, v, w
<1> QED
  BY Zenon, <1>1, <1>2, <1>3, <1>4, <1>5, <1>6, <1>7, <1>8, <1>9, <1>10, <1>11

\* Several of them in a row.
LEMMA Chains ==
  /\ \A a, b, c : <<a>> \o <<b>> \o <<c>> = <<a, b, c>>
  /\ \A a, b : <<>> \o <<a>> \o <<b>> = <<a, b>>
  /\ \A a, b, c, d : <<a>> \o <<b, c>> \o <<d>> = <<a, b, c, d>>
  /\ \A a, b, c, d : <<a>> \o <<b>> \o <<c>> \o <<d>> = <<a, b, c, d>>
  /\ \A a, b, c, d, e, f, g : <<a>> \o <<b, c, d, e, f>> \o <<g>> = <<a, b, c, d, e, f, g>>
  /\ \A a, b, c, d, e : <<a>> \o <<b, c, d>> \o <<e>> = <<a, b, c, d, e>>
  /\ \A a, b, c, d, e : <<a>> \o <<b>> \o <<c, d>> \o <<e>> = <<a, b, c, d, e>>
<1>1. \A a, b, c : <<a>> \o <<b>> \o <<c>> = <<a, b, c>>
  <2> TAKE a, b, c
  <2>1. <<a>> \o <<b>> = <<a, b>>
    BY Joins
  <2>2. <<a, b>> \o <<c>> = <<a, b, c>>
    BY Joins
  <2> QED
    BY Zenon, <2>1, <2>2
<1>2. \A a, b : <<>> \o <<a>> \o <<b>> = <<a, b>>
  <2> TAKE a, b
  <2>1. <<>> \o <<a>> = <<a>>
    BY Joins
  <2>2. <<a>> \o <<b>> = <<a, b>>
    BY Joins
  <2> QED
    BY Zenon, <2>1, <2>2
<1>3. \A a, b, c, d : <<a>> \o <<b, c>> \o <<d>> = <<a, b, c, d>>
  <2> TAKE a, b, c, d
  <2>1. <<a>> \o <<b, c>> = <<a, b, c>>
    BY Joins
  <2>2. <<a, b, c>> \o <<d>> = <<a, b, c, d>>
    BY Joins
  <2> QED
    BY Zenon, <2>1, <2>2
<1>4. \A a, b, c, d : <<a>> \o <<b>> \o <<c>> \o <<d>> = <<a, b, c, d>>
  <2> TAKE a, b, c, d
  <2>1. <<a>> \o <<b>> = <<a, b>>
    BY Joins
  <2>2. <<a, b>> \o <<c>> = <<a, b, c>>
    BY Joins
  <2>3. <<a, b, c>> \o <<d>> = <<a, b, c, d>>
    BY Joins
  <2> QED
    BY Zenon, <2>1, <2>2, <2>3
<1>5. \A a, b, c, d, e, f, g : <<a>> \o <<b, c, d, e, f>> \o <<g>> = <<a, b, c, d, e, f, g>>
  <2> TAKE a, b, c, d, e, f, g
  <2>1. <<a>> \o <<b, c, d, e, f>> = <<a, b, c, d, e, f>>
    BY Joins
  <2>2. <<a, b, c, d, e, f>> \o <<g>> = <<a, b, c, d, e, f, g>>
    BY Joins
  <2> QED
    BY Zenon, <2>1, <2>2
<1>6. \A a, b, c, d, e : <<a>> \o <<b, c, d>> \o <<e>> = <<a, b, c, d, e>>
  <2> TAKE a, b, c, d, e
  <2>1. <<a>> \o <<b, c, d>> = <<a, b, c, d>>
    BY Joins
  <2>2. <<a, b, c, d>> \o <<e>> = <<a, b, c, d, e>>
    BY Joins
  <2> QED
    BY Zenon, <2>1, <2>2
<1>7. \A a, b, c, d, e : <<a>> \o <<b>> \o <<c, d>> \o <<e>> = <<a, b, c, d, e>>
  <2> TAKE a, b, c, d, e
  <2>1. <<a>> \o <<b>> = <<a, b>>
    BY Joins
  <2>2. <<a, b>> \o <<c, d>> = <<a, b, c, d>>
    BY Joins
  <2>3. <<a, b, c, d>> \o <<e>> = <<a, b, c, d, e>>
    BY Joins
  <2> QED
    BY Zenon, <2>1, <2>2, <2>3
<1> QED
  BY Zenon, <1>1, <1>2, <1>3, <1>4, <1>5, <1>6, <1>7

\* The statements of the methods that are put together from parts.
LEMMA Listings ==
  ASSUME NEW r, NEW q
  PROVE  /\ create_or_get_execution(r)
            = <<ForUpdate("runs", r), ForUpdate("workflow_executions", r)>>
         /\ _transition_execution(r)
            = <<ForUpdate("runs", r), ForUpdate("workflow_executions", r),
                Select("workflow_events", r)>>
         /\ claim_step(r)
            = <<ForUpdate("runs", r), ForUpdate("workflow_executions", r),
                ForUpdate("tool_calls", r), Select("workflow_events", r)>>
         /\ _finalize_step(r)
            = <<ForUpdate("runs", r), ForUpdate("workflow_executions", r),
                ForUpdate("tool_calls", r), Select("workflow_events", r)>>
         /\ recover_interrupted_step(r)
            = <<ForUpdate("runs", r), ForUpdate("workflow_executions", r),
                ForUpdate("tool_calls", r), Select("workflow_events", r)>>
         /\ reuse_completed_step(r, q)
            = <<ForUpdate("runs", r), ForShare("workflow_executions", q),
                ForUpdate("workflow_executions", r), ForShare("tool_calls", q),
                Select("external_actions", q), ForUpdate("tool_calls", r),
                Select("workflow_events", r)>>
         /\ prepare_external_action(r)
            = <<ForUpdate("runs", r), ForUpdate("workflow_executions", r),
                ForUpdate("tool_calls", r), ForUpdate("external_actions", r),
                Select("workflow_events", r)>>
         /\ begin_external_action_dispatch(r)
            = <<ForUpdate("runs", r), ForUpdate("workflow_executions", r),
                ForUpdate("external_actions", r), ForUpdate("tool_calls", r),
                Select("workflow_events", r)>>
         /\ retry_external_action_dispatch(r)
            = <<ForUpdate("runs", r), ForUpdate("workflow_executions", r),
                ForUpdate("external_actions", r), ForUpdate("tool_calls", r),
                Select("workflow_events", r)>>
         /\ _finalize_external_action(r)
            = <<ForUpdate("workflow_executions", r), ForUpdate("external_actions", r),
                ForUpdate("tool_calls", r), Select("workflow_events", r)>>
         /\ _assert_current_run_lease(r) \o _finalize_external_action(r)
            = <<ForUpdate("runs", r), ForUpdate("workflow_executions", r),
                ForUpdate("external_actions", r), ForUpdate("tool_calls", r),
                Select("workflow_events", r)>>
         /\ append_event(r)
            = <<ForUpdate("runs", r), ForUpdate("workflow_executions", r),
                Select("workflow_events", r)>>
         /\ _upsert(r, TRUE)
            = <<ForUpdate("runs", r), ForUpdate("memory_key", 0),
                Select("memory_records", 0)>>
         /\ _upsert(r, FALSE)
            = <<ForUpdate("memory_key", 0), Select("memory_records", 0)>>
         /\ forget_memory
            = <<ForUpdate("memory_key", 0), Select("memory_records", 0)>>
         /\ _get_or_create_run_snapshot(r)
            = <<ForUpdate("runs", r), Select("run_memory_snapshots", r),
                Select("offered", r)>>
<1>a. \A a, b, c : <<a>> \o <<b>> \o <<c>> = <<a, b, c>>
  BY Zenon, Chains
<1>b. \A a, b, c, d : <<a>> \o <<b, c>> \o <<d>> = <<a, b, c, d>>
  BY Zenon, Chains
<1>c. \A a, b, c, d : <<a>> \o <<b>> \o <<c>> \o <<d>> = <<a, b, c, d>>
  BY Zenon, Chains
<1>d. \A a, b, c, d, e, f, g : <<a>> \o <<b, c, d, e, f>> \o <<g>> = <<a, b, c, d, e, f, g>>
  BY Zenon, Chains
<1>e. \A a, b, c, d, e : <<a>> \o <<b, c, d>> \o <<e>> = <<a, b, c, d, e>>
  BY Zenon, Chains
<1>f. \A a, b, c, d, e : <<a>> \o <<b>> \o <<c, d>> \o <<e>> = <<a, b, c, d, e>>
  BY Zenon, Chains
<1>g. \A a, b, c, d, e : <<a>> \o <<b, c, d, e>> = <<a, b, c, d, e>>
  BY Zenon, Joins
<1>h. \A a, b, c : <<a>> \o <<b, c>> = <<a, b, c>>
  BY Zenon, Joins
<1>1. create_or_get_execution(r)
      = <<ForUpdate("runs", r), ForUpdate("workflow_executions", r)>>
  BY Zenon, Chains, Joins DEF create_or_get_execution, _assert_current_run_lease
<1>2. _transition_execution(r)
      = <<ForUpdate("runs", r), ForUpdate("workflow_executions", r),
          Select("workflow_events", r)>>
  BY Zenon, <1>a DEF _transition_execution, NextSequence, _assert_current_run_lease
<1>3. claim_step(r)
      = <<ForUpdate("runs", r), ForUpdate("workflow_executions", r),
          ForUpdate("tool_calls", r), Select("workflow_events", r)>>
  BY Zenon, <1>b DEF claim_step, NextSequence, _assert_current_run_lease
<1>4. _finalize_step(r)
      = <<ForUpdate("runs", r), ForUpdate("workflow_executions", r),
          ForUpdate("tool_calls", r), Select("workflow_events", r)>>
  BY Zenon, <1>c DEF _finalize_step, Fenced, _lock_execution_for_events, NextSequence,
       _assert_current_run_lease
<1>5. recover_interrupted_step(r)
      = <<ForUpdate("runs", r), ForUpdate("workflow_executions", r),
          ForUpdate("tool_calls", r), Select("workflow_events", r)>>
  BY Zenon, <1>c DEF recover_interrupted_step, Fenced, _lock_execution_for_events,
       NextSequence, _assert_current_run_lease
<1>6. reuse_completed_step(r, q)
      = <<ForUpdate("runs", r), ForShare("workflow_executions", q),
          ForUpdate("workflow_executions", r), ForShare("tool_calls", q),
          Select("external_actions", q), ForUpdate("tool_calls", r),
          Select("workflow_events", r)>>
  BY <1>d DEF reuse_completed_step, NextSequence, _assert_current_run_lease
<1>7. prepare_external_action(r)
      = <<ForUpdate("runs", r), ForUpdate("workflow_executions", r),
          ForUpdate("tool_calls", r), ForUpdate("external_actions", r),
          Select("workflow_events", r)>>
  BY Zenon, <1>e DEF prepare_external_action, NextSequence, _assert_current_run_lease
<1>8. begin_external_action_dispatch(r)
      = <<ForUpdate("runs", r), ForUpdate("workflow_executions", r),
          ForUpdate("external_actions", r), ForUpdate("tool_calls", r),
          Select("workflow_events", r)>>
  BY Zenon, <1>f DEF begin_external_action_dispatch, Fenced, _lock_execution_for_events,
       NextSequence, _assert_current_run_lease
<1>9. retry_external_action_dispatch(r)
      = <<ForUpdate("runs", r), ForUpdate("workflow_executions", r),
          ForUpdate("external_actions", r), ForUpdate("tool_calls", r),
          Select("workflow_events", r)>>
  BY Zenon, <1>f DEF retry_external_action_dispatch, Fenced, _lock_execution_for_events,
       NextSequence, _assert_current_run_lease
<1>10. _finalize_external_action(r)
      = <<ForUpdate("workflow_executions", r), ForUpdate("external_actions", r),
          ForUpdate("tool_calls", r), Select("workflow_events", r)>>
  BY Zenon, <1>b DEF _finalize_external_action, _lock_execution_for_events, NextSequence
<1>11. _assert_current_run_lease(r) \o _finalize_external_action(r)
      = <<ForUpdate("runs", r), ForUpdate("workflow_executions", r),
          ForUpdate("external_actions", r), ForUpdate("tool_calls", r),
          Select("workflow_events", r)>>
  BY Zenon, <1>g, <1>10 DEF _assert_current_run_lease
<1>12. append_event(r)
      = <<ForUpdate("runs", r), ForUpdate("workflow_executions", r),
          Select("workflow_events", r)>>
  BY Zenon, <1>a DEF append_event, Fenced, _lock_execution_for_events, NextSequence,
       _assert_current_run_lease
<1>13. _upsert(r, TRUE)
      = <<ForUpdate("runs", r), ForUpdate("memory_key", 0), Select("memory_records", 0)>>
  BY Zenon, <1>a DEF _upsert, _lock_memory_key, _assert_current_run_lease
<1>14. _upsert(r, FALSE)
      = <<ForUpdate("memory_key", 0), Select("memory_records", 0)>>
  BY Zenon, Chains, Joins DEF _upsert, _lock_memory_key
<1>15. forget_memory
      = <<ForUpdate("memory_key", 0), Select("memory_records", 0)>>
  BY Zenon, Chains, Joins DEF forget_memory, _lock_memory_key
<1>16. _get_or_create_run_snapshot(r)
      = <<ForUpdate("runs", r), Select("run_memory_snapshots", r), Select("offered", r)>>
  BY Zenon, <1>h DEF _get_or_create_run_snapshot, _assert_current_run_lease
<1> QED
  BY Zenon, <1>1, <1>2, <1>3, <1>4, <1>5, <1>6, <1>7, <1>8, <1>9, <1>10, <1>11, <1>12,
       <1>13, <1>14, <1>15, <1>16

-----------------------------------------------------------------------------
(* The locking discipline. *)

Table ==
  {"runs", "thread_states", "workflow_executions", "tool_calls", "external_actions",
   "workflow_events", "evidence", "memory_key", "memory_records", "run_memory_snapshots",
   "offered"}

\* The calls that a session can make.
GoodCall(c) ==
  /\ c \in [name : Method, run : Run, token : Nat, n : Nat,
            what : {"none", "running", "ready", "completed", "v", "w"} \cup Outcome]
  /\ c.name = "reuse_completed_step" => c.n \in Run /\ c.n < c.run
  /\ c.name \in {"_finalize_step", "retry_external_action_dispatch", "finalize_external_action",
                 "finalize_reconciliation_unknown"} => c.n >= 1
  /\ c.name \in {"finalize_external_action", "finalize_reconciliation_unknown"} =>
       c.what \in Outcome
  /\ c.name \in {"upsert", "upsert_from_run"} => c.what \in {"v", "w"}
  /\ c.name = "_finalize_step" => c.what \in {"completed", "failed"}
  /\ c.name \in {"mark_running", "_finalize_execution"} =>
       c.what \in {"running", "ready", "failed"}

\* Statement st of call c reads a row of a table and locks it as the table asks.
Placed(c, st) ==
  /\ st.table \in Table
  /\ IF st.table \in {"memory_key", "memory_records"} THEN st.run = 0 ELSE st.run \in Run
  /\ st.table \in {"runs", "thread_states", "evidence", "run_memory_snapshots",
                   "workflow_events"} => st.run = c.run
  /\ st.table \in {"workflow_executions", "tool_calls", "external_actions"} =>
       \/ st.run = c.run
       \/ c.name = "reuse_completed_step" /\ st.run = c.n
  /\ st.table \in {"runs", "thread_states", "memory_key"} => st.lock = "update"
  /\ st.table = "workflow_executions" =>
       st.lock = IF st.run = c.run THEN "update" ELSE "share"
  /\ st.table \in {"tool_calls", "external_actions"} /\ st.lock = "update" => st.run = c.run
  /\ st.table \notin {"runs", "thread_states", "workflow_executions", "tool_calls",
                      "external_actions", "memory_key"} => st.lock = "none"

Earlier(p, i, table, r) == \E j \in 1 .. i - 1 : p[j].table = table /\ p[j].run = r

\* The i-th statement of program p comes after those whose locks it relies on.
Ordered(c, p, i) ==
  /\ p[i].table \in {"tool_calls", "external_actions", "workflow_events", "evidence"} =>
       Earlier(p, i, "workflow_executions", p[i].run)
  /\ p[i].table \in {"thread_states", "evidence", "run_memory_snapshots"} =>
       Earlier(p, i, "runs", c.run)
  /\ p[i].table = "workflow_executions" /\ p[i].run = c.run =>
       Earlier(p, i, "runs", c.run) \/ c.name = "finalize_external_action"
  /\ p[i].table = "evidence" => Earlier(p, i, "thread_states", c.run)
  /\ p[i].table = "memory_records" => Earlier(p, i, "memory_key", 0)
  /\ p[i].table = "runs" => i = 1
  /\ p[i].lock # "none" => ~Earlier(p, i, "memory_key", 0)
  /\ p[i].table = "workflow_executions" =>
       \A j \in 1 .. i - 1 : p[j].table = "workflow_executions" => p[j].run < p[i].run

Reads(p, table, r) == \E i \in 1 .. Len(p) : p[i].table = table /\ p[i].run = r

\* The methods that write the ledger of a workflow, with an event.
LedgerMethod ==
  {"mark_running", "_finalize_execution", "append_event", "claim_step", "_finalize_step",
   "recover_interrupted_step", "reuse_completed_step", "prepare_external_action",
   "begin_external_action_dispatch", "retry_external_action_dispatch",
   "finalize_external_action", "finalize_reconciliation_unknown"}

\* The writes of call c find what they rely on among the rows that were read.
Complete(c, p) ==
  /\ c.name \in LedgerMethod => Reads(p, "workflow_events", c.run)
  /\ c.name \in {"claim_step", "prepare_external_action"} => Reads(p, "tool_calls", c.run)
  /\ c.name = "retry_external_action_dispatch" => Reads(p, "external_actions", c.run)
  /\ c.name = "reuse_completed_step" =>
       /\ Reads(p, "workflow_executions", c.n) /\ Reads(p, "tool_calls", c.n)
       /\ Reads(p, "tool_calls", c.run)
  /\ c.name = "create_or_get_execution" => Reads(p, "runs", c.run)
  /\ c.name \in {"commit_completed_run", "quarantine_checkpoint_conflict"} =>
       Reads(p, "thread_states", c.run)
  /\ c.name = "apply_quarantine_resolution" => Reads(p, "evidence", c.run)
  /\ c.name \in {"upsert", "upsert_from_run", "forget_memory"} => Reads(p, "memory_records", 0)
  /\ c.name = "get_or_create_run_snapshot" => Reads(p, "run_memory_snapshots", c.run)

Disciplined(c, p) ==
  /\ Len(p) \in Nat \ {0}
  /\ \A i \in 1 .. Len(p) : Placed(c, p[i]) /\ Ordered(c, p, i)
  /\ Complete(c, p)

\* Every method of the PostgreSQL stores keeps the discipline.
LEMMA MethodsAreDisciplined ==
  ASSUME NEW c, GoodCall(c)
  PROVE  Disciplined(c, Program(c))
<1> USE DEF ForUpdate, ForShare, Select
<1>0. c.name \in Method /\ c.run \in Run /\ c.run \in Nat /\ c.n \in Nat
  BY Zenon, PostgresLedgerAssumption DEF GoodCall
<1>r. c.name = "reuse_completed_step" => c.n \in Run /\ c.n < c.run
  BY DEF GoodCall
<1>1. CASE c.name = "create_or_get_execution"
  <2> DEFINE p == <<ForUpdate("runs", c.run), ForUpdate("workflow_executions", c.run)>>
  <2>1. Program(c) = p
    BY Zenon, <1>1, Listings DEF Program
  <2>2. Len(p) \in Nat \ {0} /\ \A i \in 1 .. Len(p) : Placed(c, p[i])
    BY <1>0, <1>1 DEF Placed, Table
  <2>3. \A i \in 1 .. Len(p) : Ordered(c, p, i)
    BY <1>0, <1>1 DEF Ordered, Earlier
  <2>4. Complete(c, p)
    BY <1>0, <1>1 DEF Complete, Reads, LedgerMethod
  <2> QED
    BY Zenon, <2>1, <2>2, <2>3, <2>4 DEF Disciplined
<1>2. CASE c.name \in {"mark_running", "_finalize_execution"}
  <2> DEFINE p == <<ForUpdate("runs", c.run), ForUpdate("workflow_executions", c.run),
                   Select("workflow_events", c.run)>>
  <2>1. Program(c) = p
    BY Zenon, <1>2, Listings DEF Program
  <2>2. Len(p) \in Nat \ {0} /\ \A i \in 1 .. Len(p) : Placed(c, p[i])
    BY <1>0, <1>2 DEF Placed, Table
  <2>3. \A i \in 1 .. Len(p) : Ordered(c, p, i)
    BY <1>0, <1>2 DEF Ordered, Earlier
  <2>4. Complete(c, p)
    BY <1>0, <1>2 DEF Complete, Reads, LedgerMethod
  <2> QED
    BY Zenon, <2>1, <2>2, <2>3, <2>4 DEF Disciplined
<1>3. CASE c.name = "append_event"
  <2> DEFINE p == <<ForUpdate("runs", c.run), ForUpdate("workflow_executions", c.run),
                   Select("workflow_events", c.run)>>
  <2>1. Program(c) = p
    BY Zenon, <1>3, Listings DEF Program
  <2>2. Len(p) \in Nat \ {0} /\ \A i \in 1 .. Len(p) : Placed(c, p[i])
    BY <1>0, <1>3 DEF Placed, Table
  <2>3. \A i \in 1 .. Len(p) : Ordered(c, p, i)
    BY <1>0, <1>3 DEF Ordered, Earlier
  <2>4. Complete(c, p)
    BY <1>0, <1>3 DEF Complete, Reads, LedgerMethod
  <2> QED
    BY Zenon, <2>1, <2>2, <2>3, <2>4 DEF Disciplined
<1>4. CASE c.name = "claim_step"
  <2> DEFINE p == <<ForUpdate("runs", c.run), ForUpdate("workflow_executions", c.run),
                   ForUpdate("tool_calls", c.run), Select("workflow_events", c.run)>>
  <2>1. Program(c) = p
    BY Zenon, <1>4, Listings DEF Program
  <2>2. Len(p) \in Nat \ {0} /\ \A i \in 1 .. Len(p) : Placed(c, p[i])
    BY <1>0, <1>4 DEF Placed, Table
  <2>3. \A i \in 1 .. Len(p) : Ordered(c, p, i)
    BY <1>0, <1>4 DEF Ordered, Earlier
  <2>4. Complete(c, p)
    BY <1>0, <1>4 DEF Complete, Reads, LedgerMethod
  <2> QED
    BY Zenon, <2>1, <2>2, <2>3, <2>4 DEF Disciplined
<1>5. CASE c.name = "_finalize_step"
  <2> DEFINE p == <<ForUpdate("runs", c.run), ForUpdate("workflow_executions", c.run),
                   ForUpdate("tool_calls", c.run), Select("workflow_events", c.run)>>
  <2>1. Program(c) = p
    BY Zenon, <1>5, Listings DEF Program
  <2>2. Len(p) \in Nat \ {0} /\ \A i \in 1 .. Len(p) : Placed(c, p[i])
    BY <1>0, <1>5 DEF Placed, Table
  <2>3. \A i \in 1 .. Len(p) : Ordered(c, p, i)
    BY <1>0, <1>5 DEF Ordered, Earlier
  <2>4. Complete(c, p)
    BY <1>0, <1>5 DEF Complete, Reads, LedgerMethod
  <2> QED
    BY Zenon, <2>1, <2>2, <2>3, <2>4 DEF Disciplined
<1>6. CASE c.name = "recover_interrupted_step"
  <2> DEFINE p == <<ForUpdate("runs", c.run), ForUpdate("workflow_executions", c.run),
                   ForUpdate("tool_calls", c.run), Select("workflow_events", c.run)>>
  <2>1. Program(c) = p
    BY Zenon, <1>6, Listings DEF Program
  <2>2. Len(p) \in Nat \ {0} /\ \A i \in 1 .. Len(p) : Placed(c, p[i])
    BY <1>0, <1>6 DEF Placed, Table
  <2>3. \A i \in 1 .. Len(p) : Ordered(c, p, i)
    BY <1>0, <1>6 DEF Ordered, Earlier
  <2>4. Complete(c, p)
    BY <1>0, <1>6 DEF Complete, Reads, LedgerMethod
  <2> QED
    BY Zenon, <2>1, <2>2, <2>3, <2>4 DEF Disciplined
<1>7. CASE c.name = "reuse_completed_step"
  <2> DEFINE p == <<ForUpdate("runs", c.run), ForShare("workflow_executions", c.n),
                   ForUpdate("workflow_executions", c.run), ForShare("tool_calls", c.n),
                   Select("external_actions", c.n), ForUpdate("tool_calls", c.run),
                   Select("workflow_events", c.run)>>
  <2>1. Program(c) = p
    BY Zenon, <1>7, Listings DEF Program
  <2>2. /\ Len(p) = 7
        /\ p[1] = [table |-> "runs", run |-> c.run, lock |-> "update"]
        /\ p[2] = [table |-> "workflow_executions", run |-> c.n, lock |-> "share"]
        /\ p[3] = [table |-> "workflow_executions", run |-> c.run, lock |-> "update"]
        /\ p[4] = [table |-> "tool_calls", run |-> c.n, lock |-> "share"]
        /\ p[5] = [table |-> "external_actions", run |-> c.n, lock |-> "none"]
        /\ p[6] = [table |-> "tool_calls", run |-> c.run, lock |-> "update"]
        /\ p[7] = [table |-> "workflow_events", run |-> c.run, lock |-> "none"]
    OBVIOUS
  <2> HIDE DEF p
  <2>3. \A i \in 1 .. Len(p) : Placed(c, p[i])
    <3>1. Placed(c, p[1]) /\ Placed(c, p[3])
      BY <1>0, <1>7, <1>r, <2>2 DEF Placed, Table
    <3>2. Placed(c, p[2])
      <4>1. c.n # c.run
        BY <1>0, <1>7, <1>r
      <4> QED
        BY <1>0, <1>7, <1>r, <2>2, <4>1 DEF Placed, Table
    <3>3. Placed(c, p[4]) /\ Placed(c, p[5]) /\ Placed(c, p[6]) /\ Placed(c, p[7])
      BY <1>0, <1>7, <1>r, <2>2 DEF Placed, Table
    <3> QED
      BY <2>2, <3>1, <3>2, <3>3
  <2>4. \A i \in 1 .. Len(p) : Ordered(c, p, i)
    <3>1. Ordered(c, p, 1) /\ Ordered(c, p, 2)
      BY <1>0, <1>7, <1>r, <2>2 DEF Ordered, Earlier
    <3>2. Ordered(c, p, 3)
      BY <1>0, <1>7, <1>r, <2>2 DEF Ordered, Earlier
    <3>3. Ordered(c, p, 4) /\ Ordered(c, p, 5)
      BY <1>0, <1>7, <1>r, <2>2 DEF Ordered, Earlier
    <3>4. Ordered(c, p, 6) /\ Ordered(c, p, 7)
      BY <1>0, <1>7, <1>r, <2>2 DEF Ordered, Earlier
    <3> QED
      BY <2>2, <3>1, <3>2, <3>3, <3>4
  <2>5. Complete(c, p)
    BY <1>0, <1>7, <1>r, <2>2 DEF Complete, Reads, LedgerMethod
  <2> QED
    BY <2>1, <2>2, <2>3, <2>4, <2>5 DEF Disciplined
<1>8. CASE c.name = "prepare_external_action"
  <2> DEFINE p == <<ForUpdate("runs", c.run), ForUpdate("workflow_executions", c.run),
                   ForUpdate("tool_calls", c.run), ForUpdate("external_actions", c.run),
                   Select("workflow_events", c.run)>>
  <2>1. Program(c) = p
    BY Zenon, <1>8, Listings DEF Program
  <2>2. Len(p) \in Nat \ {0} /\ \A i \in 1 .. Len(p) : Placed(c, p[i])
    BY <1>0, <1>8 DEF Placed, Table
  <2>3. \A i \in 1 .. Len(p) : Ordered(c, p, i)
    BY <1>0, <1>8 DEF Ordered, Earlier
  <2>4. Complete(c, p)
    BY <1>0, <1>8 DEF Complete, Reads, LedgerMethod
  <2> QED
    BY Zenon, <2>1, <2>2, <2>3, <2>4 DEF Disciplined
<1>9. CASE c.name = "begin_external_action_dispatch"
  <2> DEFINE p == <<ForUpdate("runs", c.run), ForUpdate("workflow_executions", c.run),
                   ForUpdate("external_actions", c.run), ForUpdate("tool_calls", c.run),
                   Select("workflow_events", c.run)>>
  <2>1. Program(c) = p
    BY Zenon, <1>9, Listings DEF Program
  <2>2. Len(p) \in Nat \ {0} /\ \A i \in 1 .. Len(p) : Placed(c, p[i])
    BY <1>0, <1>9 DEF Placed, Table
  <2>3. \A i \in 1 .. Len(p) : Ordered(c, p, i)
    BY <1>0, <1>9 DEF Ordered, Earlier
  <2>4. Complete(c, p)
    BY <1>0, <1>9 DEF Complete, Reads, LedgerMethod
  <2> QED
    BY Zenon, <2>1, <2>2, <2>3, <2>4 DEF Disciplined
<1>10. CASE c.name = "retry_external_action_dispatch"
  <2> DEFINE p == <<ForUpdate("runs", c.run), ForUpdate("workflow_executions", c.run),
                   ForUpdate("external_actions", c.run), ForUpdate("tool_calls", c.run),
                   Select("workflow_events", c.run)>>
  <2>1. Program(c) = p
    BY Zenon, <1>10, Listings DEF Program
  <2>2. Len(p) \in Nat \ {0} /\ \A i \in 1 .. Len(p) : Placed(c, p[i])
    BY <1>0, <1>10 DEF Placed, Table
  <2>3. \A i \in 1 .. Len(p) : Ordered(c, p, i)
    BY <1>0, <1>10 DEF Ordered, Earlier
  <2>4. Complete(c, p)
    BY <1>0, <1>10 DEF Complete, Reads, LedgerMethod
  <2> QED
    BY Zenon, <2>1, <2>2, <2>3, <2>4 DEF Disciplined
<1>11. CASE c.name = "finalize_external_action"
  <2> DEFINE p == <<ForUpdate("workflow_executions", c.run),
                   ForUpdate("external_actions", c.run), ForUpdate("tool_calls", c.run),
                   Select("workflow_events", c.run)>>
  <2>1. Program(c) = p
    BY Zenon, <1>11, Listings DEF Program
  <2>2. Len(p) \in Nat \ {0} /\ \A i \in 1 .. Len(p) : Placed(c, p[i])
    BY <1>0, <1>11 DEF Placed, Table
  <2>3. \A i \in 1 .. Len(p) : Ordered(c, p, i)
    BY <1>0, <1>11 DEF Ordered, Earlier
  <2>4. Complete(c, p)
    BY <1>0, <1>11 DEF Complete, Reads, LedgerMethod
  <2> QED
    BY Zenon, <2>1, <2>2, <2>3, <2>4 DEF Disciplined
<1>12. CASE c.name = "finalize_reconciliation_unknown"
  <2> DEFINE p == <<ForUpdate("runs", c.run), ForUpdate("workflow_executions", c.run),
                   ForUpdate("external_actions", c.run), ForUpdate("tool_calls", c.run),
                   Select("workflow_events", c.run)>>
  <2>1. Program(c) = p
    BY Zenon, <1>12, Listings DEF Program
  <2>2. Len(p) \in Nat \ {0} /\ \A i \in 1 .. Len(p) : Placed(c, p[i])
    BY <1>0, <1>12 DEF Placed, Table
  <2>3. \A i \in 1 .. Len(p) : Ordered(c, p, i)
    BY <1>0, <1>12 DEF Ordered, Earlier
  <2>4. Complete(c, p)
    BY <1>0, <1>12 DEF Complete, Reads, LedgerMethod
  <2> QED
    BY Zenon, <2>1, <2>2, <2>3, <2>4 DEF Disciplined
<1>13. CASE c.name = "commit_completed_run"
  <2> DEFINE p == <<ForUpdate("runs", c.run), ForUpdate("thread_states", c.run)>>
  <2>1. Program(c) = p
    BY <1>13 DEF Program, commit_completed_run
  <2>2. Len(p) \in Nat \ {0} /\ \A i \in 1 .. Len(p) : Placed(c, p[i])
    BY <1>0, <1>13 DEF Placed, Table
  <2>3. \A i \in 1 .. Len(p) : Ordered(c, p, i)
    BY <1>0, <1>13 DEF Ordered, Earlier
  <2>4. Complete(c, p)
    BY <1>0, <1>13 DEF Complete, Reads, LedgerMethod
  <2> QED
    BY Zenon, <2>1, <2>2, <2>3, <2>4 DEF Disciplined
<1>14. CASE c.name = "quarantine_checkpoint_conflict"
  <2> DEFINE p == <<ForUpdate("runs", c.run), ForUpdate("thread_states", c.run)>>
  <2>1. Program(c) = p
    BY <1>14 DEF Program, quarantine_checkpoint_conflict_for_reconciliation
  <2>2. Len(p) \in Nat \ {0} /\ \A i \in 1 .. Len(p) : Placed(c, p[i])
    BY <1>0, <1>14 DEF Placed, Table
  <2>3. \A i \in 1 .. Len(p) : Ordered(c, p, i)
    BY <1>0, <1>14 DEF Ordered, Earlier
  <2>4. Complete(c, p)
    BY <1>0, <1>14 DEF Complete, Reads, LedgerMethod
  <2> QED
    BY Zenon, <2>1, <2>2, <2>3, <2>4 DEF Disciplined
<1>15. CASE c.name = "apply_quarantine_resolution"
  <2> DEFINE p == <<ForUpdate("runs", c.run), ForUpdate("thread_states", c.run),
                   ForUpdate("workflow_executions", c.run), ForUpdate("tool_calls", c.run),
                   ForUpdate("external_actions", c.run), Select("evidence", c.run)>>
  <2>1. Program(c) = p
    BY <1>15 DEF Program, _lock_quarantine_evidence
  <2>2. /\ Len(p) = 6
        /\ p[1] = [table |-> "runs", run |-> c.run, lock |-> "update"]
        /\ p[2] = [table |-> "thread_states", run |-> c.run, lock |-> "update"]
        /\ p[3] = [table |-> "workflow_executions", run |-> c.run, lock |-> "update"]
        /\ p[4] = [table |-> "tool_calls", run |-> c.run, lock |-> "update"]
        /\ p[5] = [table |-> "external_actions", run |-> c.run, lock |-> "update"]
        /\ p[6] = [table |-> "evidence", run |-> c.run, lock |-> "none"]
    OBVIOUS
  <2> HIDE DEF p
  <2>3. \A i \in 1 .. Len(p) : Placed(c, p[i])
    BY <1>0, <1>15, <2>2 DEF Placed, Table
  <2>4. \A i \in 1 .. Len(p) : Ordered(c, p, i)
    <3>1. Ordered(c, p, 1) /\ Ordered(c, p, 2) /\ Ordered(c, p, 3)
      BY <1>0, <1>15, <2>2 DEF Ordered, Earlier
    <3>2. Ordered(c, p, 4) /\ Ordered(c, p, 5)
      BY <1>0, <1>15, <2>2 DEF Ordered, Earlier
    <3>3. Ordered(c, p, 6)
      BY <1>0, <1>15, <2>2 DEF Ordered, Earlier
    <3> QED
      BY <2>2, <3>1, <3>2, <3>3
  <2>5. Complete(c, p)
    BY <1>0, <1>15, <2>2 DEF Complete, Reads, LedgerMethod
  <2> QED
    BY <2>1, <2>2, <2>3, <2>4, <2>5 DEF Disciplined
<1>16. CASE c.name = "upsert_from_run"
  <2> DEFINE p == <<ForUpdate("runs", c.run), ForUpdate("memory_key", 0),
                   Select("memory_records", 0)>>
  <2>1. Program(c) = p
    BY Zenon, <1>16, Listings DEF Program
  <2>2. Len(p) \in Nat \ {0} /\ \A i \in 1 .. Len(p) : Placed(c, p[i])
    BY <1>0, <1>16 DEF Placed, Table
  <2>3. \A i \in 1 .. Len(p) : Ordered(c, p, i)
    BY <1>0, <1>16 DEF Ordered, Earlier
  <2>4. Complete(c, p)
    BY <1>0, <1>16 DEF Complete, Reads, LedgerMethod
  <2> QED
    BY Zenon, <2>1, <2>2, <2>3, <2>4 DEF Disciplined
<1>17. CASE c.name = "upsert"
  <2> DEFINE p == <<ForUpdate("memory_key", 0), Select("memory_records", 0)>>
  <2>1. Program(c) = p
    BY Zenon, <1>17, Listings DEF Program
  <2>2. Len(p) \in Nat \ {0} /\ \A i \in 1 .. Len(p) : Placed(c, p[i])
    BY <1>0, <1>17 DEF Placed, Table
  <2>3. \A i \in 1 .. Len(p) : Ordered(c, p, i)
    BY <1>0, <1>17 DEF Ordered, Earlier
  <2>4. Complete(c, p)
    BY <1>0, <1>17 DEF Complete, Reads, LedgerMethod
  <2> QED
    BY Zenon, <2>1, <2>2, <2>3, <2>4 DEF Disciplined
<1>18. CASE c.name = "forget_memory"
  <2> DEFINE p == <<ForUpdate("memory_key", 0), Select("memory_records", 0)>>
  <2>1. Program(c) = p
    BY Zenon, <1>18, Listings DEF Program
  <2>2. Len(p) \in Nat \ {0} /\ \A i \in 1 .. Len(p) : Placed(c, p[i])
    BY <1>0, <1>18 DEF Placed, Table
  <2>3. \A i \in 1 .. Len(p) : Ordered(c, p, i)
    BY <1>0, <1>18 DEF Ordered, Earlier
  <2>4. Complete(c, p)
    BY <1>0, <1>18 DEF Complete, Reads, LedgerMethod
  <2> QED
    BY Zenon, <2>1, <2>2, <2>3, <2>4 DEF Disciplined
<1>19. CASE c.name = "get_or_create_run_snapshot"
  <2> DEFINE p == <<ForUpdate("runs", c.run), Select("run_memory_snapshots", c.run),
                   Select("offered", c.run)>>
  <2>1. Program(c) = p
    BY Zenon, <1>19, Listings DEF Program
  <2>2. Len(p) \in Nat \ {0} /\ \A i \in 1 .. Len(p) : Placed(c, p[i])
    BY <1>0, <1>19 DEF Placed, Table
  <2>3. \A i \in 1 .. Len(p) : Ordered(c, p, i)
    BY <1>0, <1>19 DEF Ordered, Earlier
  <2>4. Complete(c, p)
    BY <1>0, <1>19 DEF Complete, Reads, LedgerMethod
  <2> QED
    BY Zenon, <2>1, <2>2, <2>3, <2>4 DEF Disciplined
<1> QED
  BY Zenon, <1>0, <1>1, <1>2, <1>3, <1>4, <1>5, <1>6, <1>7, <1>8, <1>9, <1>10, <1>11,
       <1>12, <1>13, <1>14, <1>15, <1>16, <1>17, <1>18, <1>19 DEF Method

-----------------------------------------------------------------------------
(* The invariant. *)

TablesOK ==
  /\ load \in Load
  /\ now \in Nat
  /\ runs \in [Run -> [status : {"running", "completed", "failed"}, token : Nat, claims : Nat,
                       expires : Nat, cancel : BOOLEAN, code : {"none", "blocked", "conflict"},
                       base : Nat, conflict : Nat]]
  /\ thread_states \in [Run -> Nat \ {0}]
  /\ workflow_executions \in
       [Run -> [status : {"none", "pending", "running", "ready", "failed", "blocked"}]]
  /\ tool_calls \in [Run -> [status : {"none", "running", "completed", "failed"},
                             attempt : Nat, result : Nat]]
  /\ external_actions \in [Run -> [status : {"none", "prepared", "dispatching"} \cup Outcome,
                                   dispatch : Nat, mode : {"unsafe", "provider_idempotent"}]]
  /\ workflow_events \in [Run -> Nat]
  /\ memory_records \in Seq([version : Nat, status : {"active", "superseded", "deleted"},
                             value : {"v", "w", "null"}])
  /\ DOMAIN run_memory_snapshots = Run
  /\ DOMAIN resolved = Run

HasRead(s, table, r) == <<table, r>> \in DOMAIN txn[s].seen

\* A session has executed the first pc statements of its call.
SessionOK(s) ==
  LET x == txn[s]
  IN  /\ x = [stage |-> x.stage, now |-> x.now, call |-> x.call, pc |-> x.pc, seen |-> x.seen]
      /\ x.stage \in {"idle", "open", "called"}
      /\ x.pc \in Nat
      /\ x.stage # "called" <=> x.pc = 0
      /\ x.stage = "called" =>
           /\ GoodCall(x.call) /\ x.call.name \in load.methods
           /\ x.pc <= Len(Program(x.call))
      /\ DOMAIN x.seen = {<<Statement(s, i).table, Statement(s, i).run>> : i \in Executed(s)}

\* What it has read is what the tables hold.
RowOf(table, r) == Row([table |-> table, run |-> r])

UpToDate(s) ==
  \A table \in Table \ {"offered"}, r \in Run \cup {0} :
    HasRead(s, table, r) => Read(s, table, r) = RowOf(table, r)

\* What it has read let it go on.
Passed(s) ==
  LET c == txn[s].call
  IN  /\ HasRead(s, "runs", c.run) /\ c.name \notin Unfenced =>
           Read(s, "runs", c.run).status = "running"
      /\ \A q \in Run :
           HasRead(s, "workflow_executions", q) /\ c.name # "create_or_get_execution" =>
             Read(s, "workflow_executions", q).status # "none"
      /\ c.name = "claim_step" /\ HasRead(s, "tool_calls", c.run) =>
           LET row == Read(s, "tool_calls", c.run)
           IN  \/ row.status = "none"
               \/ row.status = "failed" /\ row.attempt < load.max_attempts
      /\ c.name = "prepare_external_action" /\ HasRead(s, "tool_calls", c.run) =>
           Read(s, "tool_calls", c.run).status = "running"
      /\ c.name = "retry_external_action_dispatch" /\ HasRead(s, "external_actions", c.run) =>
           Read(s, "external_actions", c.run).mode # "unsafe"
      /\ /\ c.name = "reuse_completed_step"
         /\ HasRead(s, "workflow_executions", c.run) /\ HasRead(s, "workflow_executions", c.n)
         => Replayable(Read(s, "workflow_executions", c.n))
      /\ c.name = "reuse_completed_step" /\ HasRead(s, "tool_calls", c.n) =>
           Read(s, "tool_calls", c.n).status = "completed"

\* Two sessions have not locked the same row, unless they share it.
Apart(s, o) ==
  /\ \A r \in Run : ~(HasRead(s, "runs", r) /\ HasRead(o, "runs", r))
  /\ ~(HasRead(s, "memory_key", 0) /\ HasRead(o, "memory_key", 0))
  /\ \A r \in Run :
       /\ HasRead(s, "workflow_executions", r) /\ HasRead(o, "workflow_executions", r)
       /\ workflow_executions[r].status # "none"
       => r # txn[s].call.run /\ r # txn[o].call.run

LedgerInv ==
  /\ TablesOK
  /\ DOMAIN txn = Session
  /\ \A s \in Session : SessionOK(s) /\ UpToDate(s) /\ Passed(s)
  /\ \A s \in Session : \A o \in Session \ {s} : Apart(s, o)

-----------------------------------------------------------------------------
(* What follows from the discipline for a session. *)

\* The rows a session has read are those of its executed statements.
LEMMA ReadByStatement ==
  ASSUME NEW s, SessionOK(s)
  PROVE  /\ \A table, r : HasRead(s, table, r) =>
              /\ txn[s].stage = "called"
              /\ \E i \in Executed(s) : Statement(s, i).table = table /\ Statement(s, i).run = r
         /\ \A i \in Executed(s) : HasRead(s, Statement(s, i).table, Statement(s, i).run)
<1>1. DOMAIN txn[s].seen = {<<Statement(s, i).table, Statement(s, i).run>> : i \in Executed(s)}
  BY Zenon DEF SessionOK
<1>2. \A table, r : HasRead(s, table, r) =>
        \E i \in Executed(s) : Statement(s, i).table = table /\ Statement(s, i).run = r
  BY <1>1 DEF HasRead
<1>3. txn[s].stage # "called" => Executed(s) = {}
  BY DEF SessionOK, Executed
<1>4. \A i \in Executed(s) : HasRead(s, Statement(s, i).table, Statement(s, i).run)
  BY Zenon, <1>1 DEF HasRead
<1> QED
  BY Zenon, <1>2, <1>3, <1>4

\* An executed statement is one of a disciplined program.
LEMMA ExecutedStatement ==
  ASSUME NEW s, SessionOK(s), NEW i \in Executed(s)
  PROVE  /\ GoodCall(txn[s].call)
         /\ i \in 1 .. Len(Program(txn[s].call))
         /\ Placed(txn[s].call, Statement(s, i))
         /\ Ordered(txn[s].call, Program(txn[s].call), i)
<1>1. txn[s].stage = "called"
  BY DEF SessionOK, Executed
<1>2. GoodCall(txn[s].call) /\ txn[s].pc <= Len(Program(txn[s].call)) /\ txn[s].pc \in Nat
  BY Zenon, <1>1 DEF SessionOK
<1>3. Disciplined(txn[s].call, Program(txn[s].call))
  BY Zenon, <1>2, MethodsAreDisciplined
<1>4. i \in 1 .. Len(Program(txn[s].call))
  BY <1>2, <1>3 DEF Executed, Disciplined
<1> QED
  BY Zenon, <1>2, <1>3, <1>4 DEF Disciplined, Statement

\* Whatever a session reads, it has read before what protects it.
Covered(s, r) ==
  /\ \A table \in {"tool_calls", "external_actions", "workflow_events", "evidence"} :
       HasRead(s, table, r) => HasRead(s, "workflow_executions", r)
  /\ \A table \in {"thread_states", "evidence", "run_memory_snapshots"} :
       HasRead(s, table, r) => HasRead(s, "runs", r)
  /\ \A table \in {"runs", "thread_states", "evidence", "run_memory_snapshots",
                   "workflow_events"} :
       HasRead(s, table, r) => r = txn[s].call.run
  /\ HasRead(s, "workflow_executions", r) =>
       \/ r = txn[s].call.run
       \/ txn[s].call.name = "reuse_completed_step" /\ r = txn[s].call.n
  /\ HasRead(s, "workflow_executions", r) /\ r = txn[s].call.run =>
       HasRead(s, "runs", r) \/ txn[s].call.name = "finalize_external_action"
  /\ HasRead(s, "evidence", r) => HasRead(s, "thread_states", r)
  /\ HasRead(s, "memory_records", r) => HasRead(s, "memory_key", 0)

\* Every session of the stores reads in this order.
LEMMA ReadsAreCovered ==
  ASSUME NEW s, SessionOK(s), NEW r
  PROVE  Covered(s, r)
<1> DEFINE c == txn[s].call
           p == Program(c)
<1>1. ASSUME NEW table, HasRead(s, table, r)
      PROVE  \E i \in Executed(s) :
               /\ p[i].table = table /\ p[i].run = r
               /\ Placed(c, p[i]) /\ Ordered(c, p, i)
  <2>1. PICK i \in Executed(s) : Statement(s, i).table = table /\ Statement(s, i).run = r
    BY <1>1, ReadByStatement
  <2>2. Placed(txn[s].call, Statement(s, i)) /\ Ordered(txn[s].call, Program(txn[s].call), i)
    BY Zenon, ExecutedStatement
  <2> QED
    BY Zenon, <2>1, <2>2 DEF Statement
<1>2. ASSUME NEW i \in Executed(s), NEW table, NEW q, Earlier(p, i, table, q)
      PROVE  HasRead(s, table, q)
  <2>1. PICK j \in 1 .. i - 1 : p[j].table = table /\ p[j].run = q
    BY Zenon, <1>2 DEF Earlier
  <2>2. j \in Executed(s)
    BY <2>1 DEF Executed, SessionOK
  <2> QED
    BY Zenon, <2>1, <2>2, ReadByStatement DEF Statement
<1> HIDE DEF p, c
<1>3. \A table \in {"tool_calls", "external_actions", "workflow_events", "evidence"} :
        HasRead(s, table, r) => HasRead(s, "workflow_executions", r)
  BY <1>1, <1>2 DEF Ordered
<1>4. \A table \in {"runs", "thread_states", "evidence", "run_memory_snapshots",
                    "workflow_events"} :
        HasRead(s, table, r) => r = c.run
  BY <1>1 DEF Placed
<1>5. \A table \in {"thread_states", "evidence", "run_memory_snapshots"} :
        HasRead(s, table, r) => HasRead(s, "runs", r)
  BY <1>1, <1>2, <1>4 DEF Ordered
<1>6. HasRead(s, "workflow_executions", r) =>
        r = c.run \/ (c.name = "reuse_completed_step" /\ r = c.n)
  BY <1>1 DEF Placed
<1>7. HasRead(s, "workflow_executions", r) /\ r = c.run =>
        HasRead(s, "runs", r) \/ c.name = "finalize_external_action"
  BY <1>1, <1>2 DEF Ordered
<1>8. HasRead(s, "evidence", r) => HasRead(s, "thread_states", r)
  BY <1>1, <1>2, <1>4 DEF Ordered
<1>9. HasRead(s, "memory_records", r) => HasRead(s, "memory_key", 0)
  BY <1>1, <1>2 DEF Ordered
<1> QED
  BY Zenon, <1>3, <1>4, <1>5, <1>6, <1>7, <1>8, <1>9 DEF Covered, c

\* What a session has read it has locked, where the discipline says so.
LEMMA LocksHold ==
  ASSUME NEW o, SessionOK(o), UpToDate(o), TablesOK,
         NEW st, st.lock \in {"update", "share"}, HasRead(o, st.table, st.run)
  PROVE  /\ st.table \in {"runs", "memory_key"} => Excludes(o, st)
         /\ st.table = "thread_states" => Excludes(o, st)
         /\ /\ st.table = "workflow_executions"
            /\ workflow_executions[st.run].status # "none"
            /\ st.lock = "update" \/ st.run = txn[o].call.run
            => Excludes(o, st)
<1>1. PICK i \in Executed(o) : Statement(o, i).table = st.table /\ Statement(o, i).run = st.run
  BY ReadByStatement
<1> DEFINE held == Statement(o, i)
<1>2. Placed(txn[o].call, held)
  BY Zenon, ExecutedStatement
<1>3. held.table = st.table /\ held.run = st.run
  BY Zenon, <1>1
<1>4. ASSUME "update" \in {held.lock, st.lock}, held.lock # "none",
             Exists(held.table, Read(o, held.table, held.run))
      PROVE  Excludes(o, st)
  <2>1. st.lock # "none"
    OBVIOUS
  <2> QED
    BY Zenon, <1>3, <1>4, <2>1 DEF Excludes
<1> HIDE DEF held
<1>5. CASE st.table \in {"runs", "memory_key"}
  <2>1. held.lock = "update" /\ Exists(held.table, Read(o, held.table, held.run))
    BY <1>2, <1>3, <1>5 DEF Placed, Exists
  <2> QED
    BY <1>4, <1>5, <2>1
<1>6. CASE st.table = "thread_states"
  <2>1. held.lock = "update" /\ st.run \in Run
    BY <1>2, <1>3, <1>6 DEF Placed
  <2>2. Read(o, "thread_states", st.run) = RowOf("thread_states", st.run)
    BY <1>6, <2>1 DEF UpToDate, Table
  <2>3. RowOf("thread_states", st.run) = thread_states[st.run]
    BY DEF RowOf, Row
  <2>4. thread_states[st.run] > 0
    BY <2>1 DEF TablesOK
  <2>5. Exists(held.table, Read(o, held.table, held.run))
    BY <1>3, <1>6, <2>2, <2>3, <2>4 DEF Exists
  <2> QED
    BY <1>4, <1>6, <2>1, <2>5
<1>7. CASE /\ st.table = "workflow_executions"
           /\ workflow_executions[st.run].status # "none"
           /\ st.lock = "update" \/ st.run = txn[o].call.run
  <2>1. held.lock = (IF st.run = txn[o].call.run THEN "update" ELSE "share") /\ st.run \in Run
    BY <1>2, <1>3, <1>7 DEF Placed
  <2>2. Read(o, "workflow_executions", st.run) = RowOf("workflow_executions", st.run)
    BY <1>7, <2>1 DEF UpToDate, Table
  <2>3. RowOf("workflow_executions", st.run) = workflow_executions[st.run]
    BY DEF RowOf, Row
  <2>4. Exists(held.table, Read(o, held.table, held.run))
    BY <1>3, <1>7, <2>2, <2>3 DEF Exists
  <2> QED
    BY <1>4, <1>7, <2>1, <2>4
<1> QED
  BY Zenon, <1>5, <1>6, <1>7

-----------------------------------------------------------------------------
(* A statement. *)

\* A call that may be made or is being made, with a statement left.
MayExecute(s, c) ==
  /\ GoodCall(c) /\ c.name \in load.methods
  /\ txn[s].stage = "open" \/ (txn[s].stage = "called" /\ c = txn[s].call)
  /\ txn[s].pc < Len(Program(c))

\* What a statement changes: its session has read one row more.
LEMMA Executes ==
  ASSUME NEW s \in Session, NEW c, LedgerInv, MayExecute(s, c), Execute(s, c)
  PROVE  /\ UNCHANGED <<load, now, tables, plan>>
         /\ DOMAIN txn' = Session
         /\ \A o \in Session \ {s} : txn'[o] = txn[o]
         /\ txn'[s] = [stage |-> "called", now |-> txn[s].now, call |-> c, pc |-> txn[s].pc + 1,
                       seen |-> Noted(txn[s].seen, Program(c)[txn[s].pc + 1],
                                      Row(Program(c)[txn[s].pc + 1]))]
         /\ Free(s, Program(c)[txn[s].pc + 1])
         /\ Passes(c, Program(c)[txn[s].pc + 1], Row(Program(c)[txn[s].pc + 1]),
                   txn[s].now, txn[s].seen)
<1> DEFINE st == Program(c)[txn[s].pc + 1]
           row == Row(st)
<1>1. /\ UNCHANGED <<load, now, tables, plan>>
      /\ Free(s, st) /\ Passes(c, st, row, txn[s].now, txn[s].seen)
      /\ txn' = [txn EXCEPT ![s] = [stage |-> "called", now |-> txn[s].now, call |-> c,
                                    pc |-> txn[s].pc + 1, seen |-> Noted(txn[s].seen, st, row)]]
  BY Zenon DEF Execute
<1>2. DOMAIN txn = Session
  BY Zenon DEF LedgerInv
<1> HIDE DEF st, row
<1>3. /\ DOMAIN txn' = Session
      /\ \A o \in Session \ {s} : txn'[o] = txn[o]
      /\ txn'[s] = [stage |-> "called", now |-> txn[s].now, call |-> c,
                    pc |-> txn[s].pc + 1, seen |-> Noted(txn[s].seen, st, row)]
  BY <1>1, <1>2
<1> QED
  BY Zenon, <1>1, <1>3 DEF st, row

\* The statement itself is one of a disciplined program.
LEMMA NextStatement ==
  ASSUME NEW s \in Session, NEW c, LedgerInv, MayExecute(s, c)
  PROVE  /\ txn[s].pc \in Nat /\ txn[s].pc + 1 \in 1 .. Len(Program(c))
         /\ Placed(c, Program(c)[txn[s].pc + 1])
         /\ Ordered(c, Program(c), txn[s].pc + 1)
<1>1. txn[s].pc \in Nat
  BY Zenon DEF LedgerInv, SessionOK
<1>2. Disciplined(c, Program(c))
  BY Zenon, MethodsAreDisciplined DEF MayExecute
<1>3. txn[s].pc + 1 \in 1 .. Len(Program(c))
  BY <1>1, <1>2 DEF Disciplined, MayExecute
<1> QED
  BY Zenon, <1>1, <1>2, <1>3 DEF Disciplined

\* The reads of the sessions afterwards.
Adds(s, st) ==
  /\ \A o \in Session \ {s} : \A table, r :
       (HasRead(o, table, r)' <=> HasRead(o, table, r)) /\ Read(o, table, r)' = Read(o, table, r)
  /\ \A table, r : HasRead(s, table, r)' <=>
       HasRead(s, table, r) \/ (table = st.table /\ r = st.run)
  /\ Read(s, st.table, st.run)' = Row(st)
  /\ \A table, r : HasRead(s, table, r) /\ (table # st.table \/ r # st.run) =>
       Read(s, table, r)' = Read(s, table, r)

\* A statement adds its row to what its session has read, and nothing to the others.
LEMMA StatementAdds ==
  ASSUME NEW s \in Session, NEW c, LedgerInv, MayExecute(s, c), Execute(s, c),
         NEW st, st = Program(c)[txn[s].pc + 1]
  PROVE  Adds(s, st)
<1> DEFINE key == <<st.table, st.run>>
<1>0. txn'[s] = [stage |-> "called", now |-> txn[s].now, call |-> c, pc |-> txn[s].pc + 1,
                 seen |-> Noted(txn[s].seen, st, Row(st))]
  BY Zenon, Executes
<1>1. txn'[s].seen = Noted(txn[s].seen, st, Row(st))
  BY <1>0
<1>2. txn'[s].seen = [k \in DOMAIN txn[s].seen \cup {key} |->
                        IF k = key THEN Row(st) ELSE txn[s].seen[k]]
  BY Zenon, <1>1 DEF Noted
<1>3. \A o \in Session \ {s} : txn'[o] = txn[o]
  BY Zenon, Executes
<1>4. \A o \in Session \ {s} : \A table, r :
        (HasRead(o, table, r)' <=> HasRead(o, table, r)) /\ Read(o, table, r)' = Read(o, table, r)
  BY Zenon, <1>3 DEF HasRead, Read
<1>5. \A table, r : HasRead(s, table, r)' <=>
        HasRead(s, table, r) \/ (table = st.table /\ r = st.run)
  BY SMTT(30), <1>2 DEF HasRead
<1>6. Read(s, st.table, st.run)' = Row(st)
  BY <1>2 DEF Read
<1>7. \A table, r : HasRead(s, table, r) /\ (table # st.table \/ r # st.run) =>
        Read(s, table, r)' = Read(s, table, r)
  BY <1>2 DEF HasRead, Read
<1> QED
  BY Zenon, <1>4, <1>5, <1>6, <1>7 DEF Adds

\* Tables that stay put have the same rows.
LEMMA SameRows ==
  ASSUME UNCHANGED tables
  PROVE  \A table, r : RowOf(table, r)' = RowOf(table, r)
  BY DEF tables, ledger, memory, RowOf, Row, _derive_quarantine_plan,
         _workflow_evidence_fingerprint

\* A session that does nothing keeps its part of the invariant.
LEMMA Bystander ==
  ASSUME NEW o, SessionOK(o), Passed(o), txn'[o] = txn[o], load' = load
  PROVE  SessionOK(o)' /\ Passed(o)'
<1>1. SessionOK(o)'
  BY Zenon DEF SessionOK, Statement, Executed
<1>2. Passed(o)'
  BY Zenon DEF Passed, HasRead, Read
<1> QED
  BY Zenon, <1>1, <1>2

\* The session that executes has done one statement more of its call.
LEMMA ExecutorSteps ==
  ASSUME NEW s \in Session, NEW c, LedgerInv, MayExecute(s, c), Execute(s, c),
         NEW st, st = Program(c)[txn[s].pc + 1]
  PROVE  SessionOK(s)' /\ UpToDate(s)'
<1>1. /\ txn'[s] = [stage |-> "called", now |-> txn[s].now, call |-> c, pc |-> txn[s].pc + 1,
                    seen |-> Noted(txn[s].seen, st, Row(st))]
      /\ load' = load /\ UNCHANGED tables
  BY Zenon, Executes
<1>2. /\ txn[s].pc \in Nat /\ txn[s].pc + 1 \in 1 .. Len(Program(c))
      /\ Placed(c, st)
  BY Zenon, NextStatement
<1>3. Adds(s, st)
  BY Zenon, StatementAdds
<1>4. SessionOK(s) /\ UpToDate(s)
  BY Zenon DEF LedgerInv
<1>5. /\ txn'[s].stage = "called" /\ txn'[s].call = c /\ txn'[s].pc = txn[s].pc + 1
      /\ txn'[s].now = txn[s].now /\ txn'[s].seen = Noted(txn[s].seen, st, Row(st))
  BY <1>1
<1>6. DOMAIN txn'[s].seen = {<<Statement(s, i)'.table, Statement(s, i)'.run>> : i \in Executed(s)'}
  <2>1. \A i : Statement(s, i)' = Program(c)[i]
    BY Zenon, <1>5 DEF Statement
  <2>2. Executed(s)' = Executed(s) \cup {txn[s].pc + 1}
    BY <1>2, <1>5 DEF Executed
  <2>3. DOMAIN txn'[s].seen = DOMAIN txn[s].seen \cup {<<st.table, st.run>>}
    BY Zenon, <1>5 DEF Noted
  <2>4. \A i \in Executed(s) : Statement(s, i) = Program(c)[i]
    <3>1. CASE txn[s].stage = "open"
      BY <1>4, <3>1 DEF SessionOK, Executed
    <3>2. CASE txn[s].stage = "called" /\ c = txn[s].call
      BY Zenon, <3>2 DEF Statement
    <3> QED
      BY Zenon, <3>1, <3>2 DEF MayExecute
  <2>5. DOMAIN txn[s].seen = {<<Statement(s, i).table, Statement(s, i).run>> : i \in Executed(s)}
    BY Zenon, <1>4 DEF SessionOK
  <2>6. DOMAIN txn[s].seen = {<<Program(c)[i].table, Program(c)[i].run>> : i \in Executed(s)}
    BY Zenon, <2>4, <2>5
  <2>7. DOMAIN txn'[s].seen = {<<Program(c)[i].table, Program(c)[i].run>> : i \in Executed(s)'}
    BY Zenon, <2>2, <2>3, <2>6
  <2> QED
    BY Zenon, <2>1, <2>7
<1>7. SessionOK(s)'
  <2>1. txn'[s] = [stage |-> txn'[s].stage, now |-> txn'[s].now, call |-> txn'[s].call,
                   pc |-> txn'[s].pc, seen |-> txn'[s].seen]
    BY Zenon, <1>1, <1>5
  <2>2. txn'[s].pc \in Nat \ {0} /\ txn'[s].pc <= Len(Program(c))
    BY <1>2, <1>5
  <2>3. GoodCall(c)' /\ c.name \in load'.methods /\ Program(c)' = Program(c)
    BY Zenon, <1>1 DEF MayExecute, GoodCall
  <2> QED
    BY <1>5, <1>6, <2>1, <2>2, <2>3 DEF SessionOK
<1>8. UpToDate(s)'
  <2>1. Row(st) = RowOf(st.table, st.run)
    BY Zenon DEF RowOf, Row
  <2>2. \A table, r : RowOf(table, r)' = RowOf(table, r)
    BY Zenon, <1>1, SameRows
  <2>3. ASSUME NEW table \in Table \ {"offered"}, NEW r \in Run \cup {0}, HasRead(s, table, r)'
        PROVE  Read(s, table, r)' = RowOf(table, r)'
    <3>1. CASE table = st.table /\ r = st.run
      <4>1. Read(s, st.table, st.run)' = RowOf(st.table, st.run)'
        BY Zenon, <1>3, <2>1, <2>2 DEF Adds
      <4> QED
        BY Zenon, <3>1, <4>1 DEF Read, RowOf
    <3>2. CASE ~(table = st.table /\ r = st.run)
      <4>1. HasRead(s, table, r) /\ Read(s, table, r)' = Read(s, table, r)
        BY Zenon, <1>3, <2>3, <3>2 DEF Adds
      <4> QED
        BY Zenon, <1>4, <2>2, <4>1 DEF UpToDate
    <3> QED
      BY Zenon, <3>1, <3>2
  <2> QED
    BY Zenon, <2>3 DEF UpToDate
<1> QED
  BY Zenon, <1>7, <1>8

\* What was read let it go on, and so did what it has just read.
LEMMA ExecutorPasses ==
  ASSUME NEW s \in Session, NEW c, LedgerInv, MayExecute(s, c), Execute(s, c),
         NEW st, st = Program(c)[txn[s].pc + 1]
  PROVE  Passed(s)'
<1> DEFINE X == "workflow_executions"
<1>1. txn'[s].call = c /\ load' = load
  <2>1. /\ txn'[s] = [stage |-> "called", now |-> txn[s].now, call |-> c, pc |-> txn[s].pc + 1,
                      seen |-> Noted(txn[s].seen, st, Row(st))]
        /\ load' = load
    BY Zenon, Executes
  <2> QED
    BY <2>1
<1>2. Passes(c, st, Row(st), txn[s].now, txn[s].seen)
  BY Zenon, Executes
<1>3. Adds(s, st)
  BY Zenon, StatementAdds
<1>4. SessionOK(s) /\ UpToDate(s) /\ Passed(s)
  BY Zenon DEF LedgerInv
<1>5. GoodCall(c) /\ c.run \in Run /\ Run \subseteq Nat
  BY PostgresLedgerAssumption DEF MayExecute, GoodCall
<1>6. \A table, r : HasRead(s, table, r) => c = txn[s].call
  BY Zenon, <1>4, ReadByStatement DEF MayExecute
<1>7. ASSUME NEW table \in Table \ {"offered"}, NEW r \in Run, HasRead(s, table, r)
      PROVE  Read(s, table, r)' = Read(s, table, r)
  <2>1. CASE table = st.table /\ r = st.run
    <3>1. Read(s, st.table, st.run)' = Row(st)
      BY Zenon, <1>3 DEF Adds
    <3>2. Row(st) = RowOf(st.table, st.run)
      BY Zenon DEF RowOf, Row
    <3>3. Read(s, table, r) = RowOf(table, r)
      BY Zenon, <1>4, <1>7 DEF UpToDate
    <3> QED
      BY Zenon, <2>1, <3>1, <3>2, <3>3 DEF Read
  <2>2. CASE ~(table = st.table /\ r = st.run)
    BY Zenon, <1>3, <1>7, <2>2 DEF Adds
  <2> QED
    BY Zenon, <2>1, <2>2
<1>8. ASSUME NEW table, NEW r, HasRead(s, table, r)', ~HasRead(s, table, r)
      PROVE  /\ st.table = table /\ st.run = r
             /\ Read(s, table, r)' = Row(st)
  <2>1. st.table = table /\ st.run = r
    BY Zenon, <1>3, <1>8 DEF Adds
  <2>2. Read(s, st.table, st.run)' = Row(st)
    BY Zenon, <1>3 DEF Adds
  <2> QED
    BY Zenon, <2>1, <2>2 DEF Read
<1>9. HasRead(s, "runs", c.run)' /\ c.name \notin Unfenced =>
        Read(s, "runs", c.run)'.status = "running"
  <2>1. CASE HasRead(s, "runs", c.run)
    BY Zenon, <1>4, <1>5, <1>6, <1>7, <2>1 DEF Passed, Table
  <2>2. CASE HasRead(s, "runs", c.run)' /\ ~HasRead(s, "runs", c.run)
    <3>1. st.table = "runs" /\ Read(s, "runs", c.run)' = Row(st)
      BY Zenon, <1>8, <2>2
    <3>2. c.name \in Unfenced \/ CurrentLease(c, Row(st), txn[s].now)
      BY <1>2, <3>1 DEF Passes
    <3> QED
      BY Zenon, <3>1, <3>2 DEF CurrentLease
  <2> QED
    BY Zenon, <2>1, <2>2
<1>10. ASSUME NEW q \in Run, HasRead(s, X, q)', c.name # "create_or_get_execution"
       PROVE  Read(s, X, q)'.status # "none"
  <2>1. CASE HasRead(s, X, q)
    BY <1>4, <1>6, <1>7, <1>10, <2>1 DEF Passed, Table
  <2>2. CASE ~HasRead(s, X, q)
    <3>1. st.table = X /\ Read(s, X, q)' = Row(st)
      BY Zenon, <1>8, <1>10, <2>2
    <3>2. Row(st).status # "none"
      BY <1>2, <1>10, <3>1 DEF Passes
    <3> QED
      BY Zenon, <3>1, <3>2
  <2> QED
    BY Zenon, <2>1, <2>2
<1>11. c.name = "claim_step" /\ HasRead(s, "tool_calls", c.run)' =>
         \/ Read(s, "tool_calls", c.run)'.status = "none"
         \/ /\ Read(s, "tool_calls", c.run)'.status = "failed"
            /\ Read(s, "tool_calls", c.run)'.attempt < load'.max_attempts
  <2>1. CASE HasRead(s, "tool_calls", c.run)
    BY Zenon, <1>1, <1>4, <1>5, <1>6, <1>7, <2>1 DEF Passed, Table
  <2>2. CASE HasRead(s, "tool_calls", c.run)' /\ ~HasRead(s, "tool_calls", c.run)
    BY <1>1, <1>2, <1>8, <2>2 DEF Passes
  <2> QED
    BY Zenon, <2>1, <2>2
<1>12. c.name = "prepare_external_action" /\ HasRead(s, "tool_calls", c.run)' =>
         Read(s, "tool_calls", c.run)'.status = "running"
  <2>1. CASE HasRead(s, "tool_calls", c.run)
    BY Zenon, <1>4, <1>5, <1>6, <1>7, <2>1 DEF Passed, Table
  <2>2. CASE HasRead(s, "tool_calls", c.run)' /\ ~HasRead(s, "tool_calls", c.run)
    BY <1>2, <1>8, <2>2 DEF Passes
  <2> QED
    BY Zenon, <2>1, <2>2
<1>13. c.name = "retry_external_action_dispatch" /\ HasRead(s, "external_actions", c.run)' =>
         Read(s, "external_actions", c.run)'.mode # "unsafe"
  <2>1. CASE HasRead(s, "external_actions", c.run)
    BY Zenon, <1>4, <1>5, <1>6, <1>7, <2>1 DEF Passed, Table
  <2>2. CASE HasRead(s, "external_actions", c.run)' /\ ~HasRead(s, "external_actions", c.run)
    BY <1>2, <1>8, <2>2 DEF Passes
  <2> QED
    BY Zenon, <2>1, <2>2
<1>14. ASSUME c.name = "reuse_completed_step"
       PROVE  /\ HasRead(s, X, c.run)' /\ HasRead(s, X, c.n)' => Replayable(Read(s, X, c.n)')
              /\ HasRead(s, "tool_calls", c.n)' => Read(s, "tool_calls", c.n)'.status = "completed"
  <2>1. /\ c.n \in Run /\ c.n \in Nat /\ c.run \in Nat
        /\ c.n < c.run /\ c.n # c.run
    <3>1. c.n \in Run /\ c.n < c.run
      BY Zenon, <1>5, <1>14 DEF GoodCall
    <3>2. c.n \in Nat /\ c.run \in Nat
      BY Zenon, <1>5 DEF GoodCall
    <3> QED
      BY <3>1, <3>2
  <2>2. HasRead(s, "tool_calls", c.n)' => Read(s, "tool_calls", c.n)'.status = "completed"
    <3>1. CASE HasRead(s, "tool_calls", c.n)
      BY <1>4, <1>6, <1>7, <1>14, <2>1, <3>1 DEF Passed, Table
    <3>2. CASE HasRead(s, "tool_calls", c.n)' /\ ~HasRead(s, "tool_calls", c.n)
      <4>1. st.table = "tool_calls" /\ st.run = c.n /\ Read(s, "tool_calls", c.n)' = Row(st)
        BY Zenon, <1>8, <3>2
      <4>2. Row(st).status = "completed"
        BY <1>2, <1>14, <2>1, <4>1 DEF Passes
      <4> QED
        BY Zenon, <4>1, <4>2
    <3> QED
      BY Zenon, <3>1, <3>2
  <2>3. ASSUME HasRead(s, X, c.run)', HasRead(s, X, c.n)'
        PROVE  Replayable(Read(s, X, c.n)')
    <3>1. CASE HasRead(s, X, c.n)
      <4>1. Read(s, X, c.n)' = Read(s, X, c.n)
        BY <1>7, <2>1, <3>1 DEF Table
      <4>2. CASE HasRead(s, X, c.run)
        BY Zenon, <1>4, <1>6, <1>14, <3>1, <4>1, <4>2 DEF Passed
      <4>3. CASE ~HasRead(s, X, c.run)
        <5>1. st.table = X /\ st.run = c.run
          BY Zenon, <1>8, <2>3, <4>3
        <5>2. Replayable(txn[s].seen[<<X, c.n>>])
          BY <1>2, <1>14, <5>1 DEF Passes
        <5> QED
          BY Zenon, <4>1, <5>2 DEF Read
      <4> QED
        BY Zenon, <4>2, <4>3
    <3>2. CASE ~HasRead(s, X, c.n)
      <4>1. st.table = X /\ st.run = c.n
        BY Zenon, <1>8, <2>3, <3>2
      <4>2. HasRead(s, X, c.run)
        BY Zenon, <1>8, <2>1, <2>3, <4>1
      <4>3. PICK j \in Executed(s) : Statement(s, j).table = X /\ Statement(s, j).run = c.run
        BY <1>4, <4>2, ReadByStatement
      <4>4. Ordered(c, Program(c), txn[s].pc + 1) /\ txn[s].pc \in Nat
        BY Zenon, NextStatement
      <4>5. Program(c)[j].table = X /\ Program(c)[j].run = c.run /\ j \in 1 .. txn[s].pc + 1 - 1
        BY SMTT(30), <1>6, <4>2, <4>3, <4>4 DEF Statement, Executed
      <4>6. Program(c)[j].run < st.run
        BY <4>1, <4>4, <4>5 DEF Ordered
      <4> QED
        BY <2>1, <4>1, <4>5, <4>6
    <3> QED
      BY Zenon, <3>1, <3>2
  <2> QED
    BY Zenon, <2>2, <2>3
<1> QED
  BY Zenon, <1>1, <1>9, <1>10, <1>11, <1>12, <1>13, <1>14 DEF Passed

\* The row was free: nobody else has locked it.
LEMMA ExecutorApart ==
  ASSUME NEW s \in Session, NEW c, LedgerInv, MayExecute(s, c), Execute(s, c),
         NEW st, st = Program(c)[txn[s].pc + 1], NEW o \in Session \ {s}
  PROVE  Apart(s, o)'
<1> DEFINE X == "workflow_executions"
<1>1. /\ txn'[s] = [stage |-> "called", now |-> txn[s].now, call |-> c, pc |-> txn[s].pc + 1,
                    seen |-> Noted(txn[s].seen, st, Row(st))]
      /\ txn'[o] = txn[o] /\ UNCHANGED tables
      /\ Free(s, st)
  BY ZenonT(30), Executes
<1>2. /\ txn'[s].call = c /\ txn'[o].call = txn[o].call
      /\ workflow_executions' = workflow_executions
  <2>1. workflow_executions' = workflow_executions
    BY Zenon, <1>1 DEF tables, ledger
  <2>2. txn'[o].call = txn[o].call
    BY Zenon, <1>1
  <2>3. txn'[s].call = c
    BY SMTT(30), <1>1
  <2> QED
    BY Zenon, <2>1, <2>2, <2>3
<1>3. ~Excludes(o, st)
  BY Zenon, <1>1 DEF Free
<1>4. Adds(s, st)
  BY Zenon, StatementAdds
<1>5. SessionOK(s) /\ SessionOK(o) /\ UpToDate(o) /\ TablesOK /\ Apart(s, o)
  BY Zenon DEF LedgerInv
<1>6. Placed(c, st)
  BY Zenon, NextStatement
<1>7. \A table, r : HasRead(o, table, r)' <=> HasRead(o, table, r)
  BY Zenon, <1>4 DEF Adds
<1>8. \A table, r : HasRead(s, table, r)' /\ ~HasRead(s, table, r) =>
        table = st.table /\ r = st.run
  BY Zenon, <1>4 DEF Adds
<1>9. \A table, r : HasRead(s, table, r) => c = txn[s].call
  BY Zenon, <1>5, ReadByStatement DEF MayExecute
<1>10. st.lock \in {"update", "share"} /\ HasRead(o, st.table, st.run) =>
         /\ st.table \notin {"runs", "memory_key"}
         /\ st.table = X /\ workflow_executions[st.run].status # "none" =>
              st.lock # "update" /\ st.run # txn[o].call.run
  <2>1. SUFFICES ASSUME st.lock \in {"update", "share"}, HasRead(o, st.table, st.run)
                 PROVE  /\ st.table \notin {"runs", "memory_key"}
                        /\ st.table = X /\ workflow_executions[st.run].status # "none" =>
                             st.lock # "update" /\ st.run # txn[o].call.run
    BY Zenon
  <2>2. /\ st.table \in {"runs", "memory_key"} => Excludes(o, st)
        /\ /\ st.table = X
           /\ workflow_executions[st.run].status # "none"
           /\ st.lock = "update" \/ st.run = txn[o].call.run
           => Excludes(o, st)
    BY <1>5, <2>1, LocksHold
  <2> QED
    BY Zenon, <1>3, <2>2
<1>11. ASSUME NEW r \in Run, HasRead(s, "runs", r)', HasRead(o, "runs", r)'
       PROVE  FALSE
  BY ZenonT(30), <1>5, <1>6, <1>7, <1>8, <1>10, <1>11 DEF Apart, Placed
<1>12. ASSUME HasRead(s, "memory_key", 0)', HasRead(o, "memory_key", 0)'
       PROVE  FALSE
  BY <1>5, <1>6, <1>7, <1>8, <1>10, <1>12 DEF Apart, Placed
<1>13. ASSUME NEW r \in Run, HasRead(s, X, r)', HasRead(o, X, r)',
              workflow_executions[r].status # "none"
       PROVE  r # c.run /\ r # txn[o].call.run
  <2>1. CASE HasRead(s, X, r)
    BY Zenon, <1>5, <1>7, <1>9, <1>13, <2>1 DEF Apart
  <2>2. CASE ~HasRead(s, X, r)
    <3>1. st.table = X /\ st.run = r /\ HasRead(o, st.table, st.run)
      BY Zenon, <1>7, <1>8, <1>13, <2>2
    <3>2. st.lock = IF r = c.run THEN "update" ELSE "share"
      BY <1>6, <3>1 DEF Placed
    <3> QED
      BY <1>10, <1>13, <3>1, <3>2
  <2> QED
    BY Zenon, <2>1, <2>2
<1> QED
  BY Zenon, <1>2, <1>11, <1>12, <1>13 DEF Apart

\* Sessions that do nothing stay apart while their tables stay put.
LEMMA BystandersApart ==
  ASSUME NEW s, NEW o, Apart(s, o), txn'[s] = txn[s], txn'[o] = txn[o],
         workflow_executions' = workflow_executions
  PROVE  Apart(s, o)'
  BY Zenon DEF Apart, HasRead

\* What others have read stands while the tables stay put.
LEMMA BystanderReads ==
  ASSUME NEW o, UpToDate(o), txn'[o] = txn[o], UNCHANGED tables
  PROVE  UpToDate(o)'
<1>1. \A table, r : RowOf(table, r)' = RowOf(table, r)
  BY Zenon, SameRows
<1>2. \A table, r : (HasRead(o, table, r)' <=> HasRead(o, table, r))
                    /\ Read(o, table, r)' = Read(o, table, r)
  BY Zenon DEF HasRead, Read
<1> QED
  BY Zenon, <1>1, <1>2 DEF UpToDate

\* Tables that stay put keep their types.
LEMMA SameTables ==
  ASSUME TablesOK, load' = load, now' = now, UNCHANGED tables
  PROVE  TablesOK'
  BY Zenon DEF TablesOK, tables, ledger, memory

\* A statement keeps the invariant.
LEMMA StatementKeeps ==
  ASSUME NEW s \in Session, NEW c, LedgerInv, MayExecute(s, c), Execute(s, c)
  PROVE  LedgerInv'
<1>1. PICK st : st = Program(c)[txn[s].pc + 1]
  OBVIOUS
<1>2. /\ UNCHANGED <<load, now, tables, plan>>
      /\ DOMAIN txn' = Session
      /\ \A o \in Session \ {s} : txn'[o] = txn[o]
  BY Zenon, Executes
<1>3. load' = load /\ now' = now /\ UNCHANGED tables /\ workflow_executions' = workflow_executions
  BY <1>2 DEF tables, ledger
<1>4. SessionOK(s)' /\ UpToDate(s)' /\ Passed(s)'
  BY Zenon, <1>1, ExecutorSteps, ExecutorPasses
<1>5. ASSUME NEW o \in Session \ {s}
      PROVE  SessionOK(o)' /\ UpToDate(o)' /\ Passed(o)'
  BY Zenon, <1>2, <1>3, Bystander, BystanderReads DEF LedgerInv
<1>6. ASSUME NEW o \in Session \ {s}
      PROVE  Apart(s, o)' /\ Apart(o, s)'
  <2>1. Apart(s, o)'
    BY Zenon, <1>1, ExecutorApart
  <2> QED
    BY Zenon, <2>1 DEF Apart
<1>7. ASSUME NEW a \in Session \ {s}, NEW o \in Session \ {s, a}
      PROVE  Apart(a, o)'
  <2>1. Apart(a, o) /\ txn'[a] = txn[a] /\ txn'[o] = txn[o]
    BY Zenon, <1>2 DEF LedgerInv
  <2> QED
    BY Zenon, <1>3, <2>1, BystandersApart
<1>8. TablesOK'
  BY Zenon, <1>3, SameTables DEF LedgerInv
<1>9. \A a \in Session : \A o \in Session \ {a} : Apart(a, o)'
  BY Zenon, <1>6, <1>7
<1> QED
  BY Zenon, <1>2, <1>4, <1>5, <1>8, <1>9 DEF LedgerInv

-----------------------------------------------------------------------------
(* Calls. *)

\* The calls that are made are good ones.
LEMMA CallsAreGood ==
  ASSUME TablesOK, NEW name \in load.methods, NEW r \in load.runs, NEW c \in Calls(name, r)
  PROVE  GoodCall(c) /\ c.name = name
<1> DEFINE Of(t, n, what) == [name |-> name, run |-> r, token |-> t, n |-> n, what |-> what]
<1>0. /\ name \in Method /\ r \in Run /\ Run \subseteq Nat /\ load.runs \subseteq Run
      /\ runs[r].claims \in Nat /\ tool_calls[r].attempt \in Nat
      /\ external_actions[r].dispatch \in Nat
  BY Zenon, PostgresLedgerAssumption DEF TablesOK
<1>1. CASE name = "mark_running"
  <2>1. \E t \in 1 .. runs[r].claims : c = Of(t, 0, "running")
    BY <1>1 DEF Calls
  <2> QED
    BY <1>0, <1>1, <2>1 DEF GoodCall, Outcome
<1>2. CASE name = "_finalize_execution"
  <2>1. \E t \in 1 .. runs[r].claims, what \in {"ready", "failed"} : c = Of(t, 0, what)
    BY <1>2 DEF Calls
  <2> QED
    BY <1>0, <1>2, <2>1 DEF GoodCall, Outcome
<1>3. CASE name = "_finalize_step"
  <2>1. \E t \in 1 .. runs[r].claims, n \in 1 .. tool_calls[r].attempt,
           what \in {"completed", "failed"} : c = Of(t, n, what)
    BY <1>3 DEF Calls
  <2> QED
    BY <1>0, <1>3, <2>1 DEF GoodCall, Outcome
<1>4. CASE name = "reuse_completed_step"
  <2>1. PICK t \in 1 .. runs[r].claims, q \in load.runs : q < r /\ c = Of(t, q, "none")
    BY <1>4 DEF Calls
  <2>2. t \in Nat /\ q \in Nat /\ q \in Run
    BY <1>0, <2>1
  <2> QED
    BY <1>0, <1>4, <2>1, <2>2 DEF GoodCall
<1>5. CASE name = "retry_external_action_dispatch"
  <2>1. \E t \in 1 .. runs[r].claims, n \in 1 .. external_actions[r].dispatch :
           c = Of(t, n, "none")
    BY <1>5 DEF Calls
  <2> QED
    BY <1>0, <1>5, <2>1 DEF GoodCall, Outcome
<1>6. CASE name = "finalize_external_action"
  <2>1. \E n \in 1 .. external_actions[r].dispatch, what \in Outcome : c = Of(0, n, what)
    BY <1>6 DEF Calls
  <2> QED
    BY <1>0, <1>6, <2>1 DEF GoodCall, Outcome
<1>7. CASE name = "finalize_reconciliation_unknown"
  <2>1. \E t \in 1 .. runs[r].claims, n \in 1 .. external_actions[r].dispatch :
           c = Of(t, n, "outcome_unknown")
    BY <1>7 DEF Calls
  <2> QED
    BY <1>0, <1>7, <2>1 DEF GoodCall, Outcome
<1>8. CASE name \in {"apply_quarantine_resolution", "forget_memory"}
  <2>1. c = Of(0, 0, "none")
    BY <1>8 DEF Calls
  <2> QED
    BY <1>0, <1>8, <2>1 DEF GoodCall, Outcome
<1>9. CASE name = "upsert"
  <2>1. c = Of(0, 0, "w")
    BY <1>9 DEF Calls
  <2> QED
    BY <1>0, <1>9, <2>1 DEF GoodCall, Outcome
<1>10. CASE name = "upsert_from_run"
  <2>1. \E t \in 1 .. runs[r].claims : c = Of(t, 0, "v")
    BY <1>10 DEF Calls
  <2> QED
    BY <1>0, <1>10, <2>1 DEF GoodCall, Outcome
<1>11. CASE name \in {"create_or_get_execution", "append_event", "claim_step", "recover_interrupted_step",
                    "prepare_external_action", "begin_external_action_dispatch",
                    "commit_completed_run", "quarantine_checkpoint_conflict",
                    "get_or_create_run_snapshot"}
  <2>1. \E t \in 1 .. runs[r].claims : c = Of(t, 0, "none")
    BY <1>11 DEF Calls
  <2> QED
    BY <1>0, <1>11, <2>1 DEF GoodCall, Outcome
<1> QED
  BY Zenon, <1>0, <1>1, <1>2, <1>3, <1>4, <1>5, <1>6, <1>7, <1>8, <1>9, <1>10, <1>11 DEF Method

\* A session without reads has nothing to lose.
Fresh(x) ==
  /\ x = [stage |-> x.stage, now |-> x.now, call |-> NoCall, pc |-> 0, seen |-> <<>>]
  /\ x.stage \in {"idle", "open"}

\* Such a session keeps its part of the invariant.
LEMMA FreshSession ==
  ASSUME NEW s, Fresh(txn[s]')
  PROVE  SessionOK(s)' /\ UpToDate(s)' /\ Passed(s)' /\ \A o : Apart(s, o)' /\ Apart(o, s)'
<1>1. txn[s]'.pc = 0 /\ txn[s]'.seen = <<>> /\ txn[s]'.call = NoCall
  BY DEF Fresh
<1>2. DOMAIN txn[s]'.seen = {} /\ Executed(s)' = {}
  BY <1>1 DEF Executed
<1>3. \A table, r : ~HasRead(s, table, r)'
  BY <1>2 DEF HasRead
<1>4. SessionOK(s)'
  BY <1>1, <1>2 DEF SessionOK, Fresh
<1>5. UpToDate(s)'
  BY Zenon, <1>3 DEF UpToDate
<1>6. Passed(s)'
  BY Zenon, <1>3 DEF Passed
<1>7. \A o : Apart(s, o)' /\ Apart(o, s)'
  BY Zenon, <1>3 DEF Apart
<1> QED
  BY Zenon, <1>4, <1>5, <1>6, <1>7

\* Ending or beginning a transaction without a write keeps the invariant (BEGIN, ROLLBACK).
LEMMA SessionEnds ==
  ASSUME NEW s \in Session, LedgerInv, NEW x, Fresh(x), txn' = [txn EXCEPT ![s] = x],
         load' = load, now' = now, UNCHANGED tables
  PROVE  LedgerInv'
<1>1. /\ DOMAIN txn' = Session /\ txn'[s] = x
      /\ \A o \in Session \ {s} : txn'[o] = txn[o]
  BY DEF LedgerInv
<1>2. SessionOK(s)' /\ UpToDate(s)' /\ Passed(s)' /\ \A o : Apart(s, o)' /\ Apart(o, s)'
  BY Zenon, <1>1, FreshSession
<1>3. \A o \in Session \ {s} : SessionOK(o)' /\ UpToDate(o)' /\ Passed(o)'
  BY Zenon, <1>1, Bystander, BystanderReads DEF LedgerInv
<1>4. \A a \in Session \ {s} : \A o \in Session \ {s, a} : Apart(a, o)'
  <2>1. workflow_executions' = workflow_executions
    BY Zenon DEF tables, ledger
  <2> QED
    BY Zenon, <1>1, <2>1, BystandersApart DEF LedgerInv
<1>5. TablesOK'
  BY Zenon, SameTables DEF LedgerInv
<1>6. \A a \in Session : \A o \in Session \ {a} : Apart(a, o)'
  BY Zenon, <1>2, <1>4
<1> QED
  BY Zenon, <1>1, <1>2, <1>3, <1>5, <1>6 DEF LedgerInv

\* What sessions do without writing keeps the invariant.
LEMMA SessionsKeep ==
  ASSUME NEW s \in Session, LedgerInv, Begin(s) \/ Rollback(s) \/ Call(s) \/ Continue(s)
  PROVE  LedgerInv'
<1>1. CASE Call(s)
  <2>1. PICK name \in load.methods, r \in load.runs : \E c \in Calls(name, r) : Execute(s, c)
    BY Zenon, <1>1 DEF Call
  <2>2. PICK c \in Calls(name, r) : Execute(s, c)
    BY Zenon, <2>1
  <2>3. GoodCall(c) /\ c.name = name
    BY Zenon, CallsAreGood DEF LedgerInv
  <2>4. txn[s].stage = "open" /\ txn[s].pc = 0
    BY Zenon, <1>1 DEF Call, LedgerInv, SessionOK
  <2>5. Len(Program(c)) \in Nat \ {0}
    BY Zenon, <2>3, MethodsAreDisciplined DEF Disciplined
  <2>6. txn[s].pc < Len(Program(c))
    BY <2>4, <2>5
  <2>7. MayExecute(s, c)
    BY Zenon, <2>3, <2>4, <2>6 DEF MayExecute
  <2> QED
    BY Zenon, <2>2, <2>7, StatementKeeps
<1>2. CASE Continue(s)
  <2>1. SessionOK(s) /\ txn[s].stage = "called" /\ Execute(s, txn[s].call)
        /\ txn[s].pc < Len(Program(txn[s].call))
    BY Zenon, <1>2 DEF Continue, LedgerInv
  <2>2. PICK c : c = txn[s].call
    OBVIOUS
  <2>3. MayExecute(s, c)
    BY Zenon, <2>1, <2>2 DEF MayExecute, SessionOK
  <2> QED
    BY Zenon, <2>1, <2>2, <2>3, StatementKeeps
<1>3. CASE Begin(s) \/ Rollback(s)
  <2>1. PICK x : Fresh(x) /\ txn' = [txn EXCEPT ![s] = x]
    <3>1. Fresh(Idle)
      BY DEF Fresh, Idle
    <3>2. Fresh([stage |-> "open", now |-> now, call |-> NoCall, pc |-> 0, seen |-> <<>>])
      BY DEF Fresh
    <3> QED
      BY Zenon, <1>3, <3>1, <3>2 DEF Begin, Rollback
  <2>2. /\ load' = load /\ now' = now /\ UNCHANGED tables
        /\ workflow_executions' = workflow_executions
    BY <1>3 DEF Begin, Rollback, tables, ledger
  <2> QED
    BY Zenon, <2>1, <2>2, SessionEnds
<1> QED
  BY Zenon, <1>1, <1>2, <1>3

-----------------------------------------------------------------------------
(* Commits. *)

\* What a session knows when it has executed every statement of its call.
Known(s) ==
  LET c == txn[s].call
      x == txn[s].seen
  IN  /\ GoodCall(c) /\ c.name \in load.methods
      /\ c.name \in LedgerMethod =>
           /\ HasRead(s, "workflow_executions", c.run)
           /\ workflow_executions[c.run].status # "none"
           /\ c.name # "finalize_external_action" => runs[c.run].status = "running"
      /\ c.name = "claim_step" =>
           /\ x[<<"tool_calls", c.run>>] = tool_calls[c.run]
           /\ \/ tool_calls[c.run].status = "none"
              \/ tool_calls[c.run].status = "failed" /\ tool_calls[c.run].attempt < load.max_attempts
      /\ c.name = "prepare_external_action" => tool_calls[c.run].status = "running"
      /\ c.name = "retry_external_action_dispatch" => external_actions[c.run].mode # "unsafe"
      /\ c.name = "reuse_completed_step" =>
           /\ Replayable(workflow_executions[c.n])
           /\ tool_calls[c.n].status = "completed"
           /\ x[<<"tool_calls", c.n>>] = tool_calls[c.n]
      /\ c.name = "create_or_get_execution" =>
           HasRead(s, "runs", c.run) /\ runs[c.run].status = "running"
      /\ c.name \in {"commit_completed_run", "quarantine_checkpoint_conflict"} =>
           /\ HasRead(s, "runs", c.run) /\ runs[c.run].status = "running"
           /\ HasRead(s, "thread_states", c.run)
           /\ x[<<"thread_states", c.run>>] = thread_states[c.run]
      /\ c.name = "apply_quarantine_resolution" =>
           /\ HasRead(s, "runs", c.run)
           /\ x[<<"evidence", c.run>>] = _derive_quarantine_plan(c.run)
      /\ c.name \in {"upsert", "upsert_from_run", "forget_memory"} =>
           HasRead(s, "memory_key", 0) /\ x[<<"memory_records", 0>>] = memory_records
      /\ c.name = "get_or_create_run_snapshot" => HasRead(s, "runs", c.run)

\* A method that comes to its writes knows what its checks of the rows said, and
\* the rows are still the same.
LEMMA CommitsKnow ==
  ASSUME NEW s \in Session, LedgerInv, txn[s].stage = "called",
         txn[s].pc = Len(Program(txn[s].call))
  PROVE  Known(s)
<1>1. PICK c : c = txn[s].call
  OBVIOUS
<1>2. PICK p : p = Program(c)
  OBVIOUS
<1>3. /\ SessionOK(s) /\ UpToDate(s) /\ Passed(s)
      /\ GoodCall(c) /\ c.name \in load.methods /\ c.run \in Run
      /\ Disciplined(c, p)
  <2>1. SessionOK(s) /\ UpToDate(s) /\ Passed(s) /\ GoodCall(c) /\ c.name \in load.methods
    BY Zenon, <1>1 DEF LedgerInv, SessionOK
  <2>2. c.run \in Run
    BY <2>1 DEF GoodCall
  <2> QED
    BY Zenon, <1>2, <2>1, <2>2, MethodsAreDisciplined
<1>4. ASSUME NEW table, NEW r, Reads(p, table, r)
      PROVE  HasRead(s, table, r)
  <2>1. Executed(s) = 1 .. Len(p)
    BY Zenon, <1>1, <1>2 DEF Executed
  <2>2. PICK i \in 1 .. Len(p) : p[i].table = table /\ p[i].run = r
    BY Zenon, <1>4 DEF Reads
  <2>3. Statement(s, i) = p[i]
    BY Zenon, <1>1, <1>2 DEF Statement
  <2>4. HasRead(s, Statement(s, i).table, Statement(s, i).run)
    BY Zenon, <1>3, <2>1, <2>2, ReadByStatement
  <2> QED
    BY Zenon, <2>2, <2>3, <2>4
<1>5. \A r : Covered(s, r)
  BY Zenon, <1>3, ReadsAreCovered
<1>6. \A r \in Run :
        /\ HasRead(s, "runs", r) => txn[s].seen[<<"runs", r>>] = runs[r]
        /\ HasRead(s, "thread_states", r) => txn[s].seen[<<"thread_states", r>>] = thread_states[r]
        /\ HasRead(s, "workflow_executions", r) =>
             txn[s].seen[<<"workflow_executions", r>>] = workflow_executions[r]
        /\ HasRead(s, "tool_calls", r) => txn[s].seen[<<"tool_calls", r>>] = tool_calls[r]
        /\ HasRead(s, "external_actions", r) =>
             txn[s].seen[<<"external_actions", r>>] = external_actions[r]
        /\ HasRead(s, "evidence", r) => txn[s].seen[<<"evidence", r>>] = _derive_quarantine_plan(r)
  BY <1>3 DEF UpToDate, RowOf, Row, Read, Table
<1>7. HasRead(s, "memory_records", 0) => txn[s].seen[<<"memory_records", 0>>] = memory_records
  BY <1>3 DEF UpToDate, RowOf, Row, Read, Table
<1>8. Complete(c, p)
  BY Zenon, <1>3 DEF Disciplined
<1>9. c.name \in LedgerMethod =>
        /\ HasRead(s, "workflow_executions", c.run)
        /\ workflow_executions[c.run].status # "none"
        /\ c.name # "finalize_external_action" => runs[c.run].status = "running"
  <2> SUFFICES ASSUME c.name \in LedgerMethod
               PROVE  /\ HasRead(s, "workflow_executions", c.run)
                      /\ workflow_executions[c.run].status # "none"
                      /\ c.name # "finalize_external_action" => runs[c.run].status = "running"
    OBVIOUS
  <2>1. HasRead(s, "workflow_executions", c.run)
    <3>1. HasRead(s, "workflow_events", c.run)
      BY Zenon, <1>4, <1>8 DEF Complete
    <3> QED
      BY Zenon, <1>5, <3>1 DEF Covered
  <2>2. c.name # "create_or_get_execution"
        /\ (c.name # "finalize_external_action" => c.name \notin Unfenced)
    BY DEF LedgerMethod, Unfenced
  <2>3. workflow_executions[c.run].status # "none"
    BY Zenon, <1>1, <1>3, <1>6, <2>1, <2>2 DEF Passed, Read
  <2>4. c.name # "finalize_external_action" => HasRead(s, "runs", c.run)
    BY Zenon, <1>1, <1>5, <2>1 DEF Covered
  <2>5. c.name # "finalize_external_action" => runs[c.run].status = "running"
    BY Zenon, <1>1, <1>3, <1>6, <2>2, <2>4 DEF Passed, Read
  <2> QED
    BY Zenon, <2>1, <2>3, <2>5
<1>10. c.name = "claim_step" =>
         /\ txn[s].seen[<<"tool_calls", c.run>>] = tool_calls[c.run]
         /\ \/ tool_calls[c.run].status = "none"
            \/ tool_calls[c.run].status = "failed" /\ tool_calls[c.run].attempt < load.max_attempts
  BY Zenon, <1>1, <1>3, <1>4, <1>6, <1>8 DEF Complete, Passed, Read
<1>11. c.name = "prepare_external_action" => tool_calls[c.run].status = "running"
  BY Zenon, <1>1, <1>3, <1>4, <1>6, <1>8 DEF Complete, Passed, Read
<1>12. c.name = "retry_external_action_dispatch" => external_actions[c.run].mode # "unsafe"
  BY Zenon, <1>1, <1>3, <1>4, <1>6, <1>8 DEF Complete, Passed, Read
<1>13. c.name = "reuse_completed_step" =>
         /\ Replayable(workflow_executions[c.n])
         /\ tool_calls[c.n].status = "completed"
         /\ txn[s].seen[<<"tool_calls", c.n>>] = tool_calls[c.n]
  <2> SUFFICES ASSUME c.name = "reuse_completed_step"
               PROVE  /\ Replayable(workflow_executions[c.n])
                      /\ tool_calls[c.n].status = "completed"
                      /\ txn[s].seen[<<"tool_calls", c.n>>] = tool_calls[c.n]
    OBVIOUS
  <2>1. c.n \in Run /\ c.name \in LedgerMethod
    BY <1>3 DEF GoodCall, LedgerMethod
  <2>2. /\ HasRead(s, "workflow_executions", c.n) /\ HasRead(s, "tool_calls", c.n)
        /\ HasRead(s, "workflow_executions", c.run)
    BY Zenon, <1>4, <1>8, <1>9, <2>1 DEF Complete
  <2> QED
    BY Zenon, <1>1, <1>3, <1>6, <2>1, <2>2 DEF Passed, Read
<1>14. c.name = "create_or_get_execution" =>
         HasRead(s, "runs", c.run) /\ runs[c.run].status = "running"
  <2>1. c.name = "create_or_get_execution" => c.name \notin Unfenced
    BY DEF Unfenced
  <2> QED
    BY Zenon, <1>1, <1>3, <1>4, <1>6, <1>8, <2>1 DEF Complete, Passed, Read
<1>15. c.name \in {"commit_completed_run", "quarantine_checkpoint_conflict"} =>
         /\ HasRead(s, "runs", c.run) /\ runs[c.run].status = "running"
         /\ HasRead(s, "thread_states", c.run)
         /\ txn[s].seen[<<"thread_states", c.run>>] = thread_states[c.run]
  <2> SUFFICES ASSUME c.name \in {"commit_completed_run", "quarantine_checkpoint_conflict"}
               PROVE  /\ HasRead(s, "runs", c.run) /\ runs[c.run].status = "running"
                      /\ HasRead(s, "thread_states", c.run)
                      /\ txn[s].seen[<<"thread_states", c.run>>] = thread_states[c.run]
    OBVIOUS
  <2>1. HasRead(s, "thread_states", c.run)
    BY Zenon, <1>4, <1>8 DEF Complete
  <2>2. HasRead(s, "runs", c.run)
    BY Zenon, <1>5, <2>1 DEF Covered
  <2>3. c.name \notin Unfenced
    BY DEF Unfenced
  <2> QED
    BY Zenon, <1>1, <1>3, <1>6, <2>1, <2>2, <2>3 DEF Passed, Read
<1>16. c.name = "apply_quarantine_resolution" =>
         /\ HasRead(s, "runs", c.run)
         /\ txn[s].seen[<<"evidence", c.run>>] = _derive_quarantine_plan(c.run)
  BY Zenon, <1>3, <1>4, <1>5, <1>6, <1>8 DEF Complete, Covered
<1>17. c.name \in {"upsert", "upsert_from_run", "forget_memory"} =>
         HasRead(s, "memory_key", 0) /\ txn[s].seen[<<"memory_records", 0>>] = memory_records
  BY Zenon, <1>4, <1>5, <1>7, <1>8 DEF Complete, Covered
<1>18. c.name = "get_or_create_run_snapshot" => HasRead(s, "runs", c.run)
  BY Zenon, <1>4, <1>5, <1>8 DEF Complete, Covered
<1> QED
  BY Zenon, <1>1, <1>3, <1>9, <1>10, <1>11, <1>12, <1>13, <1>14, <1>15, <1>16, <1>17,
       <1>18 DEF Known

\* The writes leave the rows alone on which session o relies.
Untouched(o) ==
  /\ \A q \in Run : HasRead(o, "runs", q) =>
       runs'[q] = runs[q] /\ run_memory_snapshots'[q] = run_memory_snapshots[q]
  /\ \A q \in Run : HasRead(o, "thread_states", q) => thread_states'[q] = thread_states[q]
  /\ \A q \in Run : HasRead(o, "workflow_executions", q) =>
       /\ workflow_executions'[q] = workflow_executions[q]
       /\ tool_calls'[q] = tool_calls[q]
       /\ external_actions'[q] = external_actions[q]
       /\ workflow_events'[q] = workflow_events[q]
  /\ HasRead(o, "memory_key", 0) => memory_records' = memory_records

\* A session whose rows are left alone keeps its part of the invariant.
LEMMA UntouchedKeeps ==
  ASSUME NEW o, SessionOK(o), UpToDate(o), Untouched(o), txn'[o] = txn[o]
  PROVE  UpToDate(o)'
<1>1. \A table, r : (HasRead(o, table, r)' <=> HasRead(o, table, r))
                    /\ Read(o, table, r)' = Read(o, table, r)
  BY Zenon DEF HasRead, Read
<1>2. \A r : Covered(o, r)
  BY Zenon, ReadsAreCovered
<1>3. ASSUME NEW table \in Table \ {"offered"}, NEW r \in Run \cup {0}, HasRead(o, table, r)
      PROVE  RowOf(table, r)' = RowOf(table, r)
  <2>1. PICK i \in Executed(o) : Statement(o, i).table = table /\ Statement(o, i).run = r
    BY <1>3, ReadByStatement
  <2>2. Placed(txn[o].call, Statement(o, i))
    BY Zenon, ExecutedStatement
  <2>3. table \notin {"memory_key", "memory_records"} => r \in Run
    BY <2>1, <2>2 DEF Placed
  <2>4. CASE table \in {"runs", "run_memory_snapshots", "thread_states"}
    <3>1. HasRead(o, "runs", r) /\ r \in Run
      BY <1>2, <1>3, <2>3, <2>4 DEF Covered
    <3> QED
      BY <1>3, <2>4, <3>1 DEF Untouched, RowOf, Row
  <2>5. CASE table \in {"workflow_executions", "tool_calls", "external_actions", "workflow_events"}
    <3>1. HasRead(o, "workflow_executions", r) /\ r \in Run
      BY <1>2, <1>3, <2>3, <2>5 DEF Covered
    <3> QED
      BY <2>5, <3>1 DEF Untouched, RowOf, Row
  <2>6. CASE table = "evidence"
    <3>1. /\ HasRead(o, "workflow_executions", r) /\ HasRead(o, "runs", r)
          /\ HasRead(o, "thread_states", r) /\ r \in Run
      BY <1>2, <1>3, <2>3, <2>6 DEF Covered
    <3> QED
      BY <2>6, <3>1 DEF Untouched, RowOf, Row, _derive_quarantine_plan,
                        _workflow_evidence_fingerprint
  <2>7. CASE table = "memory_key"
    BY <2>7 DEF RowOf, Row
  <2>8. CASE table = "memory_records"
    <3>1. memory_records' = memory_records
      BY Zenon, <1>2, <1>3, <2>8 DEF Covered, Untouched
    <3> QED
      BY <2>8, <3>1 DEF RowOf, Row
  <2> QED
    BY Zenon, <2>4, <2>5, <2>6, <2>7, <2>8 DEF Table
<1>4. ASSUME NEW table \in Table \ {"offered"}, NEW r \in Run \cup {0}, HasRead(o, table, r)'
      PROVE  Read(o, table, r)' = RowOf(table, r)'
  <2>1. HasRead(o, table, r)
    BY Zenon, <1>1, <1>4
  <2>2. Read(o, table, r) = RowOf(table, r)
    BY Zenon, <2>1 DEF UpToDate
  <2>3. RowOf(table, r)' = RowOf(table, r)
    BY Zenon, <1>3, <2>1
  <2>4. Read(o, table, r)' = Read(o, table, r)
    BY Zenon, <1>1
  <2> QED
    BY Zenon, <2>2, <2>3, <2>4
<1> QED
  BY Zenon, <1>4 DEF UpToDate

\* Two of them stay apart.
LEMMA UntouchedApart ==
  ASSUME NEW s, NEW o, Apart(s, o), Untouched(o), txn'[s] = txn[s], txn'[o] = txn[o]
  PROVE  Apart(s, o)'
  BY Zenon DEF Apart, HasRead, Untouched

\* The writes of session s are to rows that it has locked.
Touches(s) ==
  LET c == txn[s].call
  IN  /\ \A q \in Run :
           runs'[q] # runs[q] \/ run_memory_snapshots'[q] # run_memory_snapshots[q] =>
             HasRead(s, "runs", q)
      /\ \A q \in Run : thread_states'[q] # thread_states[q] => HasRead(s, "thread_states", q)
      /\ \A q \in Run :
           \/ workflow_executions'[q] # workflow_executions[q]
           \/ tool_calls'[q] # tool_calls[q] \/ external_actions'[q] # external_actions[q]
           \/ workflow_events'[q] # workflow_events[q]
           => q = c.run /\ IF workflow_executions[q].status = "none"
                           THEN HasRead(s, "runs", q) ELSE HasRead(s, "workflow_executions", q)
      /\ memory_records' # memory_records => HasRead(s, "memory_key", 0)

\* They leave alone what the others rely on.  Another session that found the
\* execution missing is about to create it, and has the Run.
LEMMA TouchesSpareOthers ==
  ASSUME NEW s \in Session, NEW o \in Session \ {s}, LedgerInv, Touches(s)
  PROVE  Untouched(o)
<1>1. SessionOK(o) /\ UpToDate(o) /\ Passed(o) /\ SessionOK(s) /\ Apart(s, o)
  BY Zenon DEF LedgerInv
<1>2. \A r : Covered(o, r) /\ Covered(s, r)
  BY Zenon, <1>1, ReadsAreCovered
<1>3. \A q \in Run : HasRead(o, "runs", q) =>
        runs'[q] = runs[q] /\ run_memory_snapshots'[q] = run_memory_snapshots[q]
  BY Zenon, <1>1 DEF Touches, Apart
<1>4. \A q \in Run : HasRead(o, "thread_states", q) => thread_states'[q] = thread_states[q]
  BY Zenon, <1>1, <1>2 DEF Touches, Apart, Covered
<1>5. ASSUME NEW q \in Run, HasRead(o, "workflow_executions", q)
      PROVE  /\ workflow_executions'[q] = workflow_executions[q]
             /\ tool_calls'[q] = tool_calls[q]
             /\ external_actions'[q] = external_actions[q]
             /\ workflow_events'[q] = workflow_events[q]
  <2>1. CASE workflow_executions[q].status = "none"
    <3>1. Read(o, "workflow_executions", q) = workflow_executions[q]
      BY <1>1, <1>5 DEF UpToDate, RowOf, Row, Table
    <3>2. txn[o].call.name = "create_or_get_execution"
      BY Zenon, <1>1, <1>5, <2>1, <3>1 DEF Passed
    <3>3. q = txn[o].call.run
      BY <1>2, <1>5, <3>2 DEF Covered
    <3>4. HasRead(o, "runs", q)
      BY <1>2, <1>5, <3>2, <3>3 DEF Covered
    <3> QED
      BY Zenon, <1>1, <2>1, <3>4 DEF Touches, Apart
  <2>2. CASE workflow_executions[q].status # "none"
    BY Zenon, <1>1, <1>5, <2>2 DEF Touches, Apart
  <2> QED
    BY Zenon, <2>1, <2>2
<1>6. HasRead(o, "memory_key", 0) => memory_records' = memory_records
  BY Zenon, <1>1 DEF Touches, Apart
<1> QED
  BY Zenon, <1>3, <1>4, <1>5, <1>6 DEF Untouched

\* The writes of a ledger method: rows of its Run and no other.
OnlyLedger(r) ==
  /\ UNCHANGED <<load, now, runs, thread_states, memory, resolved>>
  /\ \A q \in Run \ {r} :
       /\ workflow_executions'[q] = workflow_executions[q] /\ tool_calls'[q] = tool_calls[q]
       /\ external_actions'[q] = external_actions[q] /\ workflow_events'[q] = workflow_events[q]

StepRow == [status : {"none", "running", "completed", "failed"}, attempt : Nat, result : Nat]

ActionRow == [status : {"none", "prepared", "dispatching"} \cup Outcome,
              dispatch : Nat, mode : {"unsafe", "provider_idempotent"}]

\* Events are added to those of the Run.
LEMMA EventsAdd ==
  ASSUME TablesOK, NEW c, c.run \in Run, NEW x, NEW k \in Nat, Events(c, x, k)
  PROVE  /\ workflow_events' \in [Run -> Nat]
         /\ \A q \in Run \ {c.run} : workflow_events'[q] = workflow_events[q]
<1>1. workflow_events \in [Run -> Nat] /\ workflow_events' = [workflow_events EXCEPT ![c.run] = @ + k]
  BY Zenon DEF Events, TablesOK
<1> QED
  BY <1>1

\* A step is written with its event.
LEMMA StepWrites ==
  ASSUME TablesOK, UNCHANGED <<load, now>>, NEW c, c.run \in Run, NEW x, NEW row \in StepRow,
         StepWritten(c, x, row)
  PROVE  TablesOK' /\ OnlyLedger(c.run)
<1>1. /\ tool_calls' = [tool_calls EXCEPT ![c.run] = row] /\ Events(c, x, 1)
      /\ UNCHANGED <<runs, thread_states, workflow_executions, external_actions, memory, resolved>>
  BY Zenon DEF StepWritten
<1>2. tool_calls \in [Run -> StepRow]
  BY Zenon DEF TablesOK, StepRow
<1>3. tool_calls' \in [Run -> StepRow] /\ \A q \in Run \ {c.run} : tool_calls'[q] = tool_calls[q]
  BY <1>1, <1>2
<1>4. /\ workflow_events' \in [Run -> Nat]
      /\ \A q \in Run \ {c.run} : workflow_events'[q] = workflow_events[q]
  BY <1>1, EventsAdd
<1>5. TablesOK'
  BY Zenon, <1>1, <1>3, <1>4 DEF TablesOK, StepRow, memory
<1> QED
  BY Zenon, <1>1, <1>3, <1>4, <1>5 DEF OnlyLedger

\* An action is written with its event.
LEMMA ActionWrites ==
  ASSUME TablesOK, UNCHANGED <<load, now>>, NEW c, c.run \in Run, NEW x, NEW row \in ActionRow,
         ActionWritten(c, x, row)
  PROVE  TablesOK' /\ OnlyLedger(c.run)
<1>1. /\ external_actions' = [external_actions EXCEPT ![c.run] = row] /\ Events(c, x, 1)
      /\ UNCHANGED <<runs, thread_states, workflow_executions, tool_calls, memory, resolved>>
  BY Zenon DEF ActionWritten
<1>2. external_actions \in [Run -> ActionRow]
  BY Zenon DEF TablesOK, ActionRow
<1>3. /\ external_actions' \in [Run -> ActionRow]
      /\ \A q \in Run \ {c.run} : external_actions'[q] = external_actions[q]
  BY <1>1, <1>2
<1>4. /\ workflow_events' \in [Run -> Nat]
      /\ \A q \in Run \ {c.run} : workflow_events'[q] = workflow_events[q]
  BY <1>1, EventsAdd
<1>5. TablesOK'
  BY Zenon, <1>1, <1>3, <1>4 DEF TablesOK, ActionRow, memory
<1> QED
  BY Zenon, <1>1, <1>3, <1>4, <1>5 DEF OnlyLedger

\* The writes of the ledger methods are of this kind, and so are those that
\* create an execution.
LEMMA LedgerWrites ==
  ASSUME TablesOK, UNCHANGED <<load, now>>, NEW c, GoodCall(c), NEW x, Write(c, x),
         c.name \in LedgerMethod \cup {"create_or_get_execution"},
         c.name = "reuse_completed_step" => x[<<"tool_calls", c.n>>] = tool_calls[c.n]
  PROVE  TablesOK' /\ OnlyLedger(c.run)
<1>0. c.run \in Run /\ c.n \in Nat /\ Run \subseteq Nat
  BY PostgresLedgerAssumption DEF GoodCall
<1>1. tool_calls[c.run] \in StepRow /\ external_actions[c.run] \in ActionRow
  BY Zenon, <1>0 DEF TablesOK, StepRow, ActionRow
<1>2. CASE c.name = "create_or_get_execution"
  <2>1. Created(c)
    BY <1>2 DEF Write
  <2>2. /\ workflow_executions' = [workflow_executions EXCEPT ![c.run].status = "pending"]
        /\ UNCHANGED <<runs, thread_states, tool_calls, external_actions, workflow_events,
                       memory, resolved>>
    BY Zenon, <2>1 DEF Created
  <2>3. /\ workflow_executions' \in
             [Run -> [status : {"none", "pending", "running", "ready", "failed", "blocked"}]]
        /\ \A q \in Run \ {c.run} : workflow_executions'[q] = workflow_executions[q]
    BY SMTT(30), <1>0, <2>2 DEF TablesOK
  <2> QED
    BY Zenon, <2>2, <2>3 DEF TablesOK, OnlyLedger, memory
<1>3. CASE c.name \in {"mark_running", "_finalize_execution"}
  <2>1. Transitioned(c, x)
    BY <1>3 DEF Write
  <2>2. /\ workflow_executions' = [workflow_executions EXCEPT ![c.run].status = c.what]
        /\ Events(c, x, 1)
        /\ UNCHANGED <<runs, thread_states, tool_calls, external_actions, memory, resolved>>
    BY Zenon, <2>1 DEF Transitioned
  <2>3. c.what \in {"running", "ready", "failed"}
    BY Zenon, <1>3 DEF GoodCall
  <2>4. /\ workflow_executions' \in
             [Run -> [status : {"none", "pending", "running", "ready", "failed", "blocked"}]]
        /\ \A q \in Run \ {c.run} : workflow_executions'[q] = workflow_executions[q]
    <3>1. workflow_executions \in
            [Run -> [status : {"none", "pending", "running", "ready", "failed", "blocked"}]]
      BY Zenon DEF TablesOK
    <3> QED
      BY <1>0, <2>2, <2>3, <3>1
  <2>5. /\ workflow_events' \in [Run -> Nat]
        /\ \A q \in Run \ {c.run} : workflow_events'[q] = workflow_events[q]
    BY <1>0, <2>2, EventsAdd
  <2> QED
    BY Zenon, <2>2, <2>4, <2>5 DEF TablesOK, OnlyLedger, memory
<1>4. CASE c.name = "claim_step"
  <2>1. _claim_retry(c, x)
    BY <1>4 DEF Write
  <2>2. PICK row : row = [status |-> "running", attempt |-> tool_calls[c.run].attempt + 1,
                          result |-> 0]
    BY Zenon
  <2>3. row \in StepRow
    BY <1>1, <2>2 DEF StepRow
  <2>4. StepWritten(c, x, row)
    BY ZenonT(30), <2>1, <2>2 DEF _claim_retry
  <2> QED
    BY Zenon, <1>0, <2>3, <2>4, StepWrites
<1>5. CASE c.name = "_finalize_step"
  <2>1. StepFinished(c, x)
    BY <1>5 DEF Write
  <2>2. PICK row : row = [tool_calls[c.run] EXCEPT !.status = c.what,
                            !.result = IF c.what = "completed" THEN c.run ELSE 0]
    OBVIOUS
  <2>3. c.what \in {"completed", "failed"}
    BY Zenon, <1>5 DEF GoodCall
  <2>4. row \in StepRow
    BY Zenon, <1>0, <1>1, <2>2, <2>3 DEF StepRow
  <2>5. StepWritten(c, x, row)
    BY ZenonT(30), <2>1, <2>2 DEF StepFinished
  <2> QED
    BY Zenon, <1>0, <2>4, <2>5, StepWrites
<1>6. CASE c.name = "recover_interrupted_step"
  <2>1. Interrupted(c, x)
    BY <1>6 DEF Write
  <2>2. PICK row : row = [tool_calls[c.run] EXCEPT !.status = "failed"]
    BY Zenon
  <2>3. row \in StepRow
    BY <1>1, <2>2 DEF StepRow
  <2>4. StepWritten(c, x, row)
    BY Zenon, <2>1, <2>2 DEF Interrupted
  <2> QED
    BY Zenon, <1>0, <2>3, <2>4, StepWrites
<1>7. CASE c.name = "reuse_completed_step"
  <2>1. Copied(c, x)
    BY <1>7 DEF Write
  <2>2. PICK row : row = [status |-> "completed", attempt |-> 0,
                          result |-> x[<<"tool_calls", c.n>>].result]
    BY Zenon
  <2>3. c.n \in Run /\ tool_calls[c.n].result \in Nat
    BY <1>7 DEF TablesOK, GoodCall
  <2>4. row \in StepRow
    BY <1>7, <2>2, <2>3 DEF StepRow
  <2>5. StepWritten(c, x, row)
    BY ZenonT(30), <2>1, <2>2 DEF Copied
  <2> QED
    BY Zenon, <1>0, <2>4, <2>5, StepWrites
<1>8. CASE c.name = "prepare_external_action"
  <2>1. Prepared(c, x)
    BY <1>8 DEF Write
  <2>2. PICK row : row = [external_actions[c.run] EXCEPT !.status = "prepared"]
    BY Zenon
  <2>3. row \in ActionRow
    BY <1>1, <2>2 DEF ActionRow
  <2>4. ActionWritten(c, x, row)
    BY Zenon, <2>1, <2>2 DEF Prepared
  <2> QED
    BY Zenon, <1>0, <2>3, <2>4, ActionWrites
<1>9. CASE c.name = "begin_external_action_dispatch"
  <2>1. Begun(c, x)
    BY <1>9 DEF Write
  <2>2. PICK row : row = [external_actions[c.run] EXCEPT !.status = "dispatching",
                                                         !.dispatch = @ + 1]
    OBVIOUS
  <2>3. row \in ActionRow
    <3>1. PICK a : a = external_actions[c.run]
      OBVIOUS
    <3>2. a \in ActionRow /\ a.dispatch \in Nat /\ a.dispatch + 1 \in Nat
      BY <1>1, <3>1 DEF ActionRow
    <3>3. row = [a EXCEPT !.status = "dispatching", !.dispatch = a.dispatch + 1]
      BY <2>2, <3>1
    <3> QED
      BY Zenon, <3>2, <3>3 DEF ActionRow
  <2>4. ActionWritten(c, x, row)
    BY Zenon, <2>1, <2>2 DEF Begun
  <2> QED
    BY Zenon, <1>0, <2>3, <2>4, ActionWrites
<1>10. CASE c.name = "retry_external_action_dispatch"
  <2>1. Retried(c, x)
    BY Zenon, <1>10 DEF Write
  <2>2. PICK row : row = [external_actions[c.run] EXCEPT !.dispatch = @ + 1]
    BY Zenon
  <2>3. row \in ActionRow
    BY <1>1, <2>2 DEF ActionRow
  <2>4. ActionWritten(c, x, row)
    BY Zenon, <2>1, <2>2 DEF Retried
  <2> QED
    BY Zenon, <1>0, <2>3, <2>4, ActionWrites
<1>11. CASE c.name \in {"finalize_external_action", "finalize_reconciliation_unknown"}
  <2>1. Finalized(c, x)
    BY Zenon, <1>11 DEF Write
  <2>2. /\ external_actions' = [external_actions EXCEPT ![c.run].status = c.what]
        /\ tool_calls' = [tool_calls EXCEPT ![c.run].status = StepOf(c.what)]
        /\ Events(c, x, 2)
        /\ UNCHANGED <<runs, thread_states, workflow_executions, memory, resolved>>
    BY Zenon, <2>1 DEF Finalized
  <2>3. c.what \in Outcome /\ StepOf(c.what) \in {"completed", "failed"}
    BY <1>11 DEF GoodCall, StepOf
  <2>4. external_actions \in [Run -> ActionRow] /\ tool_calls \in [Run -> StepRow]
    BY Zenon DEF TablesOK, ActionRow, StepRow
  <2>5. /\ external_actions' \in [Run -> ActionRow]
        /\ \A q \in Run \ {c.run} : external_actions'[q] = external_actions[q]
    BY <1>0, <2>2, <2>3, <2>4 DEF ActionRow
  <2>6. tool_calls' \in [Run -> StepRow] /\ \A q \in Run \ {c.run} : tool_calls'[q] = tool_calls[q]
    BY <1>0, <2>2, <2>3, <2>4 DEF StepRow
  <2>7. /\ workflow_events' \in [Run -> Nat]
        /\ \A q \in Run \ {c.run} : workflow_events'[q] = workflow_events[q]
    BY <1>0, <2>2, EventsAdd
  <2>8. TablesOK'
    BY Zenon, <2>2, <2>5, <2>6, <2>7 DEF TablesOK, ActionRow, StepRow, memory
  <2> QED
    BY Zenon, <2>2, <2>5, <2>6, <2>7, <2>8 DEF OnlyLedger
<1>12. CASE c.name = "append_event"
  <2>1. Appended(c, x)
    BY <1>12 DEF Write
  <2>2. /\ Events(c, x, 1)
        /\ UNCHANGED <<runs, thread_states, workflow_executions, tool_calls, external_actions,
                       memory, resolved>>
    BY Zenon, <2>1 DEF Appended
  <2>3. /\ workflow_events' \in [Run -> Nat]
        /\ \A q \in Run \ {c.run} : workflow_events'[q] = workflow_events[q]
    BY <1>0, <2>2, EventsAdd
  <2> QED
    BY Zenon, <2>2, <2>3 DEF TablesOK, OnlyLedger, memory
<1> QED
  BY Zenon, <1>2, <1>3, <1>4, <1>5, <1>6, <1>7, <1>8, <1>9, <1>10, <1>11, <1>12 DEF LedgerMethod

RunRow == [status : {"running", "completed", "failed"}, token : Nat, claims : Nat,
           expires : Nat, cancel : BOOLEAN, code : {"none", "blocked", "conflict"},
           base : Nat, conflict : Nat]

RecordRow == [version : Nat, status : {"active", "superseded", "deleted"},
              value : {"v", "w", "null"}]

\* A Run and its thread are written.
LEMMA RunWrites ==
  ASSUME TablesOK, UNCHANGED <<load, now>>, NEW c, c.run \in Run, NEW row \in RunRow,
         RunWritten(c, row), NEW revision \in Nat \ {0}, DOMAIN resolved' = Run,
         thread_states' = [thread_states EXCEPT ![c.run] = revision]
  PROVE  /\ TablesOK'
         /\ \A q \in Run \ {c.run} : runs'[q] = runs[q] /\ thread_states'[q] = thread_states[q]
         /\ UNCHANGED <<workflow_executions, tool_calls, external_actions, workflow_events,
                        memory_records, run_memory_snapshots>>
<1>1. /\ runs' = [runs EXCEPT ![c.run] = row]
      /\ UNCHANGED <<workflow_executions, tool_calls, external_actions, workflow_events,
                     memory_records, run_memory_snapshots>>
  BY Zenon DEF RunWritten, memory
<1>2. runs \in [Run -> RunRow] /\ thread_states \in [Run -> Nat \ {0}]
  BY Zenon DEF TablesOK, RunRow
<1>3. /\ runs' \in [Run -> RunRow] /\ thread_states' \in [Run -> Nat \ {0}]
      /\ \A q \in Run \ {c.run} : runs'[q] = runs[q] /\ thread_states'[q] = thread_states[q]
  BY <1>1, <1>2
<1>4. TablesOK'
  BY Zenon, <1>1, <1>3 DEF TablesOK, RunRow
<1> QED
  BY Zenon, <1>1, <1>3, <1>4

\* The records of the key are written.
LEMMA RecordWrites ==
  ASSUME TablesOK, NEW c, GoodCall(c), NEW x,
         x[<<"memory_records", 0>>] = memory_records,
         \/ c.name \in {"upsert_from_run", "upsert"} /\ Remembered(c, x)
         \/ c.name = "forget_memory" /\ Forgotten(c, x)
  PROVE  memory_records' \in Seq(RecordRow)
<1>1. memory_records \in Seq(RecordRow) /\ Len(memory_records) \in Nat
      /\ DOMAIN memory_records = 1 .. Len(memory_records)
  <2>1. memory_records \in Seq(RecordRow)
    BY Zenon DEF TablesOK, RecordRow
  <2> QED
    BY <2>1
<1>2. \A i \in DOMAIN memory_records : memory_records[i] \in RecordRow
  BY <1>1
<1>3. \A f : DOMAIN f = 1 .. Len(memory_records) /\ (\A i \in DOMAIN f : f[i] \in RecordRow)
             /\ f = [i \in DOMAIN f |-> f[i]]
        => f \in Seq(RecordRow)
  <2> SUFFICES ASSUME NEW f, DOMAIN f = 1 .. Len(memory_records),
                      \A i \in DOMAIN f : f[i] \in RecordRow, f = [i \in DOMAIN f |-> f[i]]
               PROVE  f \in Seq(RecordRow)
    OBVIOUS
  <2>1. f \in [1 .. Len(memory_records) -> RecordRow]
    BY Zenon
  <2> QED
    BY <1>1, <2>1
<1>4. CASE c.name = "forget_memory"
  <2>1. memory_records' = [i \in DOMAIN memory_records |->
                             [memory_records[i] EXCEPT !.status = "deleted", !.value = "null"]]
    BY Zenon, <1>4 DEF Forgotten
  <2>2. \A i \in DOMAIN memory_records :
          [memory_records[i] EXCEPT !.status = "deleted", !.value = "null"] \in RecordRow
    BY Zenon, <1>2 DEF RecordRow
  <2>3. DOMAIN memory_records' = 1 .. Len(memory_records)
    BY Zenon, <1>1, <2>1
  <2>4. \A i \in DOMAIN memory_records' : memory_records'[i] \in RecordRow
    BY Zenon, <2>1, <2>2
  <2>5. memory_records' = [i \in DOMAIN memory_records' |-> memory_records'[i]]
    BY Zenon, <2>1
  <2> QED
    BY <1>3, <2>3, <2>4, <2>5
<1>5. CASE c.name \in {"upsert_from_run", "upsert"}
  <2>1. PICK f, active :
          /\ f = [i \in DOMAIN memory_records |->
                    IF i \in active THEN [memory_records[i] EXCEPT !.status = "superseded"]
                    ELSE memory_records[i]]
          /\ memory_records' = Append(f, [version |-> Len(memory_records) + 1, status |-> "active",
                                          value |-> c.what])
    <3>1. Remembered(c, x)
      BY <1>5
    <3> QED
      BY Zenon, <3>1 DEF Remembered
  <2>2. \A i \in DOMAIN memory_records :
          [memory_records[i] EXCEPT !.status = "superseded"] \in RecordRow
    BY <1>2 DEF RecordRow
  <2>3. DOMAIN f = 1 .. Len(memory_records)
    BY <1>1, <2>1
  <2>4. \A i \in DOMAIN f : f[i] \in RecordRow
    BY <1>2, <2>1, <2>2
  <2>5. f = [i \in DOMAIN f |-> f[i]]
    BY <2>1
  <2>6. f \in Seq(RecordRow)
    BY Zenon, <1>3, <2>3, <2>4, <2>5
  <2>7. c.what \in {"v", "w"}
    BY Zenon, <1>5 DEF GoodCall
  <2>8. [version |-> Len(memory_records) + 1, status |-> "active", value |-> c.what] \in RecordRow
    BY <1>1, <2>7 DEF RecordRow
  <2> QED
    BY <2>1, <2>6, <2>8
<1> QED
  BY Zenon, <1>4, <1>5

\* A commit writes good rows, and those that its session has locked.
LEMMA CommitWrites ==
  ASSUME NEW s \in Session, LedgerInv, Commit(s)
  PROVE  TablesOK' /\ Touches(s)
<1>1. PICK c, x : c = txn[s].call /\ x = txn[s].seen
  OBVIOUS
<1>2. Write(c, x) /\ UNCHANGED <<load, now>> /\ TablesOK
  BY Zenon, <1>1 DEF Commit, LedgerInv
<1>3. Known(s)
  BY Zenon, CommitsKnow DEF Commit
<1>4. GoodCall(c) /\ c.run \in Run
  <2>1. GoodCall(c)
    BY Zenon, <1>1, <1>3 DEF Known
  <2> QED
    BY <2>1 DEF GoodCall
<1>5. CASE c.name \in LedgerMethod \cup {"create_or_get_execution"}
  <2>1. TablesOK' /\ OnlyLedger(c.run)
    <3>1. c.name = "reuse_completed_step" => x[<<"tool_calls", c.n>>] = tool_calls[c.n]
      BY Zenon, <1>1, <1>3 DEF Known
    <3> QED
      BY Zenon, <1>2, <1>4, <1>5, <3>1, LedgerWrites
  <2>2. IF workflow_executions[c.run].status = "none"
        THEN HasRead(s, "runs", c.run) ELSE HasRead(s, "workflow_executions", c.run)
    <3>1. CASE c.name \in LedgerMethod
      <4>1. HasRead(s, "workflow_executions", c.run) /\ workflow_executions[c.run].status # "none"
        BY Zenon, <1>1, <1>3, <3>1 DEF Known
      <4> QED
        BY <4>1
    <3>2. CASE c.name = "create_or_get_execution"
      <4>1. HasRead(s, "runs", c.run)
        BY Zenon, <1>1, <1>3, <3>2 DEF Known
      <4>2. workflow_executions[c.run].status = "none"
        BY <1>2, <3>2 DEF Write, Created
      <4> QED
        BY <4>1, <4>2
    <3> QED
      BY Zenon, <1>5, <3>1, <3>2
  <2>3. UNCHANGED <<runs, thread_states, memory_records, run_memory_snapshots>>
    BY Zenon, <2>1 DEF OnlyLedger, memory
  <2> QED
    BY Zenon, <1>1, <2>1, <2>2, <2>3 DEF Touches, OnlyLedger
<1>6. ASSUME NEW row \in RunRow, RunWritten(c, row), NEW revision \in Nat \ {0},
             DOMAIN resolved' = Run,
             thread_states' = [thread_states EXCEPT ![c.run] = revision],
             HasRead(s, "runs", c.run),
             HasRead(s, "thread_states", c.run) \/ thread_states' = thread_states
      PROVE  TablesOK' /\ Touches(s)
  <2>1. /\ TablesOK'
        /\ \A q \in Run \ {c.run} : runs'[q] = runs[q] /\ thread_states'[q] = thread_states[q]
        /\ UNCHANGED <<workflow_executions, tool_calls, external_actions, workflow_events,
                       memory_records, run_memory_snapshots>>
    BY Zenon, <1>2, <1>4, <1>6, RunWrites
  <2> QED
    BY Zenon, <1>1, <1>6, <2>1 DEF Touches
<1>7. runs[c.run] \in RunRow /\ thread_states[c.run] \in Nat \ {0}
      /\ thread_states \in [Run -> Nat \ {0}] /\ DOMAIN resolved = Run
  BY <1>2, <1>4 DEF TablesOK, RunRow
<1>8. CASE c.name = "commit_completed_run"
  <2>1. Completed(c, x)
    BY SMTT(30), <1>2, <1>8 DEF Write
  <2>2. /\ HasRead(s, "runs", c.run) /\ HasRead(s, "thread_states", c.run)
        /\ x[<<"thread_states", c.run>>] = thread_states[c.run]
    BY <1>1, <1>3, <1>8 DEF Known
  <2>3. PICK row : row = [runs[c.run] EXCEPT !.status = "completed", !.token = 0]
    OBVIOUS
  <2>4. row \in RunRow
    BY Zenon, <1>7, <2>3 DEF RunRow
  <2>5. PICK revision : revision = x[<<"thread_states", c.run>>] + 1
    OBVIOUS
  <2>6. revision \in Nat \ {0}
    BY <1>7, <2>2, <2>5
  <2>7. /\ RunWritten(c, row) /\ UNCHANGED resolved
        /\ thread_states' = [thread_states EXCEPT ![c.run] = revision]
    BY Zenon, <2>1, <2>3, <2>5 DEF Completed
  <2> QED
    BY Zenon, <1>6, <1>7, <2>2, <2>4, <2>6, <2>7
<1>9. CASE c.name = "quarantine_checkpoint_conflict"
  <2>1. Parked(c, x)
    BY <1>2, <1>9 DEF Write
  <2>2. HasRead(s, "runs", c.run) /\ x[<<"thread_states", c.run>>] = thread_states[c.run]
    BY Zenon, <1>1, <1>3, <1>9 DEF Known
  <2>3. PICK row : row = [runs[c.run] EXCEPT !.code = "blocked", !.token = 0,
                                             !.conflict = x[<<"thread_states", c.run>>]]
    OBVIOUS
  <2>4. row \in RunRow
    BY Zenon, <1>7, <2>2, <2>3 DEF RunRow
  <2>5. RunWritten(c, row) /\ thread_states' = thread_states /\ UNCHANGED resolved
    BY Zenon, <2>1, <2>3 DEF Parked
  <2>6. thread_states' = [thread_states EXCEPT ![c.run] = thread_states[c.run]]
    BY <1>7, <2>5
  <2> QED
    BY Zenon, <1>6, <1>7, <2>2, <2>4, <2>5, <2>6
<1>10. CASE c.name = "apply_quarantine_resolution"
  <2>1. Resolved(c, x)
    BY SMTT(30), <1>2, <1>10 DEF Write
  <2>2. HasRead(s, "runs", c.run)
    BY <1>1, <1>3, <1>10 DEF Known
  <2>3. PICK row : row = [runs[c.run] EXCEPT !.status = "failed", !.code = "conflict"]
    OBVIOUS
  <2>4. row \in RunRow
    BY Zenon, <1>7, <2>3 DEF RunRow
  <2>5. RunWritten(c, row) /\ thread_states' = thread_states
    BY Zenon, <2>1, <2>3 DEF Resolved
  <2>6. thread_states' = [thread_states EXCEPT ![c.run] = thread_states[c.run]]
    BY <1>7, <2>5
  <2>7. DOMAIN resolved' = Run
    <3>1. PICK evidence : resolved' = [resolved EXCEPT ![c.run] = evidence]
      BY Zenon, <2>1 DEF Resolved
    <3> QED
      BY <1>7, <3>1
  <2> QED
    BY Zenon, <1>6, <1>7, <2>2, <2>4, <2>5, <2>6, <2>7
<1>11. CASE c.name \in {"upsert_from_run", "upsert", "forget_memory"}
  <2>1. \/ c.name \in {"upsert_from_run", "upsert"} /\ Remembered(c, x)
        \/ c.name = "forget_memory" /\ Forgotten(c, x)
    BY <1>2, <1>11 DEF Write
  <2>2. HasRead(s, "memory_key", 0) /\ x[<<"memory_records", 0>>] = memory_records
    BY Zenon, <1>1, <1>3, <1>11 DEF Known
  <2>3. memory_records' \in Seq(RecordRow)
    BY Zenon, <1>2, <1>4, <2>1, <2>2, RecordWrites
  <2>4. UNCHANGED <<runs, thread_states, workflow_executions, tool_calls, external_actions,
                    workflow_events, run_memory_snapshots, resolved>>
    BY Zenon, <2>1 DEF Remembered, Forgotten, ledger
  <2>5. TablesOK'
    BY Zenon, <1>2, <2>3, <2>4 DEF TablesOK, RecordRow
  <2> QED
    BY Zenon, <2>2, <2>4, <2>5 DEF Touches
<1>12. CASE c.name = "get_or_create_run_snapshot"
  <2>1. Sealed(c, x)
    BY SMTT(30), <1>2, <1>12 DEF Write
  <2>2. HasRead(s, "runs", c.run)
    BY <1>1, <1>3, <1>12 DEF Known
  <2>3. PICK value :
          run_memory_snapshots' = [run_memory_snapshots EXCEPT ![c.run] = value]
    BY Zenon, <2>1 DEF Sealed
  <2>4. UNCHANGED <<runs, thread_states, workflow_executions, tool_calls, external_actions,
                    workflow_events, memory_records, resolved>>
    BY Zenon, <2>1 DEF Sealed, ledger
  <2>5. /\ DOMAIN run_memory_snapshots' = Run
        /\ \A q \in Run \ {c.run} : run_memory_snapshots'[q] = run_memory_snapshots[q]
    BY Zenon, <1>2, <2>3 DEF TablesOK
  <2>6. TablesOK'
    BY Zenon, <1>2, <2>4, <2>5 DEF TablesOK
  <2> QED
    BY Zenon, <2>2, <2>4, <2>5, <2>6 DEF Touches
<1>13. c.name \in Method
  BY <1>4 DEF GoodCall
<1> QED
  BY Zenon, <1>5, <1>8, <1>9, <1>10, <1>11, <1>12, <1>13 DEF Method, LedgerMethod

\* A commit keeps the invariant.
LEMMA CommitKeeps ==
  ASSUME NEW s \in Session, LedgerInv, Commit(s)
  PROVE  LedgerInv'
<1>1. TablesOK' /\ Touches(s)
  BY Zenon, CommitWrites
<1>2. DOMAIN txn = Session /\ txn' = [txn EXCEPT ![s] = Idle] /\ load' = load
  BY Zenon DEF LedgerInv, Commit
<1>3. /\ DOMAIN txn' = Session /\ txn'[s] = Idle
      /\ \A o \in Session \ {s} : txn'[o] = txn[o]
  BY <1>2
<1>4. Fresh(Idle)
  BY DEF Fresh, Idle
<1>5. SessionOK(s)' /\ UpToDate(s)' /\ Passed(s)' /\ \A o : Apart(s, o)' /\ Apart(o, s)'
  BY Zenon, <1>3, <1>4, FreshSession
<1>6. \A o \in Session \ {s} : Untouched(o)
  BY Zenon, <1>1, TouchesSpareOthers
<1>7. \A o \in Session \ {s} : SessionOK(o)' /\ UpToDate(o)' /\ Passed(o)'
  BY Zenon, <1>2, <1>3, <1>6, Bystander, UntouchedKeeps DEF LedgerInv
<1>8. \A a \in Session \ {s} : \A o \in Session \ {s, a} : Apart(a, o)'
  BY Zenon, <1>3, <1>6, UntouchedApart DEF LedgerInv
<1>9. \A a \in Session : \A o \in Session \ {a} : Apart(a, o)'
  BY Zenon, <1>5, <1>8
<1> QED
  BY Zenon, <1>1, <1>3, <1>5, <1>7, <1>9 DEF LedgerInv

\* A transaction of one row keeps the invariant when nobody has locked it.
LEMMA OthersKeep ==
  ASSUME LedgerInv, TablesOK', \A o \in Session : Untouched(o), txn' = txn, load' = load
  PROVE  LedgerInv'
<1>1. \A o \in Session : SessionOK(o)' /\ UpToDate(o)' /\ Passed(o)'
  BY Zenon, Bystander, UntouchedKeeps DEF LedgerInv
<1>2. \A a \in Session : \A o \in Session \ {a} : Apart(a, o)'
  BY Zenon, UntouchedApart DEF LedgerInv
<1> QED
  BY Zenon, <1>1, <1>2 DEF LedgerInv

\* A row that is free has been read by nobody.
LEMMA FreeRows ==
  ASSUME LedgerInv, NEW table \in {"runs", "thread_states"}, NEW r, RowFree(table, r),
         NEW o \in Session
  PROVE  ~HasRead(o, table, r)
<1>1. PICK st : st = ForUpdate(table, r)
  OBVIOUS
<1>2. st.table = table /\ st.run = r /\ st.lock = "update"
  BY <1>1 DEF ForUpdate
<1>3. SessionOK(o) /\ UpToDate(o) /\ TablesOK
  BY Zenon DEF LedgerInv
<1>4. HasRead(o, table, r) => Excludes(o, st)
  BY <1>2, <1>3, LocksHold
<1>5. ~Excludes(o, st)
  BY Zenon, <1>1 DEF RowFree
<1> QED
  BY Zenon, <1>4, <1>5

\* What happens besides the sessions keeps the invariant.
LEMMA BesidesKeep ==
  ASSUME LedgerInv,
         \/ \E r \in load.runs :
              \/ Takeover(r) \/ request_cancel_atomically(r) \/ ForeignWrite(r)
              \/ plan_quarantine_resolution(r)
         \/ Tick
  PROVE  LedgerInv'
<1>0. TablesOK /\ load.runs \subseteq Run /\ now \in Nat /\ runs \in [Run -> RunRow]
      /\ thread_states \in [Run -> Nat \ {0}]
  <2>1. TablesOK
    BY Zenon DEF LedgerInv
  <2>2. load.runs \subseteq Run
    BY <2>1, PostgresLedgerAssumption DEF TablesOK
  <2> QED
    BY Zenon, <2>1, <2>2 DEF TablesOK, RunRow
<1>1. ASSUME NEW r \in Run, RowFree("runs", r), NEW row \in RunRow,
             runs' = [runs EXCEPT ![r] = row],
             UNCHANGED <<load, now, ledger, memory, resolved, plan, txn>>
      PROVE  LedgerInv'
  <2>1. runs' \in [Run -> RunRow] /\ \A q \in Run \ {r} : runs'[q] = runs[q]
    BY <1>0, <1>1
  <2>2. /\ load' = load /\ txn' = txn /\ now' = now /\ thread_states' = thread_states
        /\ workflow_executions' = workflow_executions /\ tool_calls' = tool_calls
        /\ external_actions' = external_actions /\ workflow_events' = workflow_events
        /\ memory_records' = memory_records /\ run_memory_snapshots' = run_memory_snapshots
        /\ resolved' = resolved
    BY Zenon, <1>1 DEF ledger, memory
  <2>3. TablesOK'
    BY Zenon, <1>0, <2>1, <2>2 DEF TablesOK, RunRow
  <2>4. \A o \in Session : ~HasRead(o, "runs", r)
    BY <1>1, FreeRows
  <2>5. \A o \in Session : Untouched(o)
    BY Zenon, <2>1, <2>2, <2>4 DEF Untouched
  <2> QED
    BY Zenon, <2>2, <2>3, <2>5, OthersKeep
<1>2. ASSUME NEW r \in load.runs, Takeover(r)
      PROVE  LedgerInv'
  <2>1. r \in Run /\ runs[r] \in RunRow /\ runs[r].claims + 1 \in Nat /\ now + 1 \in Nat
    BY <1>0 DEF RunRow
  <2>2. PICK row : row = [runs[r] EXCEPT !.token = runs[r].claims + 1, !.claims = runs[r].claims + 1,
                                         !.expires = now + 1]
    OBVIOUS
  <2>3. row \in RunRow
    BY Zenon, <2>1, <2>2 DEF RunRow
  <2>4. runs' = [runs EXCEPT ![r] = row]
    <3>1. runs' = [runs EXCEPT ![r].token = runs[r].claims + 1, ![r].claims = @ + 1,
                               ![r].expires = now + 1]
      BY Zenon, <1>2 DEF Takeover
    <3> QED
      BY Zenon, <1>0, <2>1, <2>2, <3>1
  <2> QED
    BY Zenon, <1>1, <1>2, <2>1, <2>3, <2>4 DEF Takeover
<1>3. ASSUME NEW r \in load.runs, request_cancel_atomically(r)
      PROVE  LedgerInv'
  <2>1. r \in Run /\ runs[r] \in RunRow
    BY <1>0
  <2>2. PICK row : row = [runs[r] EXCEPT !.cancel = TRUE]
    BY Zenon
  <2>3. row \in RunRow
    BY Zenon, <2>1, <2>2 DEF RunRow
  <2>4. runs' = [runs EXCEPT ![r] = row]
    BY Zenon, <1>3, <2>2 DEF request_cancel_atomically
  <2> QED
    BY Zenon, <1>1, <1>3, <2>1, <2>3, <2>4 DEF request_cancel_atomically
<1>4. ASSUME NEW r \in load.runs, ForeignWrite(r)
      PROVE  LedgerInv'
  <2>1. r \in Run /\ RowFree("thread_states", r)
        /\ thread_states' = [thread_states EXCEPT ![r] = @ + 1]
    BY Zenon, <1>0, <1>4 DEF ForeignWrite
  <2>2. /\ load' = load /\ txn' = txn /\ now' = now /\ runs' = runs
        /\ workflow_executions' = workflow_executions /\ tool_calls' = tool_calls
        /\ external_actions' = external_actions /\ workflow_events' = workflow_events
        /\ memory_records' = memory_records /\ run_memory_snapshots' = run_memory_snapshots
        /\ resolved' = resolved
    BY Zenon, <1>4 DEF ForeignWrite, memory
  <2>3. /\ thread_states' \in [Run -> Nat \ {0}]
        /\ \A q \in Run \ {r} : thread_states'[q] = thread_states[q]
    BY <1>0, <2>1
  <2>4. TablesOK'
    BY Zenon, <1>0, <2>2, <2>3 DEF TablesOK
  <2>5. \A o \in Session : ~HasRead(o, "thread_states", r)
    BY <2>1, FreeRows
  <2>6. \A o \in Session : Untouched(o)
    BY Zenon, <2>2, <2>3, <2>5 DEF Untouched
  <2> QED
    BY Zenon, <2>2, <2>4, <2>6, OthersKeep
<1>5. ASSUME UNCHANGED <<load, tables, txn>>, now' \in Nat
      PROVE  LedgerInv'
  <2>1. /\ load' = load /\ txn' = txn /\ runs' = runs /\ thread_states' = thread_states
        /\ workflow_executions' = workflow_executions /\ tool_calls' = tool_calls
        /\ external_actions' = external_actions /\ workflow_events' = workflow_events
        /\ memory_records' = memory_records /\ run_memory_snapshots' = run_memory_snapshots
        /\ resolved' = resolved
    BY Zenon, <1>5 DEF tables, ledger, memory
  <2>2. TablesOK'
    BY Zenon, <1>0, <1>5, <2>1 DEF TablesOK
  <2>3. \A o \in Session : Untouched(o)
    BY Zenon, <2>1 DEF Untouched
  <2> QED
    BY Zenon, <2>1, <2>2, <2>3, OthersKeep
<1>6. ASSUME NEW r \in load.runs, plan_quarantine_resolution(r)
      PROVE  LedgerInv'
  BY Zenon, <1>0, <1>5, <1>6 DEF plan_quarantine_resolution
<1>7. ASSUME Tick
      PROVE  LedgerInv'
  <2>1. now' \in Nat
    BY <1>7 DEF Tick
  <2> QED
    BY Zenon, <1>5, <1>7, <2>1 DEF Tick
<1> QED
  BY Zenon, <1>2, <1>3, <1>4, <1>6, <1>7

-----------------------------------------------------------------------------
(* Every behaviour keeps the invariant. *)

\* Nothing is open at first.
LEMMA LedgerInitially ==
  ASSUME PgInit
  PROVE  LedgerInv
<1>1. TablesOK
  <2>1. runs \in [Run -> [status : {"running", "completed", "failed"}, token : Nat, claims : Nat,
                       expires : Nat, cancel : BOOLEAN, code : {"none", "blocked", "conflict"},
                       base : Nat, conflict : Nat]]
    BY SMTT(30) DEF PgInit
  <2>2. /\ load \in Load /\ now \in Nat /\ thread_states \in [Run -> Nat \ {0}]
        /\ workflow_events \in [Run -> Nat]
        /\ DOMAIN run_memory_snapshots = Run /\ DOMAIN resolved = Run
    BY DEF PgInit
  <2>3. workflow_executions \in
          [Run -> [status : {"none", "pending", "running", "ready", "failed", "blocked"}]]
    BY DEF PgInit
  <2>4. tool_calls \in [Run -> [status : {"none", "running", "completed", "failed"},
                                attempt : Nat, result : Nat]]
    BY SMTT(30) DEF PgInit
  <2>5. external_actions \in [Run -> [status : {"none", "prepared", "dispatching"} \cup Outcome,
                                      dispatch : Nat, mode : {"unsafe", "provider_idempotent"}]]
    BY SMTT(30) DEF PgInit
  <2>6. memory_records \in Seq([version : Nat, status : {"active", "superseded", "deleted"},
                                value : {"v", "w", "null"}])
    BY DEF PgInit
  <2> QED
    BY Zenon, <2>1, <2>2, <2>3, <2>4, <2>5, <2>6 DEF TablesOK
<1>2. DOMAIN txn = Session /\ \A s \in Session : txn[s] = Idle
  BY DEF PgInit
<1>3. ASSUME NEW s \in Session
      PROVE  SessionOK(s) /\ UpToDate(s) /\ Passed(s) /\ \A o : Apart(s, o)
  <2>1. txn[s] = Idle
    BY Zenon, <1>2
  <2>2. Executed(s) = {} /\ DOMAIN txn[s].seen = {}
    BY <2>1 DEF Executed, Idle
  <2>3. \A table, r : ~HasRead(s, table, r)
    BY SMTT(30), <2>2 DEF HasRead
  <2>4. SessionOK(s)
    BY <2>1, <2>2 DEF SessionOK, Idle
  <2> QED
    BY Zenon, <2>3, <2>4 DEF UpToDate, Passed, Apart
<1> QED
  BY Zenon, <1>1, <1>2, <1>3 DEF LedgerInv

\* Every step of the sessions and of what happens besides keeps the invariant.
LEMMA LedgerSteps ==
  ASSUME LedgerInv, [PgNext]_pgVars
  PROVE  LedgerInv'
<1>1. CASE UNCHANGED pgVars
  <2>1. txn' = txn /\ load' = load /\ now' = now /\ UNCHANGED tables
    BY Zenon, <1>1 DEF pgVars
  <2>2. \A o \in Session : SessionOK(o)' /\ UpToDate(o)' /\ Passed(o)'
    BY Zenon, <2>1, Bystander, BystanderReads DEF LedgerInv
  <2>3. workflow_executions' = workflow_executions
    BY Zenon, <2>1 DEF tables, ledger
  <2>4. \A a \in Session : \A o \in Session \ {a} : Apart(a, o)'
    BY Zenon, <2>1, <2>3, BystandersApart DEF LedgerInv
  <2>5. TablesOK'
    BY Zenon, <2>1, SameTables DEF LedgerInv
  <2> QED
    BY Zenon, <2>1, <2>2, <2>4, <2>5 DEF LedgerInv
<1>2. ASSUME NEW s \in Session, Begin(s) \/ Call(s) \/ Continue(s) \/ Commit(s) \/ Rollback(s)
      PROVE  LedgerInv'
  BY Zenon, <1>2, SessionsKeep, CommitKeeps
<1> QED
  BY Zenon, <1>1, <1>2, BesidesKeep DEF PgNext

\* Every session of the PostgreSQL stores has read what the tables still hold, by
\* the locks it took in its order, and no two of them hold the same lock.
THEOREM LedgerInvariance == PgSpec => []LedgerInv
<1>1. PgInit => LedgerInv
  BY Zenon, LedgerInitially
<1>2. LedgerInv /\ [PgNext]_pgVars => LedgerInv'
  BY Zenon, LedgerSteps
<1> QED
  BY <1>1, <1>2, PTL DEF PgSpec

\* What a method has read is what it still finds when it writes (the row locks of
\* PostgresWorkflowStore and PostgresMemoryStore, taken in their order).
THEOREM ReadsStayCurrent == PgSpec => []ReadsAreCurrent
<1>1. LedgerInv => ReadsAreCurrent
  <2> SUFFICES ASSUME LedgerInv, NEW s \in Session, NEW i \in Executed(s),
                      Statement(s, i).table # "offered"
               PROVE  Read(s, Statement(s, i).table, Statement(s, i).run) = Row(Statement(s, i))
    BY Zenon DEF ReadsAreCurrent
  <2>1. SessionOK(s) /\ UpToDate(s)
    BY Zenon DEF LedgerInv
  <2>2. PICK st : st = Statement(s, i)
    OBVIOUS
  <2>3. Placed(txn[s].call, st) /\ HasRead(s, st.table, st.run)
    BY Zenon, <2>1, <2>2, ExecutedStatement, ReadByStatement
  <2>4. st.table \in Table \ {"offered"} /\ st.run \in Run \cup {0}
    BY <2>2, <2>3 DEF Placed
  <2>5. Read(s, st.table, st.run) = RowOf(st.table, st.run)
    BY Zenon, <2>1, <2>3, <2>4 DEF UpToDate
  <2>6. RowOf(st.table, st.run) = Row(st)
    BY Zenon DEF RowOf, Row
  <2> QED
    BY Zenon, <2>2, <2>5, <2>6
<1> QED
  BY <1>1, LedgerInvariance, PTL

-----------------------------------------------------------------------------
(* What commits do to the rows. *)

\* Nothing but a commit writes the ledger, the memories and the resolutions, and
\* a Run that is not running stays as it is.
LEMMA OnlyCommits ==
  ASSUME LedgerInv, [PgNext]_pgVars
  PROVE  /\ load' = load
         /\ \/ \E s \in Session : Commit(s)
            \/ /\ UNCHANGED <<workflow_executions, tool_calls, external_actions, workflow_events,
                              memory_records, resolved>>
               /\ \A r \in Run : runs[r].status # "running" => runs'[r] = runs[r]
<1>1. ASSUME NEW s \in Session, Begin(s) \/ Call(s) \/ Continue(s) \/ Rollback(s)
      PROVE  UNCHANGED <<load, tables>>
  BY Zenon, <1>1 DEF Begin, Call, Continue, Rollback, Execute
<1>2. ASSUME UNCHANGED <<load, tables>>
      PROVE  /\ load' = load /\ runs' = runs
             /\ UNCHANGED <<workflow_executions, tool_calls, external_actions, workflow_events,
                            memory_records, resolved>>
  BY Zenon, <1>2 DEF tables, ledger, memory
<1>3. ASSUME NEW r, Takeover(r) \/ request_cancel_atomically(r)
      PROVE  /\ load' = load
             /\ UNCHANGED <<workflow_executions, tool_calls, external_actions, workflow_events,
                            memory_records, resolved>>
             /\ \A q \in Run : runs[q].status # "running" => runs'[q] = runs[q]
  <2>1. /\ load' = load
        /\ UNCHANGED <<workflow_executions, tool_calls, external_actions, workflow_events,
                       memory_records, resolved>>
    BY Zenon, <1>3 DEF Takeover, request_cancel_atomically, ledger, memory
  <2>2. DOMAIN runs = Run
    BY Zenon DEF LedgerInv, TablesOK
  <2>3. runs[r].status = "running" /\ \A q \in Run \ {r} : runs'[q] = runs[q]
    BY <1>3, <2>2 DEF Takeover, request_cancel_atomically
  <2> QED
    BY Zenon, <2>1, <2>3
<1>4. ASSUME NEW r, ForeignWrite(r)
      PROVE  /\ load' = load /\ runs' = runs
             /\ UNCHANGED <<workflow_executions, tool_calls, external_actions, workflow_events,
                            memory_records, resolved>>
  BY Zenon, <1>4 DEF ForeignWrite, memory
<1>5. ASSUME Tick \/ \E r : plan_quarantine_resolution(r)
      PROVE  UNCHANGED <<load, tables>>
  BY Zenon, <1>5 DEF Tick, plan_quarantine_resolution
<1>6. ASSUME UNCHANGED pgVars
      PROVE  UNCHANGED <<load, tables>>
  BY Zenon, <1>6 DEF pgVars
<1>7. ASSUME NEW s \in Session, Commit(s)
      PROVE  load' = load
  BY Zenon, <1>7 DEF Commit
<1> QED
  BY Zenon, <1>1, <1>2, <1>3, <1>4, <1>5, <1>6, <1>7 DEF PgNext

\* What a write of call c does to the execution, the step and the action of its Run.
Effect(c) ==
  LET r == c.run
      same_e == workflow_executions'[r] = workflow_executions[r]
      same_t == tool_calls'[r] = tool_calls[r]
      same_a == external_actions'[r] = external_actions[r]
  IN  \/ /\ c.name = "create_or_get_execution" /\ same_t /\ same_a
         /\ workflow_executions[r].status = "none" /\ workflow_executions'[r].status = "pending"
      \/ /\ c.name \in {"mark_running", "_finalize_execution"} /\ same_t /\ same_a
         /\ workflow_executions[r].status \in {"pending", "running"}
      \/ /\ c.name = "claim_step" /\ same_e /\ same_a
         /\ tool_calls[r].status \in {"none", "failed"}
         /\ tool_calls[r].status = "failed" => tool_calls[r].attempt < load.max_attempts
         /\ tool_calls'[r].status = "running"
         /\ tool_calls'[r].attempt = tool_calls[r].attempt + 1
      \/ /\ c.name = "_finalize_step" /\ same_e /\ same_a
         /\ tool_calls[r].status = "running" /\ tool_calls'[r].status \in {"completed", "failed"}
         /\ tool_calls'[r].attempt = tool_calls[r].attempt
      \/ /\ c.name = "recover_interrupted_step" /\ same_e /\ same_a
         /\ tool_calls[r].status = "running" /\ tool_calls'[r].status = "failed"
         /\ tool_calls'[r].attempt = tool_calls[r].attempt
      \/ /\ c.name = "reuse_completed_step" /\ same_e /\ same_a
         /\ tool_calls[r].status = "none" /\ tool_calls'[r].status = "completed"
         /\ tool_calls'[r].result = tool_calls[c.n].result
         /\ c.n \in Run \ {r} /\ Replayable(workflow_executions[c.n])
         /\ tool_calls[c.n].status = "completed"
      \/ /\ c.name = "prepare_external_action" /\ same_e /\ same_t
         /\ tool_calls[r].status = "running"
         /\ external_actions[r].status = "none" /\ external_actions'[r].status = "prepared"
         /\ external_actions'[r].dispatch = external_actions[r].dispatch
      \/ /\ c.name = "begin_external_action_dispatch" /\ same_e /\ same_t
         /\ external_actions[r].status = "prepared" /\ external_actions'[r].status = "dispatching"
         /\ external_actions'[r].dispatch = external_actions[r].dispatch + 1
      \/ /\ c.name = "retry_external_action_dispatch" /\ same_e /\ same_t
         /\ external_actions[r].status = "dispatching" /\ external_actions'[r].status = "dispatching"
         /\ external_actions'[r].mode # "unsafe"
      \/ /\ c.name \in {"finalize_external_action", "finalize_reconciliation_unknown"} /\ same_e
         /\ external_actions[r].status = "dispatching" /\ tool_calls[r].status = "running"
         /\ external_actions'[r].status = c.what /\ c.what \in Outcome
         /\ external_actions'[r].dispatch = external_actions[r].dispatch
         /\ external_actions'[r].mode = external_actions[r].mode
         /\ tool_calls'[r].status = StepOf(c.what)
         /\ tool_calls'[r].attempt = tool_calls[r].attempt
      \/ c.name = "append_event" /\ same_e /\ same_t /\ same_a

\* The ledger methods have these effects: what they rely on is still as they read it.
LEMMA CommitEffects ==
  ASSUME NEW s \in Session, LedgerInv, Commit(s), NEW c, c = txn[s].call,
         c.name \in LedgerMethod \cup {"create_or_get_execution"}
  PROVE  /\ Effect(c) /\ OnlyLedger(c.run) /\ c.run \in Run /\ c.name \in load.methods
         /\ c.name # "finalize_external_action" => runs[c.run].status = "running"
<1>1. PICK x : x = txn[s].seen
  OBVIOUS
<1>2. Write(c, x) /\ UNCHANGED <<load, now>> /\ TablesOK
  BY Zenon, <1>1 DEF Commit, LedgerInv
<1>3. Known(s)
  BY Zenon, CommitsKnow DEF Commit
<1>4. GoodCall(c) /\ c.name \in load.methods
  BY Zenon, <1>3 DEF Known
<1>5. c.run \in Run
  BY <1>4 DEF GoodCall
<1>6. c.name = "reuse_completed_step" =>
        /\ x[<<"tool_calls", c.n>>] = tool_calls[c.n]
        /\ Replayable(workflow_executions[c.n]) /\ tool_calls[c.n].status = "completed"
  BY Zenon, <1>1, <1>3 DEF Known
<1>7. OnlyLedger(c.run)
  BY Zenon, <1>2, <1>4, <1>6, LedgerWrites
<1>8. c.name # "finalize_external_action" => runs[c.run].status = "running"
  BY Zenon, <1>3 DEF Known
<1>9. /\ workflow_executions \in
           [Run -> [status : {"none", "pending", "running", "ready", "failed", "blocked"}]]
      /\ tool_calls \in [Run -> StepRow] /\ external_actions \in [Run -> ActionRow]
  BY Zenon, <1>2 DEF TablesOK, StepRow, ActionRow
<1>10. Effect(c)
  <2>1. CASE c.name = "create_or_get_execution"
    <3>1. Created(c)
      BY Zenon, <1>2, <2>1 DEF Write
    <3> QED
      BY <1>5, <1>9, <2>1, <3>1 DEF Created, Effect
  <2>2. CASE c.name \in {"mark_running", "_finalize_execution"}
    <3>1. Transitioned(c, x)
      BY Zenon, <1>2, <2>2 DEF Write
    <3>2. workflow_executions[c.run].status \in {"pending", "running"}
      BY <3>1 DEF Transitioned
    <3>3. tool_calls' = tool_calls /\ external_actions' = external_actions
      BY ZenonT(30), <3>1 DEF Transitioned
    <3> QED
      BY Zenon, <2>2, <3>2, <3>3 DEF Effect
  <2>3. CASE c.name = "claim_step"
    <3>1. _claim_retry(c, x)
      BY Zenon, <1>2, <2>3 DEF Write
    <3>2. /\ tool_calls' = [tool_calls EXCEPT ![c.run] =
                              [status |-> "running", attempt |-> tool_calls[c.run].attempt + 1,
                               result |-> 0]]
          /\ workflow_executions' = workflow_executions /\ external_actions' = external_actions
      BY Zenon, <3>1 DEF _claim_retry, StepWritten
    <3>3. \/ tool_calls[c.run].status = "none"
          \/ tool_calls[c.run].status = "failed" /\ tool_calls[c.run].attempt < load.max_attempts
      BY Zenon, <1>3, <2>3 DEF Known
    <3>4. tool_calls'[c.run] = [status |-> "running", attempt |-> tool_calls[c.run].attempt + 1,
                                result |-> 0]
      BY Zenon, <1>5, <1>9, <3>2
    <3>5. /\ tool_calls'[c.run].status = "running"
          /\ tool_calls'[c.run].attempt = tool_calls[c.run].attempt + 1
      BY <3>4
    <3>6. /\ tool_calls[c.run].status \in {"none", "failed"}
          /\ tool_calls[c.run].status = "failed" => tool_calls[c.run].attempt < load.max_attempts
      BY Zenon, <3>3
    <3> QED
      BY Zenon, <2>3, <3>2, <3>5, <3>6 DEF Effect
  <2>4. CASE c.name = "_finalize_step"
    <3>1. StepFinished(c, x)
      BY Zenon, <1>2, <2>4 DEF Write
    <3>2. /\ tool_calls' = [tool_calls EXCEPT ![c.run] =
                              [tool_calls[c.run] EXCEPT !.status = c.what,
                                 !.result = IF c.what = "completed" THEN c.run ELSE 0]]
          /\ workflow_executions' = workflow_executions /\ external_actions' = external_actions
          /\ tool_calls[c.run].status = "running"
      BY Zenon, <3>1 DEF StepFinished, StepWritten
    <3>3. c.what \in {"completed", "failed"}
      BY Zenon, <1>4, <2>4 DEF GoodCall
    <3>4. tool_calls'[c.run].status = c.what /\ tool_calls'[c.run].attempt = tool_calls[c.run].attempt
      BY <1>5, <1>9, <3>2 DEF StepRow
    <3> QED
      BY <2>4, <3>2, <3>3, <3>4 DEF Effect
  <2>5. CASE c.name = "recover_interrupted_step"
    <3>1. Interrupted(c, x)
      BY Zenon, <1>2, <2>5 DEF Write
    <3>2. /\ tool_calls' = [tool_calls EXCEPT ![c.run] =
                              [tool_calls[c.run] EXCEPT !.status = "failed"]]
          /\ workflow_executions' = workflow_executions /\ external_actions' = external_actions
          /\ tool_calls[c.run].status = "running"
      BY Zenon, <3>1 DEF Interrupted, StepWritten
    <3>3. tool_calls'[c.run].status = "failed" /\ tool_calls'[c.run].attempt = tool_calls[c.run].attempt
      BY <1>5, <1>9, <3>2 DEF StepRow
    <3> QED
      BY <2>5, <3>2, <3>3 DEF Effect
  <2>6. CASE c.name = "reuse_completed_step"
    <3>1. Copied(c, x)
      BY Zenon, <1>2, <2>6 DEF Write
    <3>2. /\ tool_calls' = [tool_calls EXCEPT ![c.run] =
                              [status |-> "completed", attempt |-> 0,
                               result |-> x[<<"tool_calls", c.n>>].result]]
          /\ workflow_executions' = workflow_executions /\ external_actions' = external_actions
          /\ tool_calls[c.run].status = "none"
      BY Zenon, <3>1 DEF Copied, StepWritten
    <3>3. c.n \in Run \ {c.run}
      BY SMTT(30), <1>4, <2>6, PostgresLedgerAssumption DEF GoodCall
    <3>4. tool_calls'[c.run].status = "completed"
          /\ tool_calls'[c.run].result = tool_calls[c.n].result
      BY <1>5, <1>6, <1>9, <2>6, <3>2
    <3> QED
      BY Zenon, <1>6, <2>6, <3>2, <3>3, <3>4 DEF Effect
  <2>7. CASE c.name = "prepare_external_action"
    <3>1. Prepared(c, x)
      BY Zenon, <1>2, <2>7 DEF Write
    <3>2. /\ external_actions' = [external_actions EXCEPT ![c.run] =
                                    [external_actions[c.run] EXCEPT !.status = "prepared"]]
          /\ workflow_executions' = workflow_executions /\ tool_calls' = tool_calls
          /\ external_actions[c.run].status = "none"
      BY Zenon, <3>1 DEF Prepared, ActionWritten
    <3>3. tool_calls[c.run].status = "running"
      BY Zenon, <1>3, <2>7 DEF Known
    <3>4. /\ external_actions'[c.run].status = "prepared"
          /\ external_actions'[c.run].dispatch = external_actions[c.run].dispatch
      BY <1>5, <1>9, <3>2 DEF ActionRow
    <3> QED
      BY Zenon, <2>7, <3>2, <3>3, <3>4 DEF Effect
  <2>8. CASE c.name = "begin_external_action_dispatch"
    <3>1. Begun(c, x)
      BY Zenon, <1>2, <2>8 DEF Write
    <3>2. /\ external_actions' = [external_actions EXCEPT ![c.run] =
                                    [external_actions[c.run] EXCEPT !.status = "dispatching",
                                                                    !.dispatch = @ + 1]]
          /\ workflow_executions' = workflow_executions /\ tool_calls' = tool_calls
          /\ external_actions[c.run].status = "prepared"
      BY Zenon, <3>1 DEF Begun, ActionWritten
    <3>3. /\ external_actions'[c.run].status = "dispatching"
          /\ external_actions'[c.run].dispatch = external_actions[c.run].dispatch + 1
      BY <1>5, <1>9, <3>2 DEF ActionRow
    <3> QED
      BY Zenon, <2>8, <3>2, <3>3 DEF Effect
  <2>9. CASE c.name = "retry_external_action_dispatch"
    <3>1. Retried(c, x)
      BY Zenon, <1>2, <2>9 DEF Write
    <3>2. /\ external_actions' = [external_actions EXCEPT ![c.run] =
                                    [external_actions[c.run] EXCEPT !.dispatch = @ + 1]]
          /\ workflow_executions' = workflow_executions /\ tool_calls' = tool_calls
          /\ external_actions[c.run].status = "dispatching"
      BY Zenon, <3>1 DEF Retried, ActionWritten
    <3>3. external_actions[c.run].mode # "unsafe"
      BY Zenon, <1>3, <2>9 DEF Known
    <3>4. /\ external_actions'[c.run].status = "dispatching"
          /\ external_actions'[c.run].mode # "unsafe"
      BY <1>5, <1>9, <3>2, <3>3 DEF ActionRow
    <3> QED
      BY <2>9, <3>2, <3>4 DEF Effect
  <2>10. CASE c.name \in {"finalize_external_action", "finalize_reconciliation_unknown"}
    <3>1. Finalized(c, x)
      BY Zenon, <1>2, <2>10 DEF Write
    <3>2. /\ external_actions' = [external_actions EXCEPT ![c.run].status = c.what]
          /\ tool_calls' = [tool_calls EXCEPT ![c.run].status = StepOf(c.what)]
          /\ workflow_executions' = workflow_executions
          /\ external_actions[c.run].status = "dispatching" /\ tool_calls[c.run].status = "running"
      BY Zenon, <3>1 DEF Finalized
    <3>3. c.what \in Outcome
      BY Zenon, <1>4, <2>10 DEF GoodCall
    <3>4. /\ external_actions'[c.run].status = c.what
          /\ external_actions'[c.run].dispatch = external_actions[c.run].dispatch
          /\ external_actions'[c.run].mode = external_actions[c.run].mode
      BY <1>5, <1>9, <3>2 DEF ActionRow
    <3>5. /\ tool_calls'[c.run].status = StepOf(c.what)
          /\ tool_calls'[c.run].attempt = tool_calls[c.run].attempt
      BY <1>5, <1>9, <3>2 DEF StepRow
    <3> QED
      BY Zenon, <2>10, <3>2, <3>3, <3>4, <3>5 DEF Effect
  <2>11. CASE c.name = "append_event"
    <3>1. Appended(c, x)
      BY Zenon, <1>2, <2>11 DEF Write
    <3> QED
      BY Zenon, <2>11, <3>1 DEF Appended, Effect
  <2> QED
    BY Zenon, <2>1, <2>2, <2>3, <2>4, <2>5, <2>6, <2>7, <2>8, <2>9, <2>10, <2>11 DEF LedgerMethod
<1> QED
  BY Zenon, <1>4, <1>5, <1>7, <1>8, <1>10

\* The other methods leave the ledger alone.
LEMMA OtherCommits ==
  ASSUME NEW s \in Session, LedgerInv, Commit(s), NEW c, c = txn[s].call,
         c.name \notin LedgerMethod \cup {"create_or_get_execution"}
  PROVE  UNCHANGED <<workflow_executions, tool_calls, external_actions, workflow_events>>
<1>1. PICK x : x = txn[s].seen
  OBVIOUS
<1>2. Write(c, x)
  BY Zenon, <1>1 DEF Commit
<1>3. Known(s)
  BY Zenon, CommitsKnow DEF Commit
<1>4. c.name \in Method
  <2>1. GoodCall(c)
    BY Zenon, <1>3 DEF Known
  <2> QED
    BY <2>1 DEF GoodCall
<1>5. \/ Completed(c, x) \/ Parked(c, x) \/ Resolved(c, x) \/ Remembered(c, x)
      \/ Forgotten(c, x) \/ Sealed(c, x)
  BY Zenon, <1>2 DEF Write, LedgerMethod
<1> QED
  BY Zenon, <1>5 DEF Completed, Parked, Resolved, Remembered, Forgotten, Sealed, RunWritten, ledger

\* The first outcome of an action and the first result of a step stand: whoever
\* records a later one finds another status under its lock (the WHERE clauses of
\* PostgresWorkflowStore, and the check of claim_step).
THEOREM FirstOutcomesStand == PgSpec => FirstOutcomeStands
<1> DEFINE Stands(r) ==
             /\ external_actions[r].status \in Outcome => external_actions'[r] = external_actions[r]
             /\ tool_calls[r].status = "completed" => tool_calls'[r] = tool_calls[r]
<1>1. ASSUME LedgerInv, [PgNext]_pgVars
      PROVE  [\A r \in Run : Stands(r)]_pgVars
  <2>1. CASE UNCHANGED <<tool_calls, external_actions>>
    BY Zenon, <2>1
  <2>2. ASSUME NEW s \in Session, Commit(s), NEW r \in Run
        PROVE  Stands(r)
    <3>1. PICK c : c = txn[s].call
      OBVIOUS
    <3>2. CASE c.name \notin LedgerMethod \cup {"create_or_get_execution"}
      BY Zenon, <1>1, <2>2, <3>1, <3>2, OtherCommits
    <3>3. CASE c.name \in LedgerMethod \cup {"create_or_get_execution"}
      <4>1. Effect(c) /\ OnlyLedger(c.run)
        BY Zenon, <1>1, <2>2, <3>1, <3>3, CommitEffects
      <4>2. CASE r # c.run
        BY Zenon, <4>1, <4>2 DEF OnlyLedger
      <4>3. CASE r = c.run
        <5>1. external_actions[r].status \in Outcome => external_actions'[r] = external_actions[r]
          BY Zenon, <4>1, <4>3 DEF Effect, Outcome
        <5>2. tool_calls[r].status = "completed" => tool_calls'[r] = tool_calls[r]
          BY Zenon, <4>1, <4>3 DEF Effect
        <5> QED
          BY Zenon, <5>1, <5>2
      <4> QED
        BY Zenon, <4>2, <4>3
    <3> QED
      BY Zenon, <3>2, <3>3
  <2> QED
    BY Zenon, <1>1, <2>1, <2>2, OnlyCommits
<1> QED
  BY <1>1, LedgerInvariance, PTL DEF PgSpec, FirstOutcomeStands

\* Versions of a memory key are numbered without gap, the newest alone may be
\* active, and what was forgotten has no value left: the advisory lock of the key
\* (_lock_memory_key) makes the versions that were read the ones there are.
THEOREM VersionsStayOneLine == PgSpec => []OneLineOfVersions
<1>1. PgInit => OneLineOfVersions
  BY DEF PgInit, OneLineOfVersions
<1>2. ASSUME LedgerInv, OneLineOfVersions, [PgNext]_pgVars
      PROVE  OneLineOfVersions'
  <2>1. CASE memory_records' = memory_records
    BY Zenon, <1>2, <2>1 DEF OneLineOfVersions
  <2>2. ASSUME NEW s \in Session, Commit(s), memory_records' # memory_records
        PROVE  OneLineOfVersions'
    <3>1. PICK c, x : c = txn[s].call /\ x = txn[s].seen
      OBVIOUS
    <3>2. Write(c, x) /\ Known(s)
      BY Zenon, <1>2, <2>2, <3>1, CommitsKnow DEF Commit
    <3>3. \/ c.name \in {"upsert_from_run", "upsert"} /\ Remembered(c, x)
          \/ c.name = "forget_memory" /\ Forgotten(c, x)
      <4>1. /\ Created(c) => memory_records' = memory_records
            /\ Transitioned(c, x) => memory_records' = memory_records
            /\ _claim_retry(c, x) => memory_records' = memory_records
            /\ StepFinished(c, x) => memory_records' = memory_records
            /\ Interrupted(c, x) => memory_records' = memory_records
            /\ Copied(c, x) => memory_records' = memory_records
        BY Zenon DEF Created, Transitioned, _claim_retry, StepFinished, Interrupted, Copied,
                     StepWritten, memory
      <4>2. /\ Prepared(c, x) => memory_records' = memory_records
            /\ Begun(c, x) => memory_records' = memory_records
            /\ Retried(c, x) => memory_records' = memory_records
            /\ Finalized(c, x) => memory_records' = memory_records
            /\ Appended(c, x) => memory_records' = memory_records
        BY Zenon DEF Prepared, Begun, Retried, Finalized, Appended, ActionWritten, memory
      <4>3. /\ Completed(c, x) => memory_records' = memory_records
            /\ Parked(c, x) => memory_records' = memory_records
            /\ Resolved(c, x) => memory_records' = memory_records
            /\ Sealed(c, x) => memory_records' = memory_records
        BY Zenon DEF Completed, Parked, Resolved, Sealed, RunWritten, memory
      <4> QED
        BY Zenon, <2>2, <3>2, <4>1, <4>2, <4>3 DEF Write
    <3>4. /\ GoodCall(c) /\ x[<<"memory_records", 0>>] = memory_records
          /\ memory_records \in Seq(RecordRow)
      <4>1. GoodCall(c) /\ memory_records \in Seq(RecordRow)
        BY Zenon, <1>2, <3>1, <3>2 DEF Known, LedgerInv, TablesOK, RecordRow
      <4>2. c.name \in {"upsert", "upsert_from_run", "forget_memory"}
        BY Zenon, <3>3
      <4> QED
        BY Zenon, <3>1, <3>2, <4>1, <4>2 DEF Known
    <3>5. PICK n : n = Len(memory_records)
      BY Zenon
    <3>6. /\ n \in Nat /\ DOMAIN memory_records = 1 .. n
          /\ \A i \in 1 .. n : memory_records[i] \in RecordRow
      BY <3>4, <3>5
    <3>7. \A i \in 1 .. n :
            /\ memory_records[i].version = i
            /\ memory_records[i].status = "active" => i = n
            /\ memory_records[i].status = "deleted" <=> memory_records[i].value = "null"
      BY Zenon, <1>2, <3>5, <3>6 DEF OneLineOfVersions
    <3>8. CASE Forgotten(c, x)
      <4>1. memory_records' = [i \in DOMAIN memory_records |->
                                 [memory_records[i] EXCEPT !.status = "deleted", !.value = "null"]]
        BY Zenon, <3>8 DEF Forgotten
      <4>2. DOMAIN memory_records' = 1 .. n
        BY Zenon, <3>6, <4>1
      <4>3. \A i \in 1 .. n :
              /\ memory_records'[i].version = i /\ memory_records'[i].status = "deleted"
              /\ memory_records'[i].value = "null"
        <5>1. ASSUME NEW m \in RecordRow
              PROVE  LET d == [m EXCEPT !.status = "deleted", !.value = "null"]
                     IN  d.version = m.version /\ d.status = "deleted" /\ d.value = "null"
          BY DEF RecordRow
        <5>2. \A i \in 1 .. n : memory_records'[i] =
                [memory_records[i] EXCEPT !.status = "deleted", !.value = "null"]
          BY Zenon, <3>6, <4>1
        <5>3. ASSUME NEW i \in 1 .. n
              PROVE  /\ memory_records'[i].version = i /\ memory_records'[i].status = "deleted"
                     /\ memory_records'[i].value = "null"
          <6>1. memory_records[i] \in RecordRow /\ memory_records[i].version = i
            BY Zenon, <3>6, <3>7
          <6> QED
            BY Zenon, <5>1, <5>2, <6>1
        <5> QED
          BY Zenon, <5>3
      <4> QED
        BY <4>2, <4>3 DEF OneLineOfVersions
    <3>9. CASE c.name \in {"upsert_from_run", "upsert"} /\ Remembered(c, x)
      <4>1. PICK f, row :
              /\ f = [i \in DOMAIN memory_records |->
                        IF i \in Active(memory_records)
                        THEN [memory_records[i] EXCEPT !.status = "superseded"]
                        ELSE memory_records[i]]
              /\ row = [version |-> n + 1, status |-> "active", value |-> c.what]
              /\ memory_records' = Append(f, row)
        BY Zenon, <3>4, <3>5, <3>9 DEF Remembered
      <4>2. DOMAIN f = 1 .. n /\ f = [i \in 1 .. n |-> f[i]]
        BY <3>6, <4>1
      <4>3. \A i \in 1 .. n :
              /\ f[i].version = i /\ f[i].status # "active"
              /\ f[i].status = "deleted" <=> f[i].value = "null"
        <5>1. ASSUME NEW i \in 1 .. n
              PROVE  f[i] = IF memory_records[i].status = "active"
                            THEN [memory_records[i] EXCEPT !.status = "superseded"]
                            ELSE memory_records[i]
          BY <3>6, <4>1 DEF Active
        <5>2. ASSUME NEW m \in RecordRow
              PROVE  LET d == [m EXCEPT !.status = "superseded"]
                     IN  d.version = m.version /\ d.status = "superseded" /\ d.value = m.value
          BY DEF RecordRow
        <5>3. ASSUME NEW i \in 1 .. n
              PROVE  /\ f[i].version = i /\ f[i].status # "active"
                     /\ f[i].status = "deleted" <=> f[i].value = "null"
          <6>1. CASE memory_records[i].status = "active"
            <7>1. f[i] = [memory_records[i] EXCEPT !.status = "superseded"]
              BY <5>1, <6>1
            <7>2. /\ f[i].version = memory_records[i].version /\ f[i].status = "superseded"
                  /\ f[i].value = memory_records[i].value
              BY Zenon, <3>6, <5>2, <7>1
            <7> QED
              BY <3>7, <6>1, <7>2
          <6>2. CASE memory_records[i].status # "active"
            <7>1. f[i] = memory_records[i]
              BY Zenon, <5>1, <6>2
            <7> QED
              BY <3>7, <6>2, <7>1
          <6> QED
            BY Zenon, <6>1, <6>2
        <5> QED
          BY Zenon, <5>3
      <4>4. PICK S : f \in Seq(S) /\ Len(f) = n
        <5>1. PICK S : \A i \in 1 .. n : f[i] \in S
          <6>1. \A i \in 1 .. n : f[i] \in {f[j] : j \in 1 .. n}
            BY Zenon
          <6> QED
            BY Zenon, <6>1
        <5>2. f \in [1 .. n -> S]
          BY Zenon, <4>2, <5>1
        <5>3. f \in Seq(S)
          BY <3>6, <5>2
        <5>4. Len(f) = n
          BY <3>6, <4>2, <5>3
        <5> QED
          BY Zenon, <5>3, <5>4
      <4>5. /\ DOMAIN memory_records' = 1 .. n + 1 /\ Len(memory_records') = n + 1
            /\ memory_records'[n + 1] = row
            /\ \A i \in 1 .. n : memory_records'[i] = f[i]
        BY <3>6, <4>1, <4>4
      <4>6. c.what \in {"v", "w"}
        BY Zenon, <3>4, <3>9 DEF GoodCall
      <4>7. row.version = n + 1 /\ row.status = "active" /\ row.value # "null"
        BY <4>1, <4>6
      <4>8. \A i \in 1 .. n + 1 : i \in 1 .. n \/ i = n + 1
        BY <3>6
      <4>9. ASSUME NEW i \in 1 .. n + 1
            PROVE  /\ memory_records'[i].version = i
                   /\ memory_records'[i].status = "active" => i = n + 1
                   /\ memory_records'[i].status = "deleted" <=> memory_records'[i].value = "null"
        <5>1. CASE i \in 1 .. n
          BY Zenon, <4>3, <4>5, <5>1
        <5>2. CASE i = n + 1
          BY <4>5, <4>7, <5>2
        <5> QED
          BY Zenon, <4>8, <5>1, <5>2
      <4> QED
        BY Zenon, <4>5, <4>9 DEF OneLineOfVersions
    <3> QED
      BY Zenon, <3>3, <3>8, <3>9
  <2> QED
    BY Zenon, <1>2, <2>1, <2>2, OnlyCommits
<1> QED
  BY <1>1, <1>2, LedgerInvariance, PTL DEF PgSpec

\* A Run that was released has failed, once, on the evidence the ledger holds.
Released ==
  \A r \in Run :
    \/ resolved[r] = <<>>
    \/ /\ resolved[r] = <<_workflow_evidence_fingerprint(r)>>
       /\ external_actions[r].status \in Outcome
       /\ runs[r].status = "failed"

\* A quarantined Run is released once and its evidence never changes again: who
\* holds no lease can only record an outcome, and finds one
\* (apply_quarantine_resolution and finalize_external_action of the PostgreSQL stores).
THEOREM ReleasesAreFrozen == PgSpec => []ReleasedOnFrozenEvidence
<1>1. PgInit => Released
  BY DEF PgInit, Released
<1>2. ASSUME LedgerInv, Released, [PgNext]_pgVars
      PROVE  Released'
  <2>1. ASSUME UNCHANGED <<workflow_executions, tool_calls, external_actions, workflow_events,
                           resolved>>,
               \A r \in Run : runs[r].status # "running" => runs'[r] = runs[r]
        PROVE  Released'
    <3>1. \A r \in Run :
            _workflow_evidence_fingerprint(r)' = _workflow_evidence_fingerprint(r)
      BY Zenon, <2>1 DEF _workflow_evidence_fingerprint
    <3>2. "failed" # "running"
      OBVIOUS
    <3> QED
      BY Zenon, <1>2, <2>1, <3>1, <3>2 DEF Released
  <2>2. ASSUME NEW s \in Session, Commit(s)
        PROVE  Released'
    <3>1. PICK c, x : c = txn[s].call /\ x = txn[s].seen
      OBVIOUS
    <3>2. Write(c, x) /\ Known(s) /\ TablesOK
      BY Zenon, <1>2, <2>2, <3>1, CommitsKnow DEF Commit, LedgerInv
    <3>3. c.run \in Run /\ c.name \in Method
      <4>1. GoodCall(c)
        BY Zenon, <3>1, <3>2 DEF Known
      <4> QED
        BY <4>1 DEF GoodCall
    <3>4. CASE c.name \in LedgerMethod \cup {"create_or_get_execution"}
      <4>1. /\ Effect(c) /\ OnlyLedger(c.run)
            /\ c.name # "finalize_external_action" => runs[c.run].status = "running"
        BY Zenon, <1>2, <2>2, <3>1, <3>4, CommitEffects
      <4>2. runs' = runs /\ resolved' = resolved
        BY Zenon, <4>1 DEF OnlyLedger
      <4>3. resolved[c.run] = <<>>
        <5> SUFFICES ASSUME external_actions[c.run].status \in Outcome, runs[c.run].status = "failed"
                     PROVE  FALSE
          BY Zenon, <1>2, <3>3 DEF Released
        <5>1. c.name = "finalize_external_action"
          BY <4>1
        <5> QED
          BY Zenon, <4>1, <5>1 DEF Effect, Outcome
      <4>4. \A r \in Run \ {c.run} :
              /\ _workflow_evidence_fingerprint(r)' = _workflow_evidence_fingerprint(r)
              /\ external_actions'[r] = external_actions[r]
        BY Zenon, <4>1 DEF _workflow_evidence_fingerprint, OnlyLedger
      <4> QED
        BY Zenon, <1>2, <4>2, <4>3, <4>4 DEF Released
    <3>5. CASE c.name \notin LedgerMethod \cup {"create_or_get_execution"}
      <4>1. UNCHANGED <<workflow_executions, tool_calls, external_actions, workflow_events>>
        BY Zenon, <1>2, <2>2, <3>1, <3>5, OtherCommits
      <4>2. CASE c.name \in {"commit_completed_run", "quarantine_checkpoint_conflict"}
        <5>1. runs[c.run].status = "running"
          BY Zenon, <3>1, <3>2, <4>2 DEF Known
        <5>2. PICK row : RunWritten(c, row) /\ UNCHANGED resolved
          <6>1. Completed(c, x) \/ Parked(c, x)
            BY <3>2, <4>2 DEF Write
          <6> QED
            BY Zenon, <6>1 DEF Completed, Parked
        <5>3. runs' = [runs EXCEPT ![c.run] = row] /\ DOMAIN runs = Run
          BY Zenon, <3>2, <5>2 DEF RunWritten, TablesOK
        <5>4. \A r \in Run : runs[r].status # "running" => runs'[r] = runs[r]
          BY <5>1, <5>3
        <5> QED
          BY Zenon, <2>1, <4>1, <5>2, <5>4
      <4>3. CASE c.name = "apply_quarantine_resolution"
        <5>1. Resolved(c, x)
          BY <3>2, <4>3 DEF Write
        <5>2. PICK p : p = x[<<"evidence", c.run>>]
          OBVIOUS
        <5>3. p = _derive_quarantine_plan(c.run)
          BY Zenon, <3>1, <3>2, <4>3, <5>2 DEF Known
        <5>4. /\ eligible(p) /\ runs[c.run].status = "running"
              /\ runs' = [runs EXCEPT ![c.run] =
                            [runs[c.run] EXCEPT !.status = "failed", !.code = "conflict"]]
              /\ resolved' = [resolved EXCEPT ![c.run] = Append(@, p[3])]
          BY Zenon, <5>1, <5>2 DEF Resolved, RunWritten
        <5>5. p[3] = _workflow_evidence_fingerprint(c.run) /\ p[3][3] = external_actions[c.run]
          BY <5>3 DEF _derive_quarantine_plan, _workflow_evidence_fingerprint
        <5>6. external_actions[c.run].status \in Outcome
          BY Zenon, <5>4, <5>5 DEF eligible, _terminal_external_action_evidence_is_consistent
        <5>7. resolved[c.run] = <<>>
          <6>1. runs[c.run].status # "failed"
            BY <5>4
          <6> QED
            BY Zenon, <1>2, <3>3, <6>1 DEF Released
        <5>8. runs \in [Run -> RunRow] /\ DOMAIN resolved = Run
          BY Zenon, <3>2 DEF TablesOK, RunRow
        <5>9. /\ runs'[c.run].status = "failed"
              /\ \A r \in Run \ {c.run} : runs'[r] = runs[r]
          BY <3>3, <5>4, <5>8 DEF RunRow
        <5>10. /\ resolved'[c.run] = <<_workflow_evidence_fingerprint(c.run)>>
               /\ \A r \in Run \ {c.run} : resolved'[r] = resolved[r]
          <6>1. Append(<<>>, p[3]) = <<p[3]>>
            OBVIOUS
          <6> QED
            BY <3>3, <5>4, <5>5, <5>7, <5>8, <6>1
        <5>11. \A r \in Run :
                 _workflow_evidence_fingerprint(r)' = _workflow_evidence_fingerprint(r)
          BY Zenon, <4>1 DEF _workflow_evidence_fingerprint
        <5>12. ASSUME NEW r \in Run
               PROVE  \/ resolved'[r] = <<>>
                      \/ /\ resolved'[r] = <<_workflow_evidence_fingerprint(r)'>>
                         /\ external_actions'[r].status \in Outcome
                         /\ runs'[r].status = "failed"
          <6>1. CASE r = c.run
            <7>1. external_actions'[r].status \in Outcome
              BY Zenon, <4>1, <5>6, <6>1
            <7>2. resolved'[r] = <<_workflow_evidence_fingerprint(r)'>>
              BY Zenon, <5>10, <5>11, <6>1
            <7> QED
              BY Zenon, <5>9, <6>1, <7>1, <7>2
          <6>2. CASE r # c.run
            <7>1. resolved'[r] = resolved[r] /\ runs'[r] = runs[r]
                  /\ external_actions'[r] = external_actions[r]
              BY Zenon, <4>1, <5>9, <5>10, <6>2
            <7> QED
              BY Zenon, <1>2, <5>11, <7>1 DEF Released
          <6> QED
            BY Zenon, <6>1, <6>2
        <5> QED
          BY Zenon, <5>12 DEF Released
      <4>4. CASE c.name \in {"upsert_from_run", "upsert", "forget_memory",
                             "get_or_create_run_snapshot"}
        <5>1. Remembered(c, x) \/ Forgotten(c, x) \/ Sealed(c, x)
          BY <3>2, <4>4 DEF Write
        <5>2. runs' = runs /\ resolved' = resolved
          BY Zenon, <5>1 DEF Remembered, Forgotten, Sealed
        <5> QED
          BY Zenon, <2>1, <4>1, <5>2
      <4> QED
        BY Zenon, <3>3, <3>5, <4>2, <4>3, <4>4 DEF Method, LedgerMethod
    <3> QED
      BY Zenon, <3>4, <3>5
  <2> QED
    BY Zenon, <1>2, <2>1, <2>2, OnlyCommits
<1>3. Released => ReleasedOnFrozenEvidence
  <2>1. \A e : Len(<<e>>) = 1 /\ <<e>>[1] = e
    OBVIOUS
  <2>2. ASSUME Released, NEW r \in Run, resolved[r] # <<>>
        PROVE  /\ Len(resolved[r]) = 1
               /\ resolved[r][1] = _workflow_evidence_fingerprint(r)
               /\ external_actions[r].status \in Outcome
    BY Zenon, <2>1, <2>2 DEF Released
  <2> QED
    BY Zenon, <2>2 DEF ReleasedOnFrozenEvidence
<1> QED
  BY <1>1, <1>2, <1>3, LedgerInvariance, PTL DEF PgSpec

\* What makes the rows of an action and its step agree: numbers that were drawn,
\* and a load that has the step for the action alone.
Settled ==
  \A r \in Run :
    /\ tool_calls[r].status \in {"running", "failed"} => tool_calls[r].attempt >= 1
    /\ external_actions[r].status \in {"none", "prepared"} => external_actions[r].dispatch = 0
    /\ external_actions[r].status # "none" =>
         tool_calls[r].attempt >= 1 /\ "prepare_external_action" \in load.methods

\* The action and its step agree although answers of providers are recorded
\* without the lease, an unsafe action is dispatched once, and a copied step has
\* the result of a source that can no longer change (_finalize_external_action,
\* retry_external_action_dispatch and reuse_completed_step of PostgresWorkflowStore).
THEOREM RowsStayAgreed == PgSpec => []RowsAgree
<1>1. PgInit => Settled /\ RowsAgree
  BY DEF PgInit, Settled, RowsAgree, Outcome
<1>2. ASSUME LedgerInv, Settled, RowsAgree, [PgNext]_pgVars
      PROVE  Settled' /\ RowsAgree'
  <2>1. ASSUME UNCHANGED <<workflow_executions, tool_calls, external_actions>>, load' = load
        PROVE  Settled' /\ RowsAgree'
    <3>1. /\ workflow_executions' = workflow_executions /\ tool_calls' = tool_calls
          /\ external_actions' = external_actions /\ load' = load
      BY Zenon, <2>1
    <3>2. Settled'
      BY Zenon, <1>2, <3>1 DEF Settled
    <3>3. RowsAgree'
      BY Zenon, <1>2, <3>1 DEF RowsAgree
    <3> QED
      BY Zenon, <3>2, <3>3
  <2>2. ASSUME NEW s \in Session, Commit(s), load' = load, NEW c, c = txn[s].call,
               c.name \in LedgerMethod \cup {"create_or_get_execution"}
        PROVE  Settled' /\ RowsAgree'
    <3>1. Effect(c) /\ OnlyLedger(c.run) /\ c.run \in Run /\ c.name \in load.methods
      BY Zenon, <1>2, <2>2, CommitEffects
    <3>2. TablesOK /\ TablesOK'
      BY Zenon, <1>2, <2>2, CommitWrites DEF LedgerInv
    <3>3. /\ tool_calls[c.run].attempt \in Nat /\ external_actions[c.run].dispatch \in Nat
          /\ tool_calls[c.run].status \in {"none", "running", "completed", "failed"}
          /\ external_actions[c.run].status \in {"none", "prepared", "dispatching"} \cup Outcome
          /\ load.max_attempts \in Nat
      BY Zenon, <3>1, <3>2, PostgresLedgerAssumption DEF TablesOK
    <3>4. "prepare_external_action" \in load.methods =>
            /\ load.max_attempts <= 1
            /\ c.name \notin {"_finalize_step", "recover_interrupted_step"}
      <4>1. load \in Load
        BY Zenon, <3>2 DEF TablesOK
      <4> QED
        BY <3>1, <4>1, ExternalStepsApart
    <3>5. \A r \in Run \ {c.run} :
            /\ workflow_executions'[r] = workflow_executions[r] /\ tool_calls'[r] = tool_calls[r]
            /\ external_actions'[r] = external_actions[r]
      BY Zenon, <3>1 DEF OnlyLedger
    <3> DEFINE r == c.run
               Agree(a, t) ==
                 a.status # "none" =>
                   /\ a.status \in {"prepared", "dispatching"} => t.status = "running"
                   /\ a.status \in Outcome => t.status = StepOf(a.status)
                   /\ a.mode = "unsafe" => a.dispatch <= 1
               Fine(a, t) ==
                 /\ t.status \in {"running", "failed"} => t.attempt >= 1
                 /\ a.status \in {"none", "prepared"} => a.dispatch = 0
                 /\ a.status # "none" => t.attempt >= 1 /\ "prepare_external_action" \in load.methods
    <3>6. Agree(external_actions[r], tool_calls[r]) /\ Fine(external_actions[r], tool_calls[r])
      BY Zenon, <1>2, <3>1 DEF RowsAgree, Settled
    <3>7. Agree(external_actions'[r], tool_calls'[r]) /\ Fine(external_actions'[r], tool_calls'[r])
      <4>1. CASE c.name \in {"create_or_get_execution", "mark_running", "_finalize_execution",
                             "append_event"}
        <5>1. tool_calls'[r] = tool_calls[r] /\ external_actions'[r] = external_actions[r]
          BY ZenonT(30), <3>1, <4>1 DEF Effect
        <5> QED
          BY Zenon, <3>6, <5>1
      <4>2. CASE c.name = "claim_step"
        <5>1. /\ external_actions'[r] = external_actions[r]
              /\ tool_calls[r].status \in {"none", "failed"}
              /\ tool_calls[r].status = "failed" => tool_calls[r].attempt < load.max_attempts
              /\ tool_calls'[r].status = "running"
              /\ tool_calls'[r].attempt = tool_calls[r].attempt + 1
          BY Zenon, <3>1, <4>2 DEF Effect
        <5>2. external_actions[r].status = "none"
          <6>1. SUFFICES ASSUME external_actions[r].status # "none"
                         PROVE  FALSE
            OBVIOUS
          <6>2. load.max_attempts <= 1 /\ tool_calls[r].attempt >= 1
            BY Zenon, <3>4, <3>6, <6>1
          <6>3. tool_calls[r].status # "failed"
            BY <3>3, <5>1, <6>2
          <6>4. tool_calls[r].status = "none"
            BY Zenon, <5>1, <6>3
          <6>5. external_actions[r].status \in Outcome
            BY Zenon, <3>3, <3>6, <6>1, <6>4
          <6>6. StepOf(external_actions[r].status) = "none"
            BY Zenon, <3>6, <6>1, <6>4, <6>5
          <6> QED
            BY <6>6 DEF StepOf
        <5> QED
          BY <3>3, <3>6, <5>1, <5>2
      <4>3. CASE c.name \in {"_finalize_step", "recover_interrupted_step"}
        <5>1. /\ external_actions'[r] = external_actions[r] /\ tool_calls[r].status = "running"
              /\ tool_calls'[r].attempt = tool_calls[r].attempt
          BY Zenon, <3>1, <4>3 DEF Effect
        <5>2. external_actions[r].status = "none"
          BY Zenon, <3>4, <3>6, <4>3
        <5> QED
          BY <3>6, <5>1, <5>2
      <4>4. CASE c.name = "reuse_completed_step"
        <5>1. /\ external_actions'[r] = external_actions[r] /\ tool_calls[r].status = "none"
              /\ tool_calls'[r].status = "completed"
          BY Zenon, <3>1, <4>4 DEF Effect
        <5>2. external_actions[r].status = "none"
          BY Zenon, <3>3, <3>6, <5>1 DEF Outcome, StepOf
        <5> QED
          BY Zenon, <3>6, <5>1, <5>2
      <4>5. CASE c.name = "prepare_external_action"
        <5>1. /\ tool_calls'[r] = tool_calls[r] /\ tool_calls[r].status = "running"
              /\ external_actions[r].status = "none" /\ external_actions'[r].status = "prepared"
              /\ external_actions'[r].dispatch = external_actions[r].dispatch
          BY ZenonT(30), <3>1, <4>5 DEF Effect
        <5> QED
          BY <3>1, <3>3, <3>6, <4>5, <5>1 DEF Outcome
      <4>6. CASE c.name = "begin_external_action_dispatch"
        <5>1. /\ tool_calls'[r] = tool_calls[r]
              /\ external_actions[r].status = "prepared"
              /\ external_actions'[r].status = "dispatching"
              /\ external_actions'[r].dispatch = external_actions[r].dispatch + 1
          BY Zenon, <3>1, <4>6 DEF Effect
        <5> QED
          BY <3>3, <3>6, <5>1 DEF Outcome
      <4>7. CASE c.name = "retry_external_action_dispatch"
        <5>1. /\ tool_calls'[r] = tool_calls[r]
              /\ external_actions[r].status = "dispatching"
              /\ external_actions'[r].status = "dispatching"
              /\ external_actions'[r].mode # "unsafe"
          BY Zenon, <3>1, <4>7 DEF Effect
        <5> QED
          BY <3>6, <5>1 DEF Outcome
      <4>8. CASE c.name \in {"finalize_external_action", "finalize_reconciliation_unknown"}
        <5>1. /\ external_actions[r].status = "dispatching"
              /\ external_actions'[r].status = c.what /\ c.what \in Outcome
              /\ external_actions'[r].dispatch = external_actions[r].dispatch
              /\ external_actions'[r].mode = external_actions[r].mode
              /\ tool_calls'[r].status = StepOf(c.what)
              /\ tool_calls'[r].attempt = tool_calls[r].attempt
          BY Zenon, <3>1, <4>8 DEF Effect
        <5> QED
          BY Zenon, <3>6, <5>1 DEF Outcome
      <4> QED
        BY Zenon, <2>2, <4>1, <4>2, <4>3, <4>4, <4>5, <4>6, <4>7, <4>8 DEF LedgerMethod
    <3>8. ASSUME NEW q \in Run, Replayable(workflow_executions[q]), tool_calls[q].status = "completed"
          PROVE  /\ Replayable(workflow_executions'[q]) /\ tool_calls'[q].status = "completed"
                 /\ tool_calls'[q].result = tool_calls[q].result
      <4>1. CASE q # c.run
        BY Zenon, <3>5, <3>8, <4>1
      <4>2. CASE q = c.run
        <5>1. tool_calls'[q] = tool_calls[q]
          BY Zenon, <3>1, <3>8, <4>2 DEF Effect
        <5>2. workflow_executions'[q] = workflow_executions[q]
          BY Zenon, <3>1, <3>8, <4>2 DEF Effect, Replayable
        <5> QED
          BY Zenon, <3>8, <5>1, <5>2
      <4> QED
        BY Zenon, <4>1, <4>2
    <3>9. ASSUME NEW q \in Run, tool_calls'[q].status = "completed", tool_calls'[q].attempt = 0
          PROVE  \E o \in Run \ {q} :
                   /\ Replayable(workflow_executions'[o]) /\ tool_calls'[o].status = "completed"
                   /\ tool_calls'[o].result = tool_calls'[q].result
      <4>1. CASE tool_calls[q].status = "completed" /\ tool_calls'[q] = tool_calls[q]
        <5>1. PICK o \in Run \ {q} :
                /\ workflow_executions[o].status \in {"ready", "blocked"}
                /\ tool_calls[o].status = "completed" /\ tool_calls[o].result = tool_calls[q].result
          BY Zenon, <1>2, <3>9, <4>1 DEF RowsAgree
        <5>2. Replayable(workflow_executions[o]) /\ o \in Run
          BY Zenon, <5>1 DEF Replayable
        <5> QED
          BY Zenon, <3>8, <4>1, <5>1, <5>2
      <4>2. CASE tool_calls'[q] # tool_calls[q]
        <5>1. q = c.run
          BY Zenon, <3>5, <4>2
        <5>2. CASE c.name = "reuse_completed_step"
          <6>1. /\ c.n \in Run \ {q} /\ Replayable(workflow_executions[c.n])
                /\ tool_calls[c.n].status = "completed"
                /\ tool_calls'[q].result = tool_calls[c.n].result
            BY Zenon, <3>1, <5>1, <5>2 DEF Effect
          <6>2. /\ Replayable(workflow_executions'[c.n]) /\ tool_calls'[c.n].status = "completed"
                /\ tool_calls'[c.n].result = tool_calls[c.n].result
            BY Zenon, <3>8, <6>1
          <6> QED
            BY Zenon, <6>1, <6>2
        <5>3. CASE c.name # "reuse_completed_step"
          <6>1. /\ tool_calls[q].status = "running"
                /\ tool_calls'[q].attempt = tool_calls[q].attempt
            BY Zenon, <3>1, <3>9, <4>2, <5>1, <5>3 DEF Effect
          <6>2. tool_calls[q].attempt >= 1
            BY Zenon, <1>2, <6>1 DEF Settled
          <6> QED
            BY <3>3, <3>9, <6>1, <6>2
        <5> QED
          BY Zenon, <5>2, <5>3
      <4> QED
        BY Zenon, <3>9, <4>1, <4>2
    <3>10. \A q \in Run : Agree(external_actions'[q], tool_calls'[q])
                          /\ Fine(external_actions'[q], tool_calls'[q])
      <4>1. ASSUME NEW q \in Run \ {c.run}
            PROVE  Agree(external_actions[q], tool_calls[q]) /\ Fine(external_actions[q], tool_calls[q])
        BY Zenon, <1>2 DEF RowsAgree, Settled
      <4> HIDE DEF Agree, Fine
      <4>2. ASSUME NEW q \in Run
            PROVE  Agree(external_actions'[q], tool_calls'[q])
                   /\ Fine(external_actions'[q], tool_calls'[q])
        <5>1. CASE q = c.run
          BY Zenon, <3>7, <5>1
        <5>2. CASE q # c.run
          <6>1. external_actions'[q] = external_actions[q] /\ tool_calls'[q] = tool_calls[q]
            BY Zenon, <3>5, <5>2
          <6>2. Agree(external_actions[q], tool_calls[q]) /\ Fine(external_actions[q], tool_calls[q])
            BY Zenon, <4>1, <5>2
          <6> QED
            BY Zenon, <6>1, <6>2
        <5> QED
          BY Zenon, <5>1, <5>2
      <4> QED
        BY Zenon, <4>2
    <3>11. Settled'
      BY Zenon, <2>2, <3>10 DEF Settled
    <3>12. RowsAgree'
      BY Zenon, <3>9, <3>10 DEF RowsAgree, Replayable
    <3> QED
      BY Zenon, <3>11, <3>12
  <2>3. ASSUME NEW s \in Session, Commit(s), load' = load
        PROVE  Settled' /\ RowsAgree'
    <3>1. PICK c : c = txn[s].call
      OBVIOUS
    <3>2. CASE c.name \in LedgerMethod \cup {"create_or_get_execution"}
      BY Zenon, <2>2, <2>3, <3>1, <3>2
    <3>3. CASE c.name \notin LedgerMethod \cup {"create_or_get_execution"}
      <4>1. UNCHANGED <<workflow_executions, tool_calls, external_actions, workflow_events>>
        BY Zenon, <1>2, <2>3, <3>1, <3>3, OtherCommits
      <4> QED
        BY Zenon, <2>1, <2>3, <4>1
    <3> QED
      BY Zenon, <3>2, <3>3
  <2> QED
    BY Zenon, <1>2, <2>1, <2>3, OnlyCommits
<1> QED
  BY <1>1, <1>2, LedgerInvariance, PTL DEF PgSpec

-----------------------------------------------------------------------------
(* No deadlock. *)

Waits(s, o) ==
  /\ txn[s].stage = "called"
  /\ txn[s].pc < Len(Program(txn[s].call))
  /\ Excludes(o, Statement(s, txn[s].pc + 1))

\* A session that is waiting has read what its next statement comes after, and
\* what it waits for the other has read.
LEMMA Waiter ==
  ASSUME NEW s \in Session, NEW o \in Session, LedgerInv, Waits(s, o),
         NEW st, st = Statement(s, txn[s].pc + 1)
  PROVE  /\ Placed(txn[s].call, st) /\ txn[s].pc \in Nat \ {0}
         /\ Ordered(txn[s].call, Program(txn[s].call), txn[s].pc + 1)
         /\ st = Program(txn[s].call)[txn[s].pc + 1]
         /\ \A table, r : Earlier(Program(txn[s].call), txn[s].pc + 1, table, r)
              <=> HasRead(s, table, r)
         /\ HasRead(o, st.table, st.run)
         /\ st.lock # "none"
         /\ \E held : /\ Placed(txn[o].call, held) /\ held.table = st.table /\ held.run = st.run
                      /\ "update" \in {held.lock, st.lock}
<1>1. SessionOK(s) /\ SessionOK(o)
  BY Zenon DEF LedgerInv
<1>2. MayExecute(s, txn[s].call)
  BY Zenon, <1>1 DEF MayExecute, Waits, SessionOK
<1>3. st = Program(txn[s].call)[txn[s].pc + 1]
  BY Zenon DEF Statement
<1>4. /\ txn[s].pc \in Nat /\ Placed(txn[s].call, st)
      /\ Ordered(txn[s].call, Program(txn[s].call), txn[s].pc + 1)
  BY Zenon, <1>2, <1>3, NextStatement
<1>5. txn[s].pc # 0
  BY Zenon, <1>1 DEF SessionOK, Waits
<1>6. PICK i \in Executed(o) :
        /\ Statement(o, i).table = st.table /\ Statement(o, i).run = st.run
        /\ "update" \in {Statement(o, i).lock, st.lock}
  BY Zenon DEF Waits, Excludes
<1>7. st.lock # "none"
  BY Zenon DEF Waits, Excludes
<1>8. Placed(txn[o].call, Statement(o, i)) /\ HasRead(o, st.table, st.run)
  <2>1. HasRead(o, Statement(o, i).table, Statement(o, i).run)
    BY Zenon, <1>1, ReadByStatement
  <2> QED
    BY Zenon, <1>1, <1>6, <2>1, ExecutedStatement
<1>9. \A j : j \in 1 .. (txn[s].pc + 1) - 1 <=> j \in Executed(s)
  BY <1>4 DEF Executed
<1>10. ASSUME NEW table, NEW r
       PROVE  Earlier(Program(txn[s].call), txn[s].pc + 1, table, r) <=> HasRead(s, table, r)
  <2>1. Earlier(Program(txn[s].call), txn[s].pc + 1, table, r) <=>
          \E j \in Executed(s) : Statement(s, j).table = table /\ Statement(s, j).run = r
    <3>1. \A j : Statement(s, j) = Program(txn[s].call)[j]
      BY Zenon DEF Statement
    <3>2. Earlier(Program(txn[s].call), txn[s].pc + 1, table, r) <=>
            \E j \in 1 .. (txn[s].pc + 1) - 1 :
              Program(txn[s].call)[j].table = table /\ Program(txn[s].call)[j].run = r
      BY Zenon DEF Earlier
    <3> QED
      BY <1>9, <3>1, <3>2
  <2>2. HasRead(s, table, r) =>
          \E j \in Executed(s) : Statement(s, j).table = table /\ Statement(s, j).run = r
    BY <1>1, ReadByStatement
  <2>3. ASSUME NEW j \in Executed(s), Statement(s, j).table = table, Statement(s, j).run = r
        PROVE  HasRead(s, table, r)
    <3>1. HasRead(s, Statement(s, j).table, Statement(s, j).run)
      BY Zenon, <1>1, ReadByStatement
    <3> QED
      BY Zenon, <2>3, <3>1
  <2> QED
    BY Zenon, <2>1, <2>2, <2>3
<1>11. \E held : /\ Placed(txn[o].call, held) /\ held.table = st.table /\ held.run = st.run
                 /\ "update" \in {held.lock, st.lock}
  BY Zenon, <1>6, <1>8
<1>12. txn[s].pc \in Nat \ {0}
  BY <1>4, <1>5
<1> QED
  BY Zenon, <1>3, <1>4, <1>7, <1>8, <1>10, <1>11, <1>12

\* A session waits for one that waits itself at the row of an execution alone:
\* rows of the Run are taken under the lock of the Run, steps and actions under
\* that of the execution, and who has the key of a memory takes no other lock.
LEMMA WaitsAtExecutions ==
  ASSUME NEW s \in Session, NEW o \in Session \ {s}, NEW p \in Session,
         LedgerInv, Waits(s, o), Waits(o, p)
  PROVE  Statement(s, txn[s].pc + 1).table = "workflow_executions"
<1>1. PICK st : st = Statement(s, txn[s].pc + 1)
  OBVIOUS
<1>2. PICK next : next = Statement(o, txn[o].pc + 1)
  OBVIOUS
<1>3. PICK c, d : c = txn[s].call /\ d = txn[o].call
  OBVIOUS
<1>4. /\ Placed(c, st) /\ txn[s].pc \in Nat \ {0} /\ st.lock # "none"
      /\ Ordered(c, Program(c), txn[s].pc + 1) /\ st = Program(c)[txn[s].pc + 1]
      /\ \A table, r : Earlier(Program(c), txn[s].pc + 1, table, r) <=> HasRead(s, table, r)
      /\ HasRead(o, st.table, st.run)
  BY Zenon, <1>1, <1>3, Waiter
<1>5. PICK held : /\ Placed(d, held) /\ held.table = st.table /\ held.run = st.run
                  /\ "update" \in {held.lock, st.lock}
  <2>1. \E held : /\ Placed(txn[o].call, held) /\ held.table = st.table /\ held.run = st.run
                  /\ "update" \in {held.lock, st.lock}
    BY <1>1, Waiter
  <2> QED
    BY Zenon, <1>3, <2>1
<1>6. /\ next.lock # "none" /\ next = Program(d)[txn[o].pc + 1]
      /\ Ordered(d, Program(d), txn[o].pc + 1)
      /\ \A table, r : Earlier(Program(d), txn[o].pc + 1, table, r) <=> HasRead(o, table, r)
  BY Zenon, <1>2, <1>3, Waiter
<1>7. /\ SessionOK(s) /\ UpToDate(s) /\ Passed(s) /\ SessionOK(o) /\ UpToDate(o) /\ Passed(o)
      /\ Apart(s, o)
  BY Zenon DEF LedgerInv
<1>8. \A r : Covered(s, r) /\ Covered(o, r)
  BY Zenon, <1>7, ReadsAreCovered
<1>9. st.table \in {"runs", "thread_states", "workflow_executions", "tool_calls",
                    "external_actions", "memory_key"}
  BY Zenon, <1>4 DEF Placed
<1>10. st.table # "memory_key"
  <2> SUFFICES ASSUME st.table = "memory_key" PROVE FALSE
    OBVIOUS
  <2>1. st.run = 0
    BY <1>4 DEF Placed
  <2>2. Earlier(Program(d), txn[o].pc + 1, "memory_key", 0)
    BY Zenon, <1>4, <1>6, <2>1
  <2> QED
    BY Zenon, <1>6, <2>2 DEF Ordered
<1>11. st.table # "runs"
  <2>1. st.table = "runs" => txn[s].pc + 1 = 1
    BY Zenon, <1>4 DEF Ordered
  <2> QED
    BY <1>4, <2>1
<1>12. st.table # "thread_states"
  <2> SUFFICES ASSUME st.table = "thread_states" PROVE FALSE
    OBVIOUS
  <2>1. st.run = c.run /\ st.run \in Run
    BY Zenon, <1>4 DEF Placed
  <2>2. HasRead(s, "runs", c.run)
    BY Zenon, <1>4 DEF Ordered
  <2>3. HasRead(o, "runs", c.run)
    BY Zenon, <1>4, <1>8, <2>1 DEF Covered
  <2> QED
    BY Zenon, <1>7, <2>1, <2>2, <2>3 DEF Apart
<1>13. st.table \notin {"tool_calls", "external_actions"}
  <2> SUFFICES ASSUME st.table \in {"tool_calls", "external_actions"} PROVE FALSE
    OBVIOUS
  <2>1. st.run \in Run /\ (st.run = c.run \/ st.run = d.run)
    BY Zenon, <1>4, <1>5 DEF Placed
  <2>2. HasRead(s, "workflow_executions", st.run)
    BY Zenon, <1>4 DEF Ordered
  <2>3. HasRead(o, "workflow_executions", st.run)
    BY Zenon, <1>4, <1>8 DEF Covered
  <2>4. CASE workflow_executions[st.run].status # "none"
    BY Zenon, <1>3, <1>7, <2>1, <2>2, <2>3, <2>4 DEF Apart
  <2>5. CASE workflow_executions[st.run].status = "none"
    <3>1. /\ Read(s, "workflow_executions", st.run) = workflow_executions[st.run]
          /\ Read(o, "workflow_executions", st.run) = workflow_executions[st.run]
      BY <1>7, <2>1, <2>2, <2>3 DEF UpToDate, RowOf, Row, Table
    <3>2. c.name = "create_or_get_execution" /\ d.name = "create_or_get_execution"
      BY ZenonT(30), <1>3, <1>7, <2>1, <2>2, <2>3, <2>5, <3>1 DEF Passed
    <3>3. st.run = c.run /\ st.run = d.run
      BY SMTT(30), <1>3, <1>8, <2>2, <2>3, <3>2 DEF Covered
    <3>4. HasRead(s, "runs", st.run) /\ HasRead(o, "runs", st.run)
      BY <1>3, <1>8, <2>2, <2>3, <3>2, <3>3 DEF Covered
    <3> QED
      BY Zenon, <1>7, <2>1, <3>4 DEF Apart
  <2> QED
    BY Zenon, <2>4, <2>5
<1> QED
  BY Zenon, <1>1, <1>9, <1>10, <1>11, <1>12, <1>13

\* Executions are locked in the order of their Runs.
LEMMA WaitsClimb ==
  ASSUME NEW s \in Session, NEW o \in Session, NEW p \in Session, LedgerInv,
         Waits(s, o), Waits(o, p),
         Statement(s, txn[s].pc + 1).table = "workflow_executions",
         Statement(o, txn[o].pc + 1).table = "workflow_executions"
  PROVE  /\ Statement(s, txn[s].pc + 1).run \in Run /\ Statement(o, txn[o].pc + 1).run \in Run
         /\ Statement(s, txn[s].pc + 1).run < Statement(o, txn[o].pc + 1).run
<1>1. PICK st, next : st = Statement(s, txn[s].pc + 1) /\ next = Statement(o, txn[o].pc + 1)
  OBVIOUS
<1>2. PICK d, i : d = Program(txn[o].call) /\ i = txn[o].pc + 1
  OBVIOUS
<1>3. Placed(txn[s].call, st) /\ HasRead(o, "workflow_executions", st.run)
  <2>1. Placed(txn[s].call, st) /\ HasRead(o, st.table, st.run)
    BY Zenon, <1>1, Waiter
  <2> QED
    BY Zenon, <1>1, <2>1
<1>4. /\ Placed(txn[o].call, next) /\ next = d[i] /\ Ordered(txn[o].call, d, i)
      /\ \A table, r : Earlier(d, i, table, r) <=> HasRead(o, table, r)
  BY Zenon, <1>1, <1>2, Waiter
<1>5. PICK j \in 1 .. i - 1 : d[j].table = "workflow_executions" /\ d[j].run = st.run
  BY Zenon, <1>3, <1>4 DEF Earlier
<1>6. st.run < next.run
  BY Zenon, <1>1, <1>4, <1>5 DEF Ordered
<1>7. st.run \in Run /\ next.run \in Run
  BY Zenon, <1>1, <1>3, <1>4 DEF Placed
<1> QED
  BY Zenon, <1>1, <1>6, <1>7

\* Some Run of a set of Runs has none above it.
LEMMA HighestRun ==
  ASSUME NEW W, W \subseteq Run, W # {}
  PROVE  \E x \in W : \A y \in W : ~(x < y)
<1>1. PICK x \in W : \A y \in W : y <= x
  BY Zenon, PostgresLedgerAssumption
<1>2. \A y \in W : y \in Nat
  BY Zenon, PostgresLedgerAssumption
<1> QED
  BY <1>1, <1>2

\* No transactions of the PostgreSQL stores wait for each other in a circle: along
\* a circle the executions waited for would belong to ever later Runs
\* ("avoiding an action<->execution lock inversion").
THEOREM NoLockCycles == PgSpec => []NoLockCycle
<1>1. ASSUME LedgerInv, NEW S \in (SUBSET Session) \ {{}},
             \A s \in S : \E o \in S \ {s} : Waits(s, o)
      PROVE  FALSE
  <2> DEFINE w(s) == Statement(s, txn[s].pc + 1).run
  <2>1. \A s \in S : Statement(s, txn[s].pc + 1).table = "workflow_executions"
    <3>1. ASSUME NEW s \in S
          PROVE  Statement(s, txn[s].pc + 1).table = "workflow_executions"
      <4>1. PICK o \in S \ {s} : Waits(s, o)
        BY Zenon, <1>1
      <4>2. PICK p \in S : Waits(o, p)
        BY Zenon, <1>1, <4>1
      <4>3. s \in Session /\ o \in Session \ {s} /\ p \in Session
        BY Zenon, <4>1, <4>2
      <4> QED
        BY Zenon, <1>1, <4>1, <4>2, <4>3, WaitsAtExecutions
    <3> QED
      BY Zenon, <3>1
  <2>2. ASSUME NEW s \in S
        PROVE  w(s) \in Run /\ \E o \in S : w(s) < w(o)
    <3>1. PICK o \in S \ {s} : Waits(s, o)
      BY Zenon, <1>1
    <3>2. PICK p \in S : Waits(o, p)
      BY Zenon, <1>1, <3>1
    <3>3. s \in Session /\ o \in Session /\ p \in Session /\ o \in S
      BY Zenon, <3>1, <3>2
    <3> QED
      BY Zenon, <1>1, <2>1, <3>1, <3>2, <3>3, WaitsClimb
  <2> HIDE DEF w
  <2>3. PICK W : W = {w(s) : s \in S}
    BY Zenon
  <2>4. W \subseteq Run /\ W # {}
    BY Zenon, <2>2, <2>3
  <2>5. PICK x \in W : \A y \in W : ~(x < y)
    BY Zenon, <2>4, HighestRun
  <2> QED
    BY Zenon, <2>2, <2>3, <2>5
<1>2. LedgerInv => NoLockCycle
  BY Zenon, <1>1 DEF NoLockCycle, Waits
<1> QED
  BY <1>2, LedgerInvariance, PTL

=============================================================================
