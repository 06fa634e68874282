----------------------- MODULE PostgresRunStoreProofs -----------------------
(***************************************************************************)
(* Proofs about the Run store on PostgreSQL, for any number of sessions,   *)
(* Runs, threads and attempts and any clock: interleaved statements keep   *)
(* what the transactions of RunStore promise of a thread.                  *)
(*                                                                         *)
(* The last part is about RunStore itself: the event stream of a Run tells *)
(* its life.  It counts events, which takes the theorems on finite sets.   *)
(***************************************************************************)
EXTENDS PostgresRunStore, RunStoreProofs, FiniteSetTheorems

PgStage == {"idle", "open", "seeding", "seeded", "scanned", "claiming", "leasing", "leased",
            "completing", "saving"}

Txn == [stage : PgStage, now : Int, run : Nat, token : Nat, seen : Nat \cup {NoRevision}]

Seeding(x) == x.stage \in {"seeding", "seeded"}
Locking(x) == x.stage \in {"claiming", "leasing", "leased", "completing", "saving"}

\* What each statement of an open transaction can rely on: the row it locked has
\* not changed, its index entry is the thread's only one, and its thread's
\* checkpoint stands while it saves.
TxnOK(x) ==
  /\ x \in Txn
  /\ x.stage \notin {"idle", "open"} => x.run \in Run
  /\ x.stage \in {"claiming", "leasing", "leased"} =>
       FreshRow(x.run) \/ (status[x.run] = "running" /\ base[x.run] # NoRevision)
  /\ x.stage \in {"leasing", "leased"} /\ base[x.run] # NoRevision => x.seen = base[x.run]
  /\ x.stage = "leased" =>
       \A q \in Run \ {x.run} : SameThread(q, x.run) => status[q] # "running"
  /\ x.stage \in {"completing", "saving"} => Completable(x.run, x.token, x.now)
  /\ x.stage = "saving" => _thread_revision(x.run) = x.seen /\ base[x.run] = x.seen
  /\ x.stage = "seeded" =>
       \A q \in Run \ {x.run} : SameThread(q, x.run) /\ has_state[q] => ~Nonterminal(q)

\* Two transactions do not hold the same row lock, the same thread's advisory
\* lock, or the same thread's index entry.
Apart(x, y) ==
  /\ ~(Locking(x) /\ Locking(y) /\ x.run = y.run)
  /\ ~(Seeding(x) /\ Seeding(y) /\ SameThread(x.run, y.run))
  /\ ~(x.stage = "leased" /\ y.stage = "leased" /\ SameThread(x.run, y.run))

SessionsOK ==
  /\ \A s \in Session : TxnOK(txn[s])
  /\ \A s, o \in Session : s # o => Apart(txn[s], txn[o])

\* The inductive invariant.
PgInv ==
  /\ TypeOK /\ txn \in [Session -> Txn]
  /\ OneRunningPerThread /\ LinearHistory /\ SeedsAreSerial
  /\ SessionsOK

-----------------------------------------------------------------------------
(* Statements that write no row. *)

\* The empty transaction relies on nothing.
LEMMA IdleOK == TxnOK(NoTxn) /\ NoTxn \in Txn /\ \A y : Apart(NoTxn, y) /\ Apart(y, NoTxn)
BY DEF NoTxn, TxnOK, Txn, PgStage, Apart, Locking, Seeding, NoToken, NoRevision

\* A statement without a write keeps the invariant when its own transaction may
\* rely on what it found and is apart from the others.
LEMMA StatementKeeps ==
  ASSUME PgInv, NEW s \in Session, NEW x, TxnOK(x),
         \A o \in Session \ {s} : Apart(x, txn[o]) /\ Apart(txn[o], x),
         txn' = [txn EXCEPT ![s] = x], UNCHANGED vars
  PROVE  PgInv'
<1> USE DEF PgInv, vars, requestVars, leaseVars
<1>1. TypeOK' /\ OneRunningPerThread' /\ LinearHistory' /\ SeedsAreSerial'
  <2>1. TypeOK'
    BY DEF TypeOK
  <2>2. OneRunningPerThread' /\ SeedsAreSerial'
    BY DEF OneRunningPerThread, SeedsAreSerial, SameThread, Nonterminal
  <2>3. LinearHistory'
    BY HistoryStands
  <2> QED
    BY <2>1, <2>2, <2>3
<1>2. txn' \in [Session -> Txn]
  BY DEF TxnOK
<1>3. \A y : TxnOK(y)' <=> TxnOK(y)
  BY DEF TxnOK, FreshRow, Completable, SameThread, Nonterminal, _thread_revision
<1>4. \A y, z : Apart(y, z)' <=> Apart(y, z)
  BY DEF Apart, Locking, Seeding, SameThread
<1>5. SessionsOK'
  BY <1>3, <1>4 DEF SessionsOK
<1> QED
  BY <1>1, <1>2, <1>5

\* The transaction of a session after a statement.
Entered(s, stage, r, t, seen) ==
  [stage |-> stage, now |-> txn[s].now, run |-> r, token |-> t, seen |-> seen]

\* Entering a stage writes exactly that.
LEMMA EnterIs ==
  ASSUME PgInv, NEW s \in Session, NEW stage, NEW r, NEW t, NEW seen, Enter(s, stage, r, t, seen)
  PROVE  txn' = [txn EXCEPT ![s] = Entered(s, stage, r, t, seen)]
BY DEF PgInv, Enter, Entered

\* Every statement that only reads and locks keeps the invariant.
LEMMA ReadingStatements ==
  ASSUME PgInv, NEW s \in Session,
         \/ Begin(s) \/ Rollback(s) \/ LockSeed(s) \/ CheckSeed(s) \/ Scan(s)
         \/ LockCandidate(s) \/ Update(s) \/ EnterIndex(s) \/ LockCompletion(s)
         \/ CompareRevision(s)
  PROVE  PgInv'
<1> DEFINE x == txn[s]
           r == txn[s].run
<1>1. /\ x \in Txn /\ TxnOK(x) /\ x.now \in Int /\ x.token \in Nat /\ NoToken \in Nat
      /\ \A o \in Session \ {s} : /\ TxnOK(txn[o]) /\ Apart(x, txn[o]) /\ Apart(txn[o], x)
                                  /\ txn[o] \in Txn
  BY DEF PgInv, SessionsOK, Txn, NoToken
<1>0. Run \subseteq Nat /\ 0 \in Nat \cup {NoRevision}
  BY RunStoreAssumption
<1>2. CASE Begin(s)
  <2> DEFINE y == [NoTxn EXCEPT !.stage = "open", !.now = now]
  <2>1. TxnOK(y)
    BY Zenon, RunStoreAssumption DEF NoTxn, TxnOK, Txn, PgStage, NoToken, PgInv, TypeOK
  <2>2. \A z : Apart(y, z) /\ Apart(z, y)
    BY DEF NoTxn, Apart, Locking, Seeding
  <2> QED
    BY Zenon, <1>2, <2>1, <2>2, StatementKeeps DEF Begin
<1>3. CASE Rollback(s)
  BY Zenon, <1>3, IdleOK, StatementKeeps DEF Rollback, Close
<1>4. CASE LockSeed(s)
  <2>1. PICK q \in Run : /\ \A o \in Others(s) : ~(Seeding(txn[o]) /\ SameThread(txn[o].run, q))
                         /\ Enter(s, "seeding", q, NoToken, 0)
    BY <1>4 DEF LockSeed, SeedRequest, Seeding
  <2> DEFINE y == Entered(s, "seeding", q, NoToken, 0)
  <2>2. TxnOK(y)
    BY Zenon, <1>0, <1>1 DEF Entered, TxnOK, Txn, PgStage
  <2>3. \A o \in Session \ {s} : Apart(y, txn[o]) /\ Apart(txn[o], y)
    BY Zenon, <2>1 DEF Others, Entered, Apart, Locking, Seeding, SameThread
  <2>4. txn' = [txn EXCEPT ![s] = y] /\ UNCHANGED vars
    BY <1>4, <2>1, EnterIs DEF LockSeed
  <2> HIDE DEF x, r, y
  <2> QED
    BY Zenon, <2>4, <2>2, <2>3, StatementKeeps
<1>5. CASE CheckSeed(s)
  <2> DEFINE y == Entered(s, "seeded", r, NoToken, 0)
  <2>1. x.stage = "seeding" /\ r \in Run
    BY Zenon, <1>1, <1>5 DEF CheckSeed, In, TxnOK
  <2>2. TxnOK(y)
    BY Zenon, <1>0, <1>1, <1>5, <2>1 DEF CheckSeed, Entered, TxnOK, Txn, PgStage, SameThread
  <2>3. \A o \in Session \ {s} : Apart(y, txn[o]) /\ Apart(txn[o], y)
    BY Zenon, <1>1, <2>1 DEF Entered, Apart, Locking, Seeding
  <2>4. txn' = [txn EXCEPT ![s] = y] /\ UNCHANGED vars
    BY Zenon, <1>5, EnterIs DEF CheckSeed
  <2> HIDE DEF x, r, y
  <2> QED
    BY Zenon, <2>4, <2>2, <2>3, StatementKeeps
<1>6. CASE Scan(s)
  <2>1. PICK q \in Run : Enter(s, "scanned", q, NoToken, 0)
    BY <1>6 DEF Scan
  <2> DEFINE y == Entered(s, "scanned", q, NoToken, 0)
  <2>2. TxnOK(y)
    BY Zenon, <1>0, <1>1 DEF Entered, TxnOK, Txn, PgStage
  <2>3. \A o \in Session \ {s} : Apart(y, txn[o]) /\ Apart(txn[o], y)
    BY Zenon DEF Entered, Apart, Locking, Seeding
  <2>4. txn' = [txn EXCEPT ![s] = y] /\ UNCHANGED vars
    BY SMTT(30), <1>6, <2>1, EnterIs DEF Scan
  <2> HIDE DEF x, r, y
  <2> QED
    BY Zenon, <2>4, <2>2, <2>3, StatementKeeps
<1>7. CASE LockCandidate(s)
  <2> DEFINE y == Entered(s, "claiming", r, NoToken, 0)
  <2>1. r \in Run
    BY Zenon, <1>1, <1>7 DEF LockCandidate, In, TxnOK
  <2>2. TxnOK(y)
    BY Zenon, <1>0, <1>1, <1>7, <2>1 DEF LockCandidate, ExpiredRow, Entered, TxnOK, Txn, PgStage
  <2>3. \A o \in Session \ {s} : ~(Locking(txn[o]) /\ txn[o].run = r)
    BY Zenon, <1>7 DEF LockCandidate, Locked, Holds, Locking
  <2>4. \A o \in Session \ {s} : Apart(y, txn[o]) /\ Apart(txn[o], y)
    BY Zenon, <2>3 DEF Entered, Apart, Locking, Seeding
  <2>5. txn' = [txn EXCEPT ![s] = y] /\ UNCHANGED vars
    BY Zenon, <1>7, EnterIs DEF LockCandidate
  <2> HIDE DEF x, r, y
  <2> QED
    BY Zenon, <2>5, <2>2, <2>4, StatementKeeps
<1>8. CASE Update(s)
  <2> DEFINE y == Entered(s, "leasing", r, NoToken, Captured(r))
  <2>1. r \in Run /\ x.stage = "claiming"
    BY Zenon, <1>1, <1>8 DEF Update, In, TxnOK
  <2>2. Captured(r) \in Nat \cup {NoRevision} /\ (base[r] # NoRevision => Captured(r) = base[r])
    BY Zenon, <2>1 DEF Captured, _thread_revision, PgInv, TypeOK
  <2>3. TxnOK(y)
    BY Zenon, <1>0, <1>1, <1>8, <2>1, <2>2 DEF Update, Entered, TxnOK, Txn, PgStage
  <2>4. \A o \in Session \ {s} : Apart(y, txn[o]) /\ Apart(txn[o], y)
    BY Zenon, <1>1, <2>1 DEF Entered, Apart, Locking, Seeding
  <2>5. txn' = [txn EXCEPT ![s] = y] /\ UNCHANGED vars
    <3>1. Enter(s, "leasing", r, NoToken, Captured(r)) /\ UNCHANGED vars
      BY SMTT(30), <1>8 DEF Update
    <3> QED
      BY <3>1, EnterIs
  <2> HIDE DEF x, r, y
  <2> QED
    BY Zenon, <2>5, <2>3, <2>4, StatementKeeps
<1>9. CASE EnterIndex(s)
  <2> DEFINE y == Entered(s, "leased", r, NoToken, x.seen)
  <2>1. r \in Run /\ x.stage = "leasing" /\ x.seen \in Nat \cup {NoRevision}
    BY Zenon, <1>1, <1>9 DEF EnterIndex, In, TxnOK, Txn
  <2>2. TxnOK(y)
    BY Zenon, <1>0, <1>1, <1>9, <2>1 DEF EnterIndex, Entered, TxnOK, Txn, PgStage
  <2>3. \A o \in Session \ {s} : ~(txn[o].stage = "leased" /\ SameThread(txn[o].run, r))
    BY Zenon, <1>9 DEF EnterIndex, Others, In
  <2>4. \A o \in Session \ {s} : Apart(y, txn[o]) /\ Apart(txn[o], y)
    BY Zenon, <1>1, <2>1, <2>3 DEF Entered, Apart, Locking, Seeding, SameThread
  <2>5. txn' = [txn EXCEPT ![s] = y] /\ UNCHANGED vars
    <3>1. Enter(s, "leased", r, NoToken, x.seen) /\ UNCHANGED vars
      BY Zenon, <1>9 DEF EnterIndex
    <3> QED
      BY <3>1, EnterIs
  <2> HIDE DEF x, r, y
  <2> QED
    BY Zenon, <2>5, <2>2, <2>4, StatementKeeps
<1>10. CASE LockCompletion(s)
  <2>1. PICK q \in Run, t \in Nat :
          /\ ~Locked(q) /\ Completable(q, t, x.now) /\ Enter(s, "completing", q, t, 0)
    BY <1>10 DEF LockCompletion, Tokens
  <2> DEFINE y == Entered(s, "completing", q, t, 0)
  <2>3. TxnOK(y)
    BY Zenon, <1>0, <1>1, <2>1 DEF Entered, TxnOK, Txn, PgStage
  <2>4. \A o \in Session \ {s} : ~(Locking(txn[o]) /\ txn[o].run = q)
    BY Zenon, <2>1 DEF Locked, Holds, Locking
  <2>5. \A o \in Session \ {s} : Apart(y, txn[o]) /\ Apart(txn[o], y)
    BY Zenon, <2>4 DEF Entered, Apart, Locking, Seeding
  <2>6. txn' = [txn EXCEPT ![s] = y] /\ UNCHANGED vars
    BY Zenon, <1>10, <2>1, EnterIs DEF LockCompletion
  <2> HIDE DEF x, r, y
  <2> QED
    BY Zenon, <2>6, <2>3, <2>5, StatementKeeps
<1>11. CASE CompareRevision(s)
  <2> DEFINE y == Entered(s, "saving", r, x.token, _thread_revision(r))
  <2>1. r \in Run /\ x.stage = "completing"
    BY Zenon, <1>1, <1>11 DEF CompareRevision, In, TxnOK
  <2>2. base[r] = _thread_revision(r) /\ _thread_revision(r) \in Nat
    BY Zenon, <1>11, <2>1 DEF CompareRevision, load_thread_state_snapshot, _thread_revision, PgInv, TypeOK
  <2>3. TxnOK(y)
    BY Zenon, <1>0, <1>1, <2>1, <2>2 DEF Entered, TxnOK, Txn, PgStage
  <2>4. \A o \in Session \ {s} : Apart(y, txn[o]) /\ Apart(txn[o], y)
    BY Zenon, <1>1, <2>1 DEF Entered, Apart, Locking, Seeding
  <2>5. txn' = [txn EXCEPT ![s] = y] /\ UNCHANGED vars
    <3>1. Enter(s, "saving", r, x.token, _thread_revision(r)) /\ UNCHANGED vars
      BY <1>11 DEF CompareRevision
    <3> QED
      BY <3>1, EnterIs
  <2> HIDE DEF x, r, y
  <2> QED
    BY Zenon, <2>5, <2>3, <2>4, StatementKeeps
<1> QED
  BY SMTT(30), <1>2, <1>3, <1>4, <1>5, <1>6, <1>7, <1>8, <1>9, <1>10, <1>11

-----------------------------------------------------------------------------
(* Statements that write the row of a Run and commit. *)

\* A commit of session s writes row r, which no other transaction has locked; it
\* starts r only with the thread's index entry, and inserts a seed only under the
\* thread's advisory lock.
Writes(s, r) ==
  /\ Close(s)
  /\ UNCHANGED <<thread_id, has_state>>
  /\ \A q \in Run \ {r} :
       /\ status'[q] = status[q] /\ cancel_requested'[q] = cancel_requested[q]
       /\ base'[q] = base[q] /\ lease_token'[q] = lease_token[q]
       /\ lease_expires_at'[q] = lease_expires_at[q]
  /\ \A o \in Session \ {s} : ~(Locking(txn[o]) /\ txn[o].run = r)
  /\ \/ Quiet \/ Dropped(r) \/ Saved(r)
     \/ Taken(r) /\ (status[r] = "running" \/ (txn[s].stage = "leased" /\ txn[s].run = r))
     \/ Created(r) /\ (~has_state[r] \/ (txn[s].stage = "seeded" /\ txn[s].run = r))

\* What the other transactions rely on survives such a commit.
LEMMA OthersStand ==
  ASSUME PgInv, NEW s \in Session, NEW r \in Run, Writes(s, r)
  PROVE  SessionsOK'
<1> USE DEF PgInv
<1>1. /\ \A q \in Run : status'[q] = "running" => status[q] = "running" \/
                          (q = r /\ txn[s].stage = "leased" /\ txn[s].run = r)
      /\ \A q \in Run : status'[q] \in {"queued", "running"} =>
           \/ status[q] \in {"queued", "running"}
           \/ q = r /\ (~has_state[r] \/ (txn[s].stage = "seeded" /\ txn[s].run = r))
      /\ revision' = revision
         \/ (status[r] = "running" /\ \A th \in Thread \ {thread_id[r]} : revision'[th] = revision[th])
  BY Zenon DEF Writes, Quiet, Dropped, Saved, Taken, Created, Nonterminal, TypeOK
<1>2. ASSUME NEW o \in Session \ {s} PROVE TxnOK(txn[o])'
  <2> DEFINE x == txn[o]
  <2>0. txn'[o] = x /\ TxnOK(x) /\ Apart(txn[s], x)
    BY Zenon DEF Writes, Close, SessionsOK
  <2>1. x \in Txn /\ (x.stage \notin {"idle", "open"} => x.run \in Run)
    BY Zenon, <2>0 DEF TxnOK
  <2>2. Locking(x) => x.run \in Run \ {r}
    BY Zenon, <2>1 DEF Writes, Locking
  <2>3. x.stage \in {"claiming", "leasing", "leased"} =>
          (FreshRow(x.run) \/ (status[x.run] = "running" /\ base[x.run] # NoRevision))'
    BY Zenon, <2>0, <2>2 DEF Writes, TxnOK, FreshRow, Locking
  <2>4. x.stage \in {"leasing", "leased"} /\ base'[x.run] # NoRevision => x.seen = base'[x.run]
    BY Zenon, <2>0, <2>2 DEF Writes, TxnOK, Locking
  <2>5. x.stage = "leased" =>
          \A q \in Run \ {x.run} : SameThread(q, x.run)' => status'[q] # "running"
    <3> SUFFICES ASSUME x.stage = "leased", NEW q \in Run \ {x.run}, SameThread(q, x.run)', status'[q] = "running"
                 PROVE  FALSE
      BY Zenon
    <3>0. UNCHANGED thread_id
      BY Zenon DEF Writes
    <3>1. x.run \in Run /\ SameThread(q, x.run)
      BY Zenon, <2>0, <2>1, <3>0 DEF SameThread
    <3>2. status[q] # "running"
      BY Zenon, <2>0, <3>1 DEF TxnOK
    <3>3. q = r /\ txn[s].stage = "leased" /\ txn[s].run = r
      BY Zenon, <1>1, <3>2
    <3> QED
      BY Zenon, <2>0, <3>1, <3>3 DEF Apart
  <2>6. x.stage \in {"completing", "saving"} => Completable(x.run, x.token, x.now)'
    BY Zenon, <2>0, <2>2 DEF Writes, TxnOK, Completable, Locking
  <2>7. x.stage = "saving" => revision'[thread_id[x.run]] = x.seen /\ base'[x.run] = x.seen
    <3> SUFFICES ASSUME x.stage = "saving"
                 PROVE  revision'[thread_id[x.run]] = x.seen /\ base'[x.run] = x.seen
      BY Zenon
    <3>1. /\ x.run \in Run \ {r} /\ status[x.run] = "running"
          /\ revision[thread_id[x.run]] = x.seen /\ base[x.run] = x.seen
      BY Zenon, <2>0, <2>2 DEF TxnOK, Locking, Completable, _thread_revision
    <3>2. status[r] = "running" => thread_id[x.run] # thread_id[r]
      BY Zenon, <3>1 DEF OneRunningPerThread, SameThread
    <3> QED
      BY Zenon, <3>1, <3>2, <1>1 DEF Writes, TypeOK
  <2>8. x.stage = "seeded" =>
          \A q \in Run \ {x.run} : SameThread(q, x.run)' /\ has_state'[q] => status'[q] \notin {"queued", "running"}
    <3> SUFFICES ASSUME x.stage = "seeded", NEW q \in Run \ {x.run}, SameThread(q, x.run)', has_state'[q],
                        status'[q] \in {"queued", "running"}
                 PROVE  FALSE
      BY Zenon
    <3>0. UNCHANGED <<thread_id, has_state>>
      BY Zenon DEF Writes
    <3>1. x.run \in Run /\ SameThread(q, x.run) /\ has_state[q]
      BY Zenon, <2>0, <2>1, <3>0 DEF SameThread
    <3>2. ~Nonterminal(q)
      BY Zenon, <2>0, <3>1 DEF TxnOK
    <3>3. q = r /\ txn[s].stage = "seeded" /\ txn[s].run = r
      BY Zenon, <1>1, <3>1, <3>2 DEF Nonterminal
    <3> QED
      BY Zenon, <2>0, <3>1, <3>3 DEF Apart, Seeding
  <2> QED
    BY Zenon, <2>0, <2>1, <2>3, <2>4, <2>5, <2>6, <2>7, <2>8 DEF TxnOK, Nonterminal, _thread_revision, Writes
<1>3. txn'[s] = NoTxn /\ TxnOK(txn[s])'
  BY Zenon, IdleOK DEF Writes, Close, NoTxn, TxnOK
<1>4. \A x, y : Apart(x, y)' <=> Apart(x, y)
  BY Zenon DEF Writes, Apart, Locking, Seeding, SameThread
<1>5. \A p, o \in Session : p # o => Apart(txn[p], txn[o])'
  <2> SUFFICES ASSUME NEW p \in Session, NEW o \in Session, p # o PROVE Apart(txn'[p], txn'[o])
    BY <1>4
  <2>1. CASE p = s \/ o = s
    BY <2>1, <1>3, IdleOK
  <2>2. CASE p # s /\ o # s
    BY Zenon, <2>2 DEF Writes, Close, SessionsOK
  <2> QED
    BY <2>1, <2>2
<1> QED
  BY <1>2, <1>3, <1>5 DEF SessionsOK

\* Such a commit keeps the invariant.
LEMMA CommitKeeps ==
  ASSUME PgInv, NEW s \in Session, NEW r \in Run, Writes(s, r), TypeOK'
  PROVE  PgInv'
<1> USE DEF PgInv
<1>0. TxnOK(txn[s])
  BY DEF SessionsOK
<1>1. txn' \in [Session -> Txn]
  BY Zenon, IdleOK DEF Writes, Close
<1>2. OneRunningPerThread'
  <2> SUFFICES ASSUME NEW p \in Run, NEW q \in Run, status'[p] = "running", status'[q] = "running",
                      thread_id[p] = thread_id[q]
               PROVE  p = q
    BY Zenon DEF OneRunningPerThread, SameThread, Writes
  <2>1. \A u \in Run : status'[u] = "running" => status[u] = "running" \/
                       (u = r /\ txn[s].stage = "leased" /\ txn[s].run = r)
    BY Zenon DEF Writes, Quiet, Dropped, Saved, Taken, Created, TypeOK
  <2> QED
    BY Zenon, <1>0, <2>1 DEF OneRunningPerThread, SameThread, TxnOK
<1>3. LinearHistory'
  <2>1. CASE Saved(r)
    BY <2>1, SavingExtendsHistory
  <2>2. CASE ~Saved(r)
    <3>1. \A q \in Run : /\ status'[q] = "completed" <=> status[q] = "completed"
                         /\ status[q] = "completed" => base'[q] = base[q]
      BY Zenon, <2>2 DEF Writes, Quiet, Dropped, Taken, Created, Nonterminal, TypeOK
    <3>2. UNCHANGED <<thread_id, revision>>
      BY Zenon, <2>2 DEF Writes, Quiet, Dropped, Taken, Created
    <3> QED
      BY <3>1, <3>2, HistoryStands
  <2> QED
    BY <2>1, <2>2
<1>4. SeedsAreSerial'
  <2> SUFFICES ASSUME NEW p \in Run, NEW q \in Run, has_state[p], has_state[q], thread_id[p] = thread_id[q],
                      status'[p] \in {"queued", "running"}, status'[q] \in {"queued", "running"}
               PROVE  p = q
    BY Zenon DEF SeedsAreSerial, SameThread, Writes, Nonterminal
  <2>1. \A u \in Run : has_state[u] /\ status'[u] \in {"queued", "running"} =>
           \/ status[u] \in {"queued", "running"}
           \/ u = r /\ txn[s].stage = "seeded" /\ txn[s].run = r
    BY Zenon DEF Writes, Quiet, Dropped, Saved, Taken, Created, Nonterminal, TypeOK
  <2> QED
    BY Zenon, <1>0, <2>1 DEF SeedsAreSerial, SameThread, TxnOK, Nonterminal
<1> QED
  BY <1>1, <1>2, <1>3, <1>4, OthersStand

\* A submission inserts a row nobody else could have locked.
LEMMA InsertWrites ==
  ASSUME PgInv, NEW s \in Session, NEW r \in Run, _insert_run(r), Close(s),
         ~has_state[r] \/ (txn[s].stage = "seeded" /\ txn[s].run = r)
  PROVE  Writes(s, r) /\ TypeOK'
<1> USE RunStoreAssumption DEF PgInv, requestVars, leaseVars
<1>1. Created(r)
  BY DEF _insert_run, Created
<1>2. \A o \in Session : ~(Locking(txn[o]) /\ txn[o].run = r)
  BY Zenon DEF _insert_run, SessionsOK, TxnOK, Locking, FreshRow, Completable
<1>3. Writes(s, r)
  BY Zenon, <1>1, <1>2 DEF Writes, _insert_run, TypeOK
<1>4. events' \in [Run -> Seq(EventType)]
  BY EventSequences DEF _insert_run, _append_event, TypeOK
<1>5. TypeOK'
  BY Zenon, <1>4 DEF TypeOK, _insert_run, Status, Terminal, NoRevision
<1> QED
  BY <1>3, <1>5

\* A terminal commit of an unlocked row.
LEMMA EndingWrites ==
  ASSUME PgInv, NEW s \in Session, NEW r \in Run, NEW st \in {"failed", "cancelled"},
         NEW code \in ErrorCode, NEW es \in Seq(EventType), Nonterminal(r),
         status' = [status EXCEPT ![r] = st],
         error_code' = [error_code EXCEPT ![r] = code],
         _clear_lease(r), _append_event(r, es),
         UNCHANGED <<requestVars, cancel_requested, base, attempt, now, revision>>,
         Close(s), \A o \in Session \ {s} : ~(Locking(txn[o]) /\ txn[o].run = r)
  PROVE  Writes(s, r) /\ TypeOK'
<1> USE DEF PgInv, requestVars, leaseVars
<1>1. Dropped(r)
  BY Zenon DEF Dropped
<1>2. Writes(s, r)
  BY Zenon, <1>1 DEF Writes, _clear_lease, TypeOK
<1>3. TypeOK'
  <2>1. _terminalize(r, st, code, es) /\ st \in Terminal /\ revision' \in [Thread -> Nat]
    BY Zenon DEF _terminalize, Terminal, TypeOK
  <2> QED
    BY <2>1, EndingKeepsTypes
<1> QED
  BY <1>2, <1>3

\* claim_next_run commits the lease of the row it locked.
LEMMA ClaimWrites ==
  ASSUME PgInv, NEW s \in Session, CommitClaim(s)
  PROVE  \E r \in Run : Writes(s, r) /\ TypeOK'
<1> USE RunStoreAssumption DEF PgInv, requestVars, leaseVars
<1> DEFINE x == txn[s]
           r == x.run
<1>0. /\ x.stage = "leased" /\ Close(s) /\ UNCHANGED now /\ TxnOK(x) /\ x \in Txn
      /\ At(x)!Lease(r, x.seen)
  BY Zenon DEF CommitClaim, In, SessionsOK
<1>1. r \in Run /\ x.now \in Int /\ x.seen \in Nat \cup {NoRevision}
  BY Zenon, <1>0 DEF TxnOK, Txn
<1>2. \A o \in Session \ {s} : ~(Locking(txn[o]) /\ txn[o].run = r)
  BY Zenon, <1>0 DEF SessionsOK, Apart, Locking
<1>3. /\ status' = [status EXCEPT ![r] = "running"]
      /\ attempt' = [attempt EXCEPT ![r] = @ + 1]
      /\ error_code' = [error_code EXCEPT ![r] = IF @ = PENDING THEN @ ELSE "none"]
      /\ lease_token' = [lease_token EXCEPT ![r] = attempt[r] + 1]
      /\ lease_expires_at' = [lease_expires_at EXCEPT ![r] = x.now + LeaseDuration]
      /\ base' = [base EXCEPT ![r] = x.seen]
      /\ UNCHANGED <<requestVars, cancel_requested, revision>>
  BY Zenon, <1>0 DEF At!Lease, At!requestVars, At!PENDING, PENDING
<1>4. \E es \in Seq(EventType) : events' = [events EXCEPT ![r] = @ \o es]
  BY Zenon, <1>0, EventSequences DEF At!Lease, At!_append_event
<1>5. Taken(r)
  <2>1. FreshRow(r) \/ status[r] = "running"
    BY Zenon, <1>0 DEF TxnOK
  <2>2. \A q \in Run \ {r} : SameThread(q, r) => status[q] # "running"
    BY Zenon, <1>0 DEF TxnOK
  <2> QED
    BY Zenon, <1>1, <1>3, <2>1, <2>2 DEF Taken, FreshRow, TypeOK
<1>6. Writes(s, r)
  BY SMTT(30), <1>0, <1>1, <1>2, <1>3, <1>5 DEF Writes, TypeOK
<1>7. TypeOK'
  <2> HIDE DEF x, r
  <2>0. PICK es \in Seq(EventType) : events' = [events EXCEPT ![r] = @ \o es]
    BY Zenon, <1>4
  <2>1. events' \in [Run -> Seq(EventType)]
    BY <1>1, <2>0 DEF TypeOK
  <2>2. status' \in [Run -> Status] /\ attempt' \in [Run -> Nat] /\ lease_token' \in [Run -> Nat]
    BY SMTT(30), <1>1, <1>3 DEF TypeOK, Status
  <2>3. error_code' \in [Run -> ErrorCode]
    BY Zenon, <1>1, <1>3 DEF TypeOK, ErrorCode
  <2>4. lease_expires_at' \in [Run -> Int] /\ base' \in [Run -> Nat \cup {NoRevision}]
    BY SMTT(30), <1>1, <1>3 DEF TypeOK
  <2> QED
    BY Zenon, <1>0, <1>3, <2>1, <2>2, <2>3, <2>4 DEF TypeOK
<1> QED
  BY Zenon, <1>1, <1>6, <1>7

\* commit_completed_run ends a Run whose captured revision is gone.
LEMMA RejectionWrites ==
  ASSUME PgInv, NEW s \in Session, RejectStale(s)
  PROVE  \E r \in Run : Writes(s, r) /\ TypeOK'
<1> DEFINE x == txn[s]
           r == x.run
<1>0. /\ x.stage = "completing" /\ Close(s) /\ UNCHANGED now /\ TxnOK(x)
      /\ At(x)!RejectStaleResult(r, x.token)
  BY Zenon DEF PgInv, RejectStale, In, SessionsOK
<1>1. r \in Run /\ Nonterminal(r)
  BY Zenon, <1>0 DEF TxnOK, Completable, Nonterminal
<1>2. \A o \in Session \ {s} : ~(Locking(txn[o]) /\ txn[o].run = r)
  BY Zenon, <1>0 DEF PgInv, SessionsOK, Apart, Locking
<1>3. /\ status' = [status EXCEPT ![r] = "failed"]
      /\ error_code' = [error_code EXCEPT ![r] = CONFLICT]
      /\ _clear_lease(r)
      /\ _append_event(r, <<"checkpoint.conflict", "run.failed">>)
      /\ UNCHANGED <<requestVars, cancel_requested, base, attempt, now, revision>>
  BY Zenon, <1>0 DEF At!RejectStaleResult, At!_fail_checkpoint_conflict, At!_terminalize, At!_clear_lease,
     At!_append_event, At!requestVars, At!CONFLICT, At!NoToken, _clear_lease, _append_event, CONFLICT,
     NoToken, requestVars
<1>4. CONFLICT \in ErrorCode
  BY Zenon DEF ErrorCode
<1> HIDE DEF x, r
<1>5. Writes(s, r) /\ TypeOK'
  BY Zenon, <1>0, <1>1, <1>2, <1>3, <1>4, EventSequences, EndingWrites
<1> QED
  BY <1>1, <1>5

\* commit_completed_run saves the checkpoint it compared.
LEMMA CompletionWrites ==
  ASSUME PgInv, NEW s \in Session, CommitCompletion(s), ~UNCHANGED vars
  PROVE  \E r \in Run : Writes(s, r) /\ TypeOK'
<1> USE DEF PgInv
<1> DEFINE x == txn[s]
           r == x.run
<1>0. /\ x.stage = "saving" /\ Close(s) /\ TxnOK(x)
      /\ _terminalize(r, "completed", "none", <<"checkpoint.saved", "run.completed">>)
      /\ revision' = [revision EXCEPT ![thread_id[r]] = @ + 1]
  BY Zenon DEF CommitCompletion, In, SessionsOK
<1>1. r \in Run /\ status[r] = "running" /\ ~cancel_requested[r] /\ base[r] = _thread_revision(r)
  BY Zenon, <1>0 DEF TxnOK, Completable
<1>2. \A o \in Session \ {s} : ~(Locking(txn[o]) /\ txn[o].run = r)
  BY Zenon, <1>0 DEF SessionsOK, Apart, Locking
<1> HIDE DEF x, r
<1>3. Saved(r)
  BY Zenon, <1>0, <1>1 DEF Saved, _terminalize, requestVars
<1>4. Writes(s, r)
  BY Zenon, <1>0, <1>1, <1>2, <1>3 DEF Writes, _terminalize, _clear_lease, requestVars, TypeOK
<1>5. revision' \in [Thread -> Nat]
  BY <1>0, <1>1 DEF TypeOK
<1>6. "completed" \in Terminal /\ "none" \in ErrorCode
  BY Zenon DEF Terminal, ErrorCode
<1>7. TypeOK'
  BY Zenon, <1>0, <1>1, <1>5, <1>6, EventSequences, EndingKeepsTypes
<1> QED
  BY Zenon, <1>1, <1>4, <1>7

\* The transactions that write one Run: cancellation, lease upkeep, failures.
LEMMA RunWrites ==
  ASSUME PgInv, NEW s \in Session, WriteRun(s)
  PROVE  \E r \in Run : Writes(s, r) /\ TypeOK'
<1> USE DEF requestVars, leaseVars
<1>1. PICK r \in Run :
        /\ ~Locked(r)
        /\ \/ ClientWrite(r)
           \/ /\ \E t \in Tokens(r), x \in {txn[s]} : AttemptWrite(r, t, x)
              /\ UNCHANGED now
  BY DEF WriteRun
<1>2. Close(s) /\ TypeOK
  BY DEF WriteRun, PgInv
<1>3. \A o \in Session \ {s} : ~(Locking(txn[o]) /\ txn[o].run = r)
  BY Zenon, <1>1 DEF Locked, Holds, Locking
<1>a. CONFLICT \in ErrorCode /\ EXECUTION \in ErrorCode /\ SAFETY \in ErrorCode
      /\ PENDING \in ErrorCode /\ "none" \in ErrorCode
  BY DEF ErrorCode
<1>4. ASSUME Quiet, \A q \in Run \ {r} : /\ cancel_requested'[q] = cancel_requested[q]
                                        /\ lease_token'[q] = lease_token[q]
                                        /\ lease_expires_at'[q] = lease_expires_at[q]
      PROVE  Writes(s, r)
  BY Zenon, <1>2, <1>3, <1>4 DEF Writes, Quiet
<1>5. CASE request_cancel_atomically(r)
  <2>1. Writes(s, r)
    BY Zenon, <1>2, <1>4, <1>5 DEF request_cancel_atomically, Quiet, TypeOK
  <2>2. events' \in [Run -> Seq(EventType)]
    BY SMTT(30), <1>2, <1>5, EventSequences DEF request_cancel_atomically, _append_event, TypeOK
  <2>3. TypeOK'
    BY Zenon, <1>2, <1>5, <2>2 DEF request_cancel_atomically, TypeOK
  <2> QED
    BY <2>1, <2>3
<1>6. CASE finalize_queued_cancellation(r)
  <2>1. /\ status' = [status EXCEPT ![r] = "cancelled"]
        /\ error_code' = [error_code EXCEPT ![r] = "none"]
        /\ _clear_lease(r) /\ _append_event(r, <<"run.cancelled">>)
        /\ UNCHANGED <<requestVars, cancel_requested, base, attempt, now, revision>>
        /\ Nonterminal(r)
    BY Zenon, <1>6 DEF finalize_queued_cancellation, QueuedCancellation, _terminalize, Nonterminal
  <2> QED
    BY Zenon, <1>2, <1>3, <1>a, <2>1, EventSequences, EndingWrites
<1>7. ASSUME NEW t \in Tokens(r), AttemptWrite(r, t, txn[s]), UNCHANGED now
      PROVE  \E q \in Run : Writes(s, q) /\ TypeOK'
  <2> DEFINE x == txn[s]
  <2>0. x.now \in Int /\ x.now + LeaseDuration \in Int
    BY RunStoreAssumption DEF PgInv, Txn
  <2>1. CASE LeaseWrite(r, t, x)
    <3>1. /\ UNCHANGED <<requestVars, status, cancel_requested, base, lease_token,
                         attempt, error_code, revision, events, now>>
          /\ \E n \in Int : lease_expires_at' = [lease_expires_at EXCEPT ![r] = n]
      BY Zenon, <1>7, <2>0, <2>1 DEF LeaseWrite, At!renew_run_lease, At!expire_run_lease, At!requestVars
    <3>2. Writes(s, r)
      BY Zenon, <1>2, <1>4, <3>1 DEF Quiet, TypeOK
    <3>3. TypeOK'
      BY Zenon, <1>2, <3>1 DEF TypeOK
    <3> QED
      BY <3>2, <3>3
  <2>2. CASE PendingWrite(r, t, x)
    <3>1. /\ UNCHANGED <<requestVars, status, cancel_requested, base, leaseVars,
                         attempt, revision, events, now>>
          /\ error_code' = [error_code EXCEPT ![r] = PENDING]
      BY Zenon, <1>7, <2>2 DEF PendingWrite, At!commit_reconciliation_pending, At!requestVars, At!leaseVars,
         At!PENDING, PENDING
    <3>2. Writes(s, r)
      BY Zenon, <1>2, <1>4, <3>1 DEF Quiet
    <3>3. TypeOK'
      BY Zenon, <1>2, <1>a, <3>1 DEF TypeOK
    <3> QED
      BY <3>2, <3>3
  <2>3. ASSUME NEW st \in {"failed", "cancelled"}, NEW code \in ErrorCode,
               NEW es \in Seq(EventType),
               At(x)!_terminalize(r, st, code, es), UNCHANGED revision, Nonterminal(r)
        PROVE  \E q \in Run : Writes(s, q) /\ TypeOK'
    <3>1. /\ status' = [status EXCEPT ![r] = st]
          /\ error_code' = [error_code EXCEPT ![r] = code]
          /\ _clear_lease(r) /\ _append_event(r, es)
          /\ UNCHANGED <<requestVars, cancel_requested, base, attempt, now, revision>>
      BY Zenon, <1>7, <2>3 DEF At!_terminalize, At!_clear_lease, At!_append_event, At!requestVars, At!NoToken,
         _clear_lease, _append_event, NoToken
    <3> QED
      BY Zenon, <1>2, <1>3, <2>3, <3>1, EndingWrites
  <2>4. CASE ConflictWrite(r, t, x)
    <3>1. /\ At(x)!_terminalize(r, "failed", CONFLICT, <<"checkpoint.conflict", "run.failed">>)
          /\ UNCHANGED revision /\ Nonterminal(r)
      BY Zenon, <2>4 DEF ConflictWrite, At!commit_checkpoint_conflict, At!_fail_checkpoint_conflict, Nonterminal,
         At!CONFLICT, CONFLICT
    <3> QED
      BY Zenon, <3>1, <2>3, <1>a, EventSequences
  <2>5. CASE EndWrite(r, t, x)
    <3>1. \/ /\ At(x)!_terminalize(r, "cancelled", "none", <<"run.cancelled">>)
             /\ UNCHANGED revision /\ Nonterminal(r)
          \/ \E code \in {EXECUTION, SAFETY} :
               /\ At(x)!_terminalize(r, "failed", code, <<"run.failed">>)
               /\ UNCHANGED revision /\ Nonterminal(r)
      BY Zenon, <2>5 DEF EndWrite, At!commit_cancelled_run, At!commit_failed_run, At!Nonterminal, Nonterminal
    <3> QED
      BY Zenon, <3>1, <2>3, <1>a, EventSequences
  <2> QED
    BY Zenon, <1>7, <2>1, <2>2, <2>4, <2>5 DEF AttemptWrite
<1> QED
  BY Zenon, <1>1, <1>5, <1>6, <1>7 DEF ClientWrite

-----------------------------------------------------------------------------
(* The theorems. *)

\* A step of a session either reads, or commits the row of one Run.
LEMMA SessionStep ==
  ASSUME PgInv, NEW s \in Session, Transaction(s)
  PROVE  PgInv' /\ (UNCHANGED vars \/ \E r \in Run : Writes(s, r))
<1>1. CASE \/ Begin(s) \/ Rollback(s) \/ LockSeed(s) \/ CheckSeed(s) \/ Scan(s)
           \/ LockCandidate(s) \/ Update(s) \/ EnterIndex(s) \/ LockCompletion(s)
           \/ CompareRevision(s)
  <2>1. UNCHANGED vars
    BY <1>1 DEF Begin, Rollback, LockSeed, CheckSeed, Scan, LockCandidate, Update, EnterIndex,
       LockCompletion, CompareRevision
  <2> QED
    BY Zenon, <1>1, <2>1, ReadingStatements
<1>2. CASE CreateRun(s)
  BY Zenon, <1>2, InsertWrites, CommitKeeps DEF CreateRun
<1>3. CASE CommitSeed(s)
  <2>1. txn[s].run \in Run /\ txn[s].stage = "seeded"
    BY Zenon, <1>3 DEF CommitSeed, In, PgInv, SessionsOK, TxnOK
  <2> QED
    BY Zenon, <1>3, <2>1, InsertWrites, CommitKeeps DEF CommitSeed
<1>4. CASE CommitClaim(s) \/ RejectStale(s) \/ WriteRun(s)
  BY <1>4, ClaimWrites, RejectionWrites, RunWrites, CommitKeeps
<1>5. CASE CommitCompletion(s) /\ UNCHANGED vars
  <2>1. txn' = [txn EXCEPT ![s] = NoTxn]
    BY Zenon, <1>5 DEF CommitCompletion, Close
  <2> QED
    BY Zenon, <1>5, <2>1, IdleOK, StatementKeeps
<1>6. CASE CommitCompletion(s) /\ ~UNCHANGED vars
  BY <1>6, CompletionWrites, CommitKeeps
<1> QED
  BY Zenon, <1>1, <1>2, <1>3, <1>4, <1>5, <1>6 DEF Transaction

\* A step that changes neither Runs nor transactions keeps the invariant.
LEMMA ClockKeeps ==
  ASSUME PgInv, UNCHANGED txn, AdvanceClock \/ UNCHANGED vars
  PROVE  PgInv' /\ Quiet
<1>1. /\ UNCHANGED <<thread_id, has_state, status, cancel_requested, base, lease_token,
                     lease_expires_at, attempt, error_code, revision, events>>
      /\ now' \in Clock
  BY Zenon DEF AdvanceClock, vars, requestVars, leaseVars, PgInv, TypeOK
<1>2. TypeOK' /\ OneRunningPerThread' /\ LinearHistory' /\ SeedsAreSerial'
  <2>1. TypeOK'
    BY Zenon, <1>1 DEF PgInv, TypeOK
  <2>2. OneRunningPerThread' /\ SeedsAreSerial'
    BY Zenon, <1>1 DEF PgInv, OneRunningPerThread, SeedsAreSerial, SameThread, Nonterminal
  <2>3. LinearHistory'
    BY Zenon, <1>1, HistoryStands DEF PgInv
  <2> QED
    BY <2>1, <2>2, <2>3
<1>3. \A y : TxnOK(y)' <=> TxnOK(y)
  BY SMTT(30), <1>1 DEF TxnOK, FreshRow, Completable, SameThread, Nonterminal, _thread_revision
<1>4. \A y, z : Apart(y, z)' <=> Apart(y, z)
  BY Zenon, <1>1 DEF Apart, Locking, Seeding, SameThread
<1>5. SessionsOK'
  BY <1>3, <1>4 DEF PgInv, SessionsOK
<1> QED
  BY Zenon, <1>1, <1>2, <1>5 DEF PgInv, Quiet

\* The store starts with no Runs and no open transaction.
LEMMA PgInitInv == PgInit => PgInv
<1> SUFFICES ASSUME PgInit PROVE PgInv
  OBVIOUS
<1>1. TypeOK /\ OneRunningPerThread /\ LinearHistory
  BY InitIInv DEF PgInit, IInv
<1>2. SeedsAreSerial
  BY Zenon DEF PgInit, Init, SeedsAreSerial, Nonterminal
<1>3. txn \in [Session -> Txn] /\ SessionsOK
  BY IdleOK DEF PgInit, SessionsOK
<1> QED
  BY <1>1, <1>2, <1>3 DEF PgInv

\* A step of the store on PostgreSQL has one of the shapes of RunStore's steps.
LEMMA PgStep ==
  ASSUME PgInv, [PgNext]_pgVars
  PROVE  /\ PgInv'
         /\ Quiet \/ \E r \in Run : Dropped(r) \/ Created(r) \/ Taken(r) \/ Saved(r)
<1>1. CASE UNCHANGED pgVars \/ (AdvanceClock /\ UNCHANGED txn)
  BY <1>1, ClockKeeps DEF pgVars
<1>2. ASSUME NEW s \in Session, Transaction(s)
      PROVE  /\ PgInv'
             /\ Quiet \/ \E r \in Run : Dropped(r) \/ Created(r) \/ Taken(r) \/ Saved(r)
  <2>1. PgInv' /\ (UNCHANGED vars \/ \E r \in Run : Writes(s, r))
    BY <1>2, SessionStep
  <2>2. UNCHANGED vars => Quiet
    BY DEF vars, requestVars, Quiet
  <2> QED
    BY Zenon, <2>1, <2>2 DEF Writes
<1> QED
  BY Zenon, <1>1, <1>2 DEF PgNext

\* However the statements of concurrent transactions interleave, every open
\* transaction can rely on what its earlier statements found.
THEOREM PgInvariance == PgSpec => []PgInv
  BY PgInitInv, PgStep, PTL DEF PgSpec

\* A thread has at most one unfinished client state: _prepare_client_state_seed
\* checks and inserts under the thread's advisory lock.
THEOREM PgSeedsAreSerial == PgSpec => []SeedsAreSerial
<1>1. PgInv => SeedsAreSerial
  BY DEF PgInv
<1> QED
  BY <1>1, PgInvariance, PTL

\* commit_completed_run never finds at a later statement that the Run was
\* cancelled, taken over or overtaken since an earlier one.
THEOREM PgCompletionIsStable == PgSpec => []CompletionIsStable
<1>1. PgInv => CompletionIsStable
  BY Zenon DEF PgInv, SessionsOK, TxnOK, CompletionIsStable
<1> QED
  BY <1>1, PgInvariance, PTL

\* The interleaved transactions implement the same serial log of saved Runs per
\* thread as the one-writer store.
THEOREM PgRefinesThreadHistory == PgSpec => ImplementsThreadHistory
<1>1. PgInv /\ PgInv' /\ [PgNext]_pgVars => [History!Next]_(History!vars)
  BY Zenon, PgStep, ShapeImplements DEF PgInv
<1>2. PgInit => History!Init
  BY InitImplements DEF PgInit
<1> QED
  BY <1>1, <1>2, PgInvariance, PTL DEF PgSpec, ImplementsThreadHistory, History!Spec

-----------------------------------------------------------------------------
(* The event stream of RunStore tells the life of a Run. *)

Occurrences(s, types) == {i \in DOMAIN s : s[i] \in types}
Count(s, types) == Cardinality(Occurrences(s, types))

\* A stream with one and with two events more.
One(s, d) == s \o <<d>>
Two(s, d, e) == s \o <<d, e>>

\* One more entry is counted once.
LEMMA CountExtended ==
  ASSUME NEW s \in Seq(EventType), NEW u \in Seq(EventType), NEW types,
         Len(u) = Len(s) + 1, \A i \in 1 .. Len(s) : u[i] = s[i]
  PROVE  /\ Cardinality(Occurrences(s, types)) \in Nat
         /\ Cardinality(Occurrences(u, types))
            = Cardinality(Occurrences(s, types)) + (IF u[Len(u)] \in types THEN 1 ELSE 0)
<1> DEFINE S == Occurrences(s, types)  n == Len(u)
<1>1. /\ Len(s) \in Nat /\ DOMAIN s = 1 .. Len(s)
      /\ DOMAIN u = 1 .. Len(s) + 1 /\ n = Len(s) + 1
  OBVIOUS
<1>2. IsFiniteSet(S) /\ Cardinality(S) \in Nat
  <2>1. IsFiniteSet(1 .. Len(s))
    BY <1>1, FS_Interval
  <2>2. S \in SUBSET (1 .. Len(s))
    BY <1>1 DEF Occurrences
  <2>3. IsFiniteSet(S)
    BY <2>1, <2>2, FS_Subset
  <2> QED
    BY <2>3, FS_CardinalityType
<1>3. Occurrences(u, types) = IF u[n] \in types THEN S \cup {n} ELSE S
  BY <1>1 DEF Occurrences
<1>4. n \notin S
  BY <1>1 DEF Occurrences
<1>5. Cardinality(S \cup {n}) = Cardinality(S) + 1
  BY Zenon, <1>2, <1>4, FS_AddElement
<1> HIDE DEF S
<1> QED
  BY <1>2, <1>3, <1>5 DEF S

\* Appending one or two events counts each of them.
LEMMA CountAppend ==
  ASSUME NEW s \in Seq(EventType), NEW d \in EventType, NEW e \in EventType, NEW types
  PROVE  /\ Count(s, types) \in Nat
         /\ Count(One(s, d), types)
            = Count(s, types) + (IF d \in types THEN 1 ELSE 0)
         /\ Count(Two(s, d, e), types)
            = Count(s, types) + (IF d \in types THEN 1 ELSE 0)
                                                 + (IF e \in types THEN 1 ELSE 0)
<1> DEFINE u == One(s, d)  v == Two(s, d, e)
<1>1. /\ u \in Seq(EventType) /\ Len(u) = Len(s) + 1 /\ u[Len(s) + 1] = d
      /\ \A i \in 1 .. Len(s) : u[i] = s[i]
  BY DEF One
<1>2. /\ v \in Seq(EventType) /\ Len(v) = Len(s) + 2
      /\ \A i \in 1 .. Len(s) : v[i] = s[i]
  BY DEF Two
<1>3. v[Len(s) + 1] = d /\ v[Len(s) + 2] = e
  BY DEF Two
<1> HIDE DEF u, v
<1>4. Len(v) = Len(u) + 1 /\ \A i \in 1 .. Len(u) : v[i] = u[i]
  BY <1>1, <1>2, <1>3
<1>5. /\ Count(s, types) \in Nat
      /\ Count(u, types)
         = Count(s, types) + (IF d \in types THEN 1 ELSE 0)
  BY <1>1, CountExtended DEF Count
<1>6. Count(v, types)
      = Count(u, types) + (IF e \in types THEN 1 ELSE 0)
  <2>1. v[Len(v)] = e
    BY <1>2, <1>3
  <2> QED
    BY Zenon, <1>1, <1>2, <1>4, <2>1, CountExtended DEF Count
<1> QED
  BY <1>5, <1>6 DEF u, v

\* The stream s tells of a Run with status st, a claims and c cancellations.
Tells(s, st, a, c) ==
  /\ Count(s, {"run.started"}) = a
  /\ Count(s, {"run.completed"}) = (IF st = "completed" THEN 1 ELSE 0)
  /\ Count(s, {"run.failed"}) = (IF st = "failed" THEN 1 ELSE 0)
  /\ Count(s, {"run.cancelled"}) = (IF st = "cancelled" THEN 1 ELSE 0)
  /\ Count(s, {"checkpoint.saved"}) = Count(s, {"run.completed"})
  /\ Count(s, {"run.cancel_requested"}) = c

\* What each event, appended to the stream of an unfinished Run, tells of it.
LEMMA NextTale ==
  ASSUME NEW s \in Seq(EventType), NEW st \in Status, NEW a \in Nat, NEW c \in Nat,
         Tells(s, st, a, c)
  PROVE  /\ Tells(One(s, "checkpoint.loaded"), st, a, c)
         /\ Tells(One(s, "sandbox.completed"), st, a, c)
         /\ st \notin Terminal =>
              /\ Tells(One(s, "run.queued"), "queued", a, c)
              /\ Tells(One(s, "run.started"), "running", a + 1, c)
              /\ Tells(Two(s, "run.recovered", "run.started"), "running", a + 1, c)
              /\ c = 0 => Tells(One(s, "run.cancel_requested"), st, a, 1)
              /\ Tells(One(s, "run.cancelled"), "cancelled", a, c)
              /\ Tells(One(s, "run.failed"), "failed", a, c)
              /\ Tells(Two(s, "checkpoint.conflict", "run.failed"), "failed", a, c)
              /\ Tells(Two(s, "checkpoint.saved", "run.completed"), "completed", a, c)
<1>1. ASSUME NEW d \in EventType, NEW ts
      PROVE  /\ Count(s, ts) \in Nat
             /\ Count(One(s, d), ts) = Count(s, ts) + (IF d \in ts THEN 1 ELSE 0)
  BY CountAppend
<1>2. ASSUME NEW d \in EventType, NEW e \in EventType, NEW ts
      PROVE  Count(Two(s, d, e), ts) = Count(s, ts) + (IF d \in ts THEN 1 ELSE 0)
                                                    + (IF e \in ts THEN 1 ELSE 0)
  BY CountAppend
<1>3. /\ Tells(One(s, "checkpoint.loaded"), st, a, c)
      /\ Tells(One(s, "sandbox.completed"), st, a, c)
  <2>1. \A ts : "checkpoint.loaded" \notin ts =>
                  Count(One(s, "checkpoint.loaded"), ts) = Count(s, ts)
    BY <1>1 DEF EventType
  <2>2. \A ts : "sandbox.completed" \notin ts =>
                  Count(One(s, "sandbox.completed"), ts) = Count(s, ts)
    BY <1>1 DEF EventType
  <2> QED
    BY <2>1, <2>2 DEF Tells
<1>4. ASSUME st \notin Terminal
      PROVE  /\ Tells(One(s, "run.queued"), "queued", a, c)
             /\ Tells(One(s, "run.started"), "running", a + 1, c)
  <2>1. Tells(One(s, "run.queued"), "queued", a, c)
    <3>1. \A ts : /\ Count(s, ts) \in Nat
                  /\ Count(One(s, "run.queued"), ts)
                     = Count(s, ts) + (IF "run.queued" \in ts THEN 1 ELSE 0)
      BY <1>1 DEF EventType
    <3> QED
      BY <1>4, <3>1 DEF Tells, Terminal
  <2>2. Tells(One(s, "run.started"), "running", a + 1, c)
    <3>1. \A ts : /\ Count(s, ts) \in Nat
                  /\ Count(One(s, "run.started"), ts)
                     = Count(s, ts) + (IF "run.started" \in ts THEN 1 ELSE 0)
      BY <1>1 DEF EventType
    <3> QED
      BY <1>4, <3>1 DEF Tells, Terminal
  <2> QED
    BY Zenon, <2>1, <2>2
<1>5. ASSUME st \notin Terminal
      PROVE  /\ c = 0 => Tells(One(s, "run.cancel_requested"), st, a, 1)
             /\ Tells(One(s, "run.cancelled"), "cancelled", a, c)
             /\ Tells(One(s, "run.failed"), "failed", a, c)
  <2>1. c = 0 => Tells(One(s, "run.cancel_requested"), st, a, 1)
    <3>1. \A ts : /\ Count(s, ts) \in Nat
                  /\ Count(One(s, "run.cancel_requested"), ts)
                     = Count(s, ts) + (IF "run.cancel_requested" \in ts THEN 1 ELSE 0)
      BY <1>1 DEF EventType
    <3> QED
      BY <1>5, <3>1 DEF Tells, Terminal
  <2>2. Tells(One(s, "run.cancelled"), "cancelled", a, c)
    <3>1. \A ts : /\ Count(s, ts) \in Nat
                  /\ Count(One(s, "run.cancelled"), ts)
                     = Count(s, ts) + (IF "run.cancelled" \in ts THEN 1 ELSE 0)
      BY <1>1 DEF EventType
    <3> QED
      BY <1>5, <3>1 DEF Tells, Terminal
  <2>3. Tells(One(s, "run.failed"), "failed", a, c)
    <3>1. \A ts : /\ Count(s, ts) \in Nat
                  /\ Count(One(s, "run.failed"), ts)
                     = Count(s, ts) + (IF "run.failed" \in ts THEN 1 ELSE 0)
      BY <1>1 DEF EventType
    <3> QED
      BY <1>5, <3>1 DEF Tells, Terminal
  <2> QED
    BY Zenon, <2>1, <2>2, <2>3
<1>6. ASSUME st \notin Terminal
      PROVE  Tells(Two(s, "run.recovered", "run.started"), "running", a + 1, c)
  <2>1. "run.recovered" \in EventType /\ "run.started" \in EventType
    BY DEF EventType
  <2>2. \A ts : Count(s, ts) \in Nat
    BY <1>1, <2>1
  <2>3. \A ts : Count(Two(s, "run.recovered", "run.started"), ts)
                = Count(s, ts) + (IF "run.recovered" \in ts THEN 1 ELSE 0)
                               + (IF "run.started" \in ts THEN 1 ELSE 0)
    BY <1>2, <2>1
  <2> QED
    BY <1>6, <2>2, <2>3 DEF Tells, Terminal
<1>7. ASSUME st \notin Terminal
      PROVE  Tells(Two(s, "checkpoint.conflict", "run.failed"), "failed", a, c)
  <2>1. "checkpoint.conflict" \in EventType /\ "run.failed" \in EventType
    BY DEF EventType
  <2>2. \A ts : Count(s, ts) \in Nat
    BY <1>1, <2>1
  <2>3. \A ts : Count(Two(s, "checkpoint.conflict", "run.failed"), ts)
                = Count(s, ts) + (IF "checkpoint.conflict" \in ts THEN 1 ELSE 0)
                               + (IF "run.failed" \in ts THEN 1 ELSE 0)
    BY <1>2, <2>1
  <2> QED
    BY <1>7, <2>2, <2>3 DEF Tells, Terminal
<1>8. ASSUME st \notin Terminal
      PROVE  Tells(Two(s, "checkpoint.saved", "run.completed"), "completed", a, c)
  <2>1. "checkpoint.saved" \in EventType /\ "run.completed" \in EventType
    BY DEF EventType
  <2>2. \A ts : Count(s, ts) \in Nat
    BY <1>1, <2>1
  <2>3. \A ts : Count(Two(s, "checkpoint.saved", "run.completed"), ts)
                = Count(s, ts) + (IF "checkpoint.saved" \in ts THEN 1 ELSE 0)
                               + (IF "run.completed" \in ts THEN 1 ELSE 0)
    BY <1>2, <2>1
  <2> QED
    BY <1>8, <2>2, <2>3 DEF Tells, Terminal
<1> QED
  BY SMTT(30), <1>3, <1>4, <1>5, <1>6, <1>7, <1>8

Cancels(r) == IF cancel_requested[r] THEN 1 ELSE 0
Told(r) == Tells(events[r], status[r], attempt[r], Cancels(r))

\* A step that writes at most the row and the stream of Run r, and appends es.
Appends(r, es) ==
  /\ \A q \in Run \ {r} :
       /\ events'[q] = events[q] /\ status'[q] = status[q]
       /\ attempt'[q] = attempt[q] /\ Cancels(q)' = Cancels(q)
  /\ events'[r] = events[r] \o es

\* Told of every Run is what EventsTellStatus says.
LEMMA ToldIsTold == EventsTellStatus <=> \A r \in Run : Told(r)
BY DEF EventsTellStatus, CountOf, Told, Cancels, Tells, Count, Occurrences

\* Every step of the store keeps the event streams telling the truth.
LEMMA EventsStep ==
  ASSUME TypeOK, \A q \in Run : Told(q), [Next]_vars
  PROVE  \A q \in Run : Told(q)'
<1> USE DEF requestVars, leaseVars
<1>1. ASSUME NEW r \in Run, NEW d, Appends(r, <<d>>),
             Tells(One(events[r], d), status'[r], attempt'[r], Cancels(r)')
      PROVE  \A q \in Run : Told(q)'
  BY Zenon, <1>1 DEF Appends, One, Told
<1>2. ASSUME NEW r \in Run, NEW d, NEW e, Appends(r, <<d, e>>),
             Tells(Two(events[r], d, e), status'[r], attempt'[r], Cancels(r)')
      PROVE  \A q \in Run : Told(q)'
  BY Zenon, <1>2 DEF Appends, Two, Told
<1>3. ASSUME NEW r \in Run PROVE status[r] \in Status /\ Cancels(r) \in {0, 1}
  BY DEF TypeOK, Cancels
<1>4. ASSUME NEW r \in Run, NEW s, NEW code, NEW es, _terminalize(r, s, code, es)
      PROVE  /\ Appends(r, es) /\ status'[r] = s
             /\ attempt'[r] = attempt[r] /\ Cancels(r)' = Cancels(r)
  BY Zenon, <1>4 DEF _terminalize, _append_event, Appends, Cancels, TypeOK
<1>5. ASSUME NEW r \in Run
      PROVE  /\ Tells(One(events[r], "checkpoint.loaded"), status[r], attempt[r],
                      Cancels(r))
             /\ Tells(One(events[r], "sandbox.completed"), status[r], attempt[r],
                      Cancels(r))
  <2>1. /\ events[r] \in Seq(EventType) /\ attempt[r] \in Nat
        /\ Tells(events[r], status[r], attempt[r], Cancels(r))
    BY DEF TypeOK, Told
  <2> QED
    BY Zenon, <1>3, <2>1, NextTale
<1>6. ASSUME NEW r \in Run, status[r] \notin Terminal
      PROVE  /\ Tells(One(events[r], "run.queued"), "queued", attempt[r], Cancels(r))
             /\ Tells(One(events[r], "run.started"), "running", attempt[r] + 1,
                      Cancels(r))
             /\ Tells(Two(events[r], "run.recovered", "run.started"), "running",
                      attempt[r] + 1, Cancels(r))
             /\ Cancels(r) = 0 =>
                  Tells(One(events[r], "run.cancel_requested"), status[r], attempt[r], 1)
             /\ Tells(One(events[r], "run.cancelled"), "cancelled", attempt[r],
                      Cancels(r))
             /\ Tells(One(events[r], "run.failed"), "failed", attempt[r], Cancels(r))
             /\ Tells(Two(events[r], "checkpoint.conflict", "run.failed"), "failed",
                      attempt[r], Cancels(r))
             /\ Tells(Two(events[r], "checkpoint.saved", "run.completed"), "completed",
                      attempt[r], Cancels(r))
  <2>1. /\ events[r] \in Seq(EventType) /\ attempt[r] \in Nat
        /\ Tells(events[r], status[r], attempt[r], Cancels(r))
    BY DEF TypeOK, Told
  <2> QED
    BY Zenon, <1>3, <1>6, <2>1, NextTale
<1>a. ASSUME NEW r \in Run, NEW s, NEW code, NEW d, _terminalize(r, s, code, <<d>>),
             Tells(One(events[r], d), s, attempt[r], Cancels(r))
      PROVE  \A q \in Run : Told(q)'
  <2>1. /\ Appends(r, <<d>>) /\ status'[r] = s
        /\ attempt'[r] = attempt[r] /\ Cancels(r)' = Cancels(r)
    BY Zenon, <1>4, <1>a
  <2> QED
    BY Zenon, <1>1, <1>a, <2>1
<1>b. ASSUME NEW r \in Run, NEW s, NEW code, NEW d, NEW e, _terminalize(r, s, code, <<d, e>>),
             Tells(Two(events[r], d, e), s, attempt[r], Cancels(r))
      PROVE  \A q \in Run : Told(q)'
  <2>1. /\ Appends(r, <<d, e>>) /\ status'[r] = s
        /\ attempt'[r] = attempt[r] /\ Cancels(r)' = Cancels(r)
    BY Zenon, <1>4, <1>b
  <2> QED
    BY Zenon, <1>2, <1>b, <2>1
<1>7. CASE UNCHANGED vars \/ AdvanceClock
  BY <1>7 DEF vars, AdvanceClock, Told, Cancels
<1>8. ASSUME NEW r \in Run, create_run_with_event(r) PROVE \A q \in Run : Told(q)'
  <2>1. /\ Appends(r, <<"run.queued">>) /\ status'[r] = "queued" /\ status[r] \notin Terminal
        /\ attempt'[r] = attempt[r] /\ Cancels(r)' = Cancels(r)
    BY Zenon, <1>8 DEF create_run_with_event, _insert_run, _append_event, Appends, Cancels,
                TypeOK, Terminal
  <2> QED
    BY Zenon, <1>1, <1>6, <2>1
<1>9. ASSUME NEW r \in Run, claim_next_run(r) PROVE \A q \in Run : Told(q)'
  <2>1. status[r] \notin Terminal
    BY <1>9 DEF claim_next_run, Candidate, FreshCandidate, ExpiredCandidate, Terminal
  <2>2. /\ Appends(r, IF status[r] = "running" THEN <<"run.recovered", "run.started">>
                                              ELSE <<"run.started">>)
        /\ status'[r] = "running"
        /\ attempt'[r] = attempt[r] + 1 /\ Cancels(r)' = Cancels(r)
    BY Zenon, <1>9 DEF claim_next_run, Lease, _append_event, Appends, Cancels, TypeOK
  <2>3. CASE status[r] = "running"
    BY Zenon, <1>2, <1>6, <2>1, <2>2, <2>3
  <2>4. CASE status[r] # "running"
    BY Zenon, <1>1, <1>6, <2>1, <2>2, <2>4
  <2> QED
    BY <2>3, <2>4
<1>10. ASSUME NEW r \in Run, request_cancel_atomically(r) PROVE \A q \in Run : Told(q)'
  <2>1. /\ Appends(r, <<"run.cancel_requested">>) /\ status'[r] = status[r]
        /\ status[r] \notin Terminal /\ Cancels(r) = 0
        /\ attempt'[r] = attempt[r] /\ Cancels(r)' = 1
    BY Zenon, <1>10 DEF request_cancel_atomically, _append_event, Appends, Cancels, TypeOK,
                 Nonterminal, Terminal
  <2> QED
    BY Zenon, <1>1, <1>6, <2>1
<1>11. ASSUME NEW r \in Run, append_control_plane_event(r) PROVE \A q \in Run : Told(q)'
  <2>1. /\ Appends(r, <<"sandbox.completed">>) /\ status'[r] = status[r]
        /\ attempt'[r] = attempt[r] /\ Cancels(r)' = Cancels(r)
    BY Zenon, <1>11 DEF append_control_plane_event, _append_event, Appends, Cancels, TypeOK
  <2> QED
    BY Zenon, <1>1, <1>5, <2>1
<1>12. ASSUME NEW r \in Run, finalize_next_queued_cancellation(r)
       PROVE  \A q \in Run : Told(q)'
  <2>1. status[r] \notin Terminal /\ _terminalize(r, "cancelled", "none", <<"run.cancelled">>)
    BY <1>12 DEF finalize_next_queued_cancellation, QueuedCancellation, Terminal
  <2> QED
    BY Zenon, <1>a, <1>6, <2>1
<1>13. ASSUME NEW r \in Run, NEW t \in Tokens(r), AttemptStep(r, t)
       PROVE  \A q \in Run : Told(q)'
  <2>1. CASE \/ renew_run_lease(r, t) \/ expire_run_lease(r, t)
             \/ commit_reconciliation_pending(r, t)
    BY Zenon, <2>1 DEF renew_run_lease, expire_run_lease, commit_reconciliation_pending,
                Told, Cancels
  <2>2. CASE append_attempt_event(r, t)
    <3>1. /\ Appends(r, <<"checkpoint.loaded">>) /\ status'[r] = status[r]
          /\ attempt'[r] = attempt[r] /\ Cancels(r)' = Cancels(r)
      BY Zenon, <2>2 DEF append_attempt_event, _append_event, Appends, Cancels, TypeOK
    <3> QED
      BY Zenon, <1>1, <1>5, <3>1
  <2>3. CASE commit_cancelled_run(r, t)
    <3>1. status[r] \notin Terminal /\ _terminalize(r, "cancelled", "none", <<"run.cancelled">>)
      BY <2>3 DEF commit_cancelled_run, Nonterminal, Terminal
    <3> QED
      BY Zenon, <1>a, <1>6, <3>1
  <2>4. CASE \/ commit_failed_run(r, t, EXECUTION, FALSE)
             \/ commit_failed_run(r, t, SAFETY, TRUE)
    <3>1. /\ status[r] \notin Terminal
          /\ \E code \in {EXECUTION, SAFETY} : _terminalize(r, "failed", code, <<"run.failed">>)
      BY <2>4 DEF commit_failed_run, Terminal
    <3> QED
      BY Zenon, <1>a, <1>6, <3>1
  <2>5. CASE _fail_checkpoint_conflict(r, t)
    <3>1. /\ status[r] \notin Terminal
          /\ _terminalize(r, "failed", CONFLICT, <<"checkpoint.conflict", "run.failed">>)
      BY <2>5 DEF _fail_checkpoint_conflict, Terminal
    <3> QED
      BY Zenon, <1>b, <1>6, <3>1
  <2>6. CASE SaveCheckpoint(r, t)
    <3>1. /\ status[r] \notin Terminal
          /\ _terminalize(r, "completed", "none", <<"checkpoint.saved", "run.completed">>)
      BY Zenon, <2>6 DEF SaveCheckpoint, Terminal
    <3> QED
      BY Zenon, <1>b, <1>6, <3>1
  <2> QED
    BY Zenon, <1>13, <2>1, <2>2, <2>3, <2>4, <2>5, <2>6
    DEF AttemptStep, commit_checkpoint_conflict, commit_completed_run, RejectStaleResult
<1> QED
  BY SMTT(30), <1>7, <1>8, <1>9, <1>10, <1>11, <1>12, <1>13 DEF Next

\* A Run that does not exist yet has no events.
LEMMA EventsInit == Init => EventsTellStatus
<1> SUFFICES ASSUME Init, NEW r \in Run PROVE Told(r)
  BY ToldIsTold
<1>1. /\ events[r] = <<>> /\ status[r] = "absent" /\ attempt[r] = 0
      /\ cancel_requested[r] = FALSE
  BY DEF Init
<1>2. \A ts : Count(<<>>, ts) = 0
  <2>1. \A ts : Occurrences(<<>>, ts) = {}
    BY DEF Occurrences
  <2> QED
    BY <2>1, FS_EmptySet DEF Count
<1> QED
  BY Zenon, <1>1, <1>2 DEF Told, Tells, Cancels

\* In every reachable state of every instance the event stream of a Run tells
\* its claims, its cancellation and its outcome, each exactly once.
THEOREM EventsAreTrue == Spec => []EventsTellStatus
<1>1. TypeOK /\ EventsTellStatus /\ [Next]_vars => EventsTellStatus'
  <2> SUFFICES ASSUME TypeOK, EventsTellStatus, [Next]_vars PROVE EventsTellStatus'
    OBVIOUS
  <2>1. \A q \in Run : Told(q)'
    BY ToldIsTold, EventsStep
  <2> QED
    BY Zenon, <2>1 DEF EventsTellStatus, CountOf, Told, Cancels, Tells, Count, Occurrences
<1> QED
  BY <1>1, EventsInit, TypeCorrect, PTL DEF Spec
=============================================================================
