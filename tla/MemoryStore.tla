---------------------------- MODULE MemoryStore ----------------------------
(***************************************************************************)
(* Governed memory (SQLiteMemoryStore): versioned records of one subject,  *)
(* the audit events of their mutations and the sealed snapshot of each     *)
(* Run.  A Key stands for (tenant, subject, domain, kind, key); the n-th   *)
(* record of a key is its version n.  Records do not expire here.          *)
(***************************************************************************)
EXTENDS RunStore, SequencesExt

CONSTANTS
  Key,    \* logical memory keys of the subject
  Value   \* canonical JSON values

Elsewhere == 0  \* the source of a mutation that no Run of the model made

ASSUME MemoryAssumption == Elsewhere \notin Run /\ {"none", "redacted"} \cap Value = {}

VARIABLES
  memory,         \* memory_records of a key, by version
  memory_events,  \* the audit events; the n-th has audit event id n
  snapshot        \* memory_run_snapshots of a Run

memoryVars == <<memory, memory_events, snapshot>>

NoSnapshot == [sealed |-> FALSE, memories |-> [x \in Key |-> "none"]]

MemoryInit ==
  /\ memory = [x \in Key |-> <<>>]
  /\ memory_events = <<>>
  /\ snapshot = [r \in Run |-> NoSnapshot]

\* The versions of a key in one status.
Versions(x, s) == {n \in DOMAIN memory[x] : memory[x][n].status = s}

ActiveValue(x) ==
  IF Versions(x, "active") = {} THEN "none"
  ELSE memory[x][CHOOSE n \in Versions(x, "active") : TRUE].value

Audit(type, x, source) == [type |-> type, key |-> x, source |-> source]

\* Repeating the active value is idempotent.
Unchanged(x, v) == ActiveValue(x) = v

\* Mutant: the active version is left active.
_upsert_beside(x, v, source) ==
  /\ memory' = [memory EXCEPT ![x] =
                  Append(@, [value |-> v, status |-> "active", source |-> source])]
  /\ memory_events' = Append(memory_events, Audit("memory.created", x, source))
  /\ UNCHANGED <<vars, snapshot>>

\* The active version is superseded, the new one becomes active.
_upsert(x, v, source) ==
  /\ IF Unchanged(x, v) THEN UNCHANGED <<memory, memory_events>>
     ELSE /\ memory' = [memory EXCEPT ![x] =
                Append([n \in DOMAIN @ |->
                          IF @[n].status = "active"
                          THEN [@[n] EXCEPT !.status = "superseded"] ELSE @[n]],
                       [value |-> v, status |-> "active", source |-> source])]
          /\ memory_events' = memory_events
               \o (IF Versions(x, "active") = {} THEN <<>>
                   ELSE <<Audit("memory.superseded", x, source)>>)
               \o <<Audit("memory.created", x, source)>>
  /\ UNCHANGED <<vars, snapshot>>

upsert_from_run(r, t, x, v) == assert_current_run_lease(r, t) /\ _upsert(x, v, r)

\* Every version of the key is tombstoned and its value redacted.
forget_memory(x) ==
  /\ Versions(x, "active") \cup Versions(x, "superseded") # {}
  /\ memory' = [memory EXCEPT ![x] =
                  [n \in DOMAIN @ |->
                     [@[n] EXCEPT !.status = "deleted", !.value = "redacted"]]]
  /\ memory_events' = Append(memory_events, Audit("memory.deleted", x, Elsewhere))
  /\ UNCHANGED <<vars, snapshot>>

\* The first snapshot of a Run is kept, an empty one too.
get_or_create_run_snapshot(r, t) ==
  /\ assert_current_run_lease(r, t)
  /\ snapshot' = IF snapshot[r].sealed THEN snapshot
                 ELSE [snapshot EXCEPT ![r] =
                         [sealed |-> TRUE, memories |-> [x \in Key |-> ActiveValue(x)]]]
  /\ UNCHANGED <<vars, memory, memory_events>>

\* list_events_for_run: the audit event ids of the mutations a Run made.
EventsForRun(r) == {n \in DOMAIN memory_events : memory_events[n].source = r}

-----------------------------------------------------------------------------
(* Properties. *)

\* Concurrent Runs, foreign writers and deletions leave one line of versions:
\* only the newest may be active, a value survives only in records that were
\* not deleted, and every version has its creation audited.  However many
\* attempts of a Run repeat its writes, they create one version as long as
\* nobody else touches the key.
VersionsAreLinear ==
  \A x \in Key :
    /\ Versions(x, "active") \subseteq {Len(memory[x])}
    /\ \A n \in DOMAIN memory[x] :
         memory[x][n].status = "deleted" <=> memory[x][n].value = "redacted"
    /\ Len(memory[x]) = Cardinality({n \in DOMAIN memory_events :
                            memory_events[n].key = x /\ memory_events[n].type = "memory.created"})
    /\ EventsForRun(Elsewhere) = {} => \A r \in Run :
         Cardinality({n \in DOMAIN memory[x] : memory[x][n].source = r}) <= 1

\* A memory its subject deleted is not brought back by the Run that wrote it.
DeletedNotResurrected ==
  \A x \in Key, r \in Run : \A n \in Versions(x, "active"), m \in Versions(x, "deleted") :
    ~(memory[x][n].source = r /\ memory[x][m].source = r)
=============================================================================
