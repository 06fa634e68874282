--------------------------- MODULE ThreadHistory ---------------------------
(***************************************************************************)
(* What the Run store promises about conversation threads, without leases, *)
(* clocks, revisions or workers: each thread executes one Run at a time,   *)
(* and the Runs whose results are kept form one growing log per thread.    *)
(***************************************************************************)
EXTENDS Sequences

CONSTANTS Run, Thread

VARIABLES
  lane,   \* the thread of a Run
  phase,  \* how far a Run has come
  log     \* per thread, the Runs whose results were saved, oldest first

vars == <<lane, phase, log>>

Submit(r) ==
  /\ phase[r] = "absent"
  /\ phase' = [phase EXCEPT ![r] = "waiting"]
  /\ UNCHANGED <<lane, log>>

\* A Run becomes the owner of a thread that has no owner.
Start(r) ==
  /\ phase[r] = "waiting"
  /\ \A q \in Run : lane[q] = lane[r] => phase[q] # "active"
  /\ phase' = [phase EXCEPT ![r] = "active"]
  /\ UNCHANGED <<lane, log>>

\* The owner's result becomes the thread's newest state.
Save(r) ==
  /\ phase[r] = "active"
  /\ phase' = [phase EXCEPT ![r] = "saved"]
  /\ log' = [log EXCEPT ![lane[r]] = Append(@, r)]
  /\ UNCHANGED lane

\* A Run ends without leaving a trace in the thread's state.
Drop(r) ==
  /\ phase[r] \in {"waiting", "active"}
  /\ phase' = [phase EXCEPT ![r] = "dropped"]
  /\ UNCHANGED <<lane, log>>

Init ==
  /\ lane \in [Run -> Thread]
  /\ phase = [r \in Run |-> "absent"]
  /\ log = [th \in Thread |-> <<>>]

Next == \E r \in Run : Submit(r) \/ Start(r) \/ Save(r) \/ Drop(r)

Spec == Init /\ [][Next]_vars
=============================================================================
