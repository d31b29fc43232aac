--------------------------- MODULE WorkflowStore ---------------------------
(***************************************************************************)
(* What storage/base.py's WorkflowStore promises its callers, and what     *)
(* Stores shows its four implementations to keep: an operation takes       *)
(* effect at one moment between its call and its return, and update_status *)
(* touches nothing but the status.  A durable store has on disk whatever a *)
(* completed operation saw.  Two liberties are real: saving a workflow     *)
(* again may drop its results, and a save_results that fails may leave     *)
(* some of them behind, to become durable with the next operation.         *)
(***************************************************************************)
EXTENDS Naturals

CONSTANTS Clients, Workflows, Tasks, Versions, Statuses

VARIABLES
  rows,         \* [Workflows -> the stored definition and status]
  results,      \* [Workflows -> [Tasks -> Verdicts]]
  kept,         \* what a restart finds
  durable,      \* whether a restart finds anything: chosen once
  calls         \* save and update_status calls that have not taken effect

store == <<rows, results, kept, durable, calls>>

Verdicts == {"none", "failed", "succeeded"}
Absent == [version |-> 0, status |-> "absent"]
Definitions == [version : Versions, status : Statuses]
NoVerdicts == [t \in Tasks |-> "none"]

\* value is what the call is to store.
Calls == [client : Clients, kind : {"save"}, w : Workflows, value : Definitions]
         \cup [client : Clients, kind : {"update"}, w : Workflows, value : Statuses]

StoreInit ==
  /\ rows = [w \in Workflows |-> Absent]
  /\ results = [w \in Workflows |-> NoVerdicts]
  /\ kept = [rows |-> rows, results |-> results]
  /\ durable \in BOOLEAN
  /\ calls = {}

\* The operation has its effect: what it saw and did is on disk.
Settle ==
  /\ kept' = IF durable THEN [rows |-> rows', results |-> results'] ELSE kept
  /\ UNCHANGED durable

Save(w, d) ==
  /\ rows' = [rows EXCEPT ![w] = d]
  /\ results' \in {results, [results EXCEPT ![w] = NoVerdicts]}
  /\ Settle

UpdateStatus(w, s) ==
  /\ rows[w] # Absent
  /\ rows' = [rows EXCEPT ![w] = [version |-> rows[w].version, status |-> s]]
  /\ UNCHANGED results
  /\ Settle

\* R[t] = "none" where R has no result for t.
Overlaid(old, R) == [t \in Tasks |-> IF R[t] = "none" THEN old[t] ELSE R[t]]

SaveResults(w, R) ==
  /\ results' \in {[results EXCEPT ![w] = R],
                   [results EXCEPT ![w] = Overlaid(results[w], R)]}
  /\ UNCHANGED rows
  /\ Settle

SaveResultsFails(w, R) ==
  /\ results' = [results EXCEPT ![w] = Overlaid(results[w], R)]
  /\ UNCHANGED <<rows, kept, durable>>

Delete(w) ==
  /\ rows' = [rows EXCEPT ![w] = Absent]
  /\ results' = [results EXCEPT ![w] = NoVerdicts]
  /\ Settle

\* An operation that changes nothing still commits what others left.
Touch == UNCHANGED <<rows, results>> /\ Settle

\* Call, effect and return in one step.
AtOnce ==
  /\ \/ \E w \in Workflows :
          \/ \E d \in Definitions : Save(w, d)
          \/ \E s \in Statuses : UpdateStatus(w, s)
          \/ \E R \in [Tasks -> Verdicts] : SaveResults(w, R) \/ SaveResultsFails(w, R)
          \/ Delete(w)
     \/ Touch
  /\ UNCHANGED calls

Call(k) ==
  /\ calls' = calls \cup {k}
  /\ UNCHANGED <<rows, results, kept, durable>>

TakeEffect(k) ==
  /\ calls' = calls \ {k}
  /\ IF k.kind = "save" THEN Save(k.w, k.value) ELSE UpdateStatus(k.w, k.value)

Fail(k) ==
  /\ calls' = calls \ {k}
  /\ UNCHANGED <<rows, results, kept, durable>>

Restart ==
  /\ rows' = kept.rows /\ results' = kept.results
  /\ calls' = {}
  /\ UNCHANGED <<kept, durable>>

StoreNext ==
  \/ AtOnce
  \/ \E k \in Calls : Call(k)
  \/ \E k \in calls : TakeEffect(k) \/ Fail(k)
  \/ Restart

StoreSpec == StoreInit /\ [][StoreNext]_store
=============================================================================
