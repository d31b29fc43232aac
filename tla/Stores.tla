------------------------------- MODULE Stores -------------------------------
(***************************************************************************)
(* storage/memory.py, sqlite.py, redis.py and postgres.py.  The methods of *)
(* the memory and the SQLite store never await: each is one action.  Those *)
(* of the PostgreSQL store are one statement of the server each.  Those of *)
(* the Redis store are several commands, and other coroutines run between  *)
(* them.  A call that fails before its first effect changes nothing and is *)
(* no action; a Redis call may be cancelled, or fail, between commands.    *)
(***************************************************************************)
EXTENDS Naturals

CONSTANTS
  Clients,      \* coroutines that use the store
  Workflows, Tasks,
  Versions,     \* what a workflow's name, metadata and tasks may be
  Statuses,     \* the values of WorkflowStatus that are told apart
  Outcomes,     \* what a task may have ended with, of AnyOutcome
  Backends,     \* the stores to look at
  TakesTurns    \* the stores whose clients do not use update_status while
                \* another saves the same workflow

\* A task failed, or its output is text, another JSON value, or none.
AnyOutcome == {"failed", "text", "json", "opaque"}

ASSUME StoresAssumption ==
  /\ Backends \subseteq {"memory", "sqlite", "redis", "postgres"}
  /\ Outcomes \subseteq AnyOutcome
  /\ 0 \notin Versions

VARIABLES
  backend,      \* the store in use
  rows,         \* the workflows as the process sees them
  results,      \* [Workflows -> [Tasks -> outcomes]], "none" where there is none
  listed,       \* Redis's sorted set workflows:list
  disk,         \* what a restarted process finds
  inTransaction,\* SQLite's connection holds a transaction open
  commands,     \* Redis calls in progress, by the command they send next
  torn          \* ghost: workflows a Redis save stored and did not list

vars == <<backend, rows, results, listed, disk, inTransaction, commands, torn>>

\* original: created_at is the time the workflow was created at.
Rows == [version : Versions, status : Statuses, original : BOOLEAN]
NoRow == [version |-> 0, status |-> "absent", original |-> TRUE]
Entries == Outcomes \cup {"none", "text"}
NoResults == [t \in Tasks |-> "none"]
Commands == [client : Clients, next : {"save", "update", "zadd"},
             w : Workflows, row : Rows]
RowMaps == [Workflows -> Rows \cup {NoRow}]
ResultMaps == [Workflows -> [Tasks -> Entries]]
Stored == {w \in Workflows : rows[w] # NoRow}

Init ==
  /\ backend \in Backends
  /\ rows = [w \in Workflows |-> NoRow]
  /\ results = [w \in Workflows |-> NoResults]
  /\ listed = {}
  /\ disk = [rows |-> rows, results |-> results]
  /\ inTransaction = FALSE
  /\ commands = {} /\ torn = {}

\* What happens is on disk once the operation returns, except in memory.
Persist ==
  disk' = IF backend = "memory" THEN disk ELSE [rows |-> rows', results |-> results']

Commit == Persist /\ inTransaction' = FALSE

-----------------------------------------------------------------------------
(* What is read back *)

\* get gives the stored workflow; those of Redis and PostgreSQL are built
\* without created_at, which becomes the present time.
RedisGet(w) == [rows[w] EXCEPT !.original = FALSE]
PostgresGet(w) == [rows[w] EXCEPT !.original = FALSE]
Get(w) == IF backend = "redis" THEN RedisGet(w)
          ELSE IF backend = "postgres" THEN PostgresGet(w)
          ELSE rows[w]

\* A caller saves a workflow it has made or has got from the store.
Saveable(w) == {r \in Rows : r.original \/ (w \in Stored /\ ~Get(w).original)}

\* The workflows that list_all finds: Redis asks for the members of its list
\* one by one and leaves out those it cannot get.
RedisListAll == listed \cap Stored
ListAll == IF backend = "redis" THEN RedisListAll ELSE Stored

\* Redis and PostgreSQL store str(output).
Encoded(o) == IF backend \in {"redis", "postgres"} /\ o \in {"json", "opaque"}
              THEN "text" ELSE o

\* The results dictionary R, in the form the store keeps it in.
Serialized(R) == [t \in Tasks |-> Encoded(R[t])]

Given == [Tasks -> Outcomes \cup {"none"}]
Overlaid(old, R) == [t \in Tasks |-> IF R[t] = "none" THEN old[t] ELSE R[t]]

-----------------------------------------------------------------------------
(* InMemoryWorkflowStore *)

MemorySave(w, r) ==
  /\ backend = "memory"
  /\ rows' = [rows EXCEPT ![w] = r]
  /\ UNCHANGED <<backend, results, listed, disk, inTransaction, commands, torn>>

MemoryUpdateStatus(w, s) ==
  /\ backend = "memory"
  /\ w \in Stored
  /\ rows' = [rows EXCEPT ![w].status = s]
  /\ UNCHANGED <<backend, results, listed, disk, inTransaction, commands, torn>>

MemorySaveResults(w, R) ==
  /\ backend = "memory"
  /\ results' = [results EXCEPT ![w] = Serialized(R)]
  /\ UNCHANGED <<backend, rows, listed, disk, inTransaction, commands, torn>>

MemoryDelete(w) ==
  /\ backend = "memory"
  /\ rows' = [rows EXCEPT ![w] = NoRow]
  /\ results' = [results EXCEPT ![w] = NoResults]
  /\ UNCHANGED <<backend, listed, disk, inTransaction, commands, torn>>

-----------------------------------------------------------------------------
(* SQLiteWorkflowStore: one connection, which sees what it has not yet     *)
(* committed; every commit commits all of it.                              *)

\* INSERT OR REPLACE deletes the row first, and the results cascade.
SqliteSave(w, r) ==
  /\ backend = "sqlite"
  /\ rows' = [rows EXCEPT ![w] = r]
  /\ results' = [results EXCEPT ![w] = NoResults]
  /\ Commit
  /\ UNCHANGED <<backend, listed, commands, torn>>

SqliteUpdateStatus(w, s) ==
  /\ backend = "sqlite"
  /\ rows' = IF w \in Stored THEN [rows EXCEPT ![w].status = s] ELSE rows
  /\ UNCHANGED results
  /\ Commit
  /\ UNCHANGED <<backend, listed, commands, torn>>

\* Results are rows of their own: those R does not name stay.  json.dumps
\* raises for what is not JSON.
SqliteSaveResults(w, R) ==
  /\ backend = "sqlite"
  /\ \A t \in Tasks : R[t] # "opaque"
  /\ w \in Stored \/ R = NoResults
  /\ results' = [results EXCEPT ![w] = Overlaid(results[w], R)]
  /\ UNCHANGED rows
  /\ Commit
  /\ UNCHANGED <<backend, listed, commands, torn>>

\* The call raises at a result that is not JSON, or at once if the workflow
\* is not stored (FOREIGN KEY); the rows inserted before stay uncommitted.
SqliteSaveResultsRaises(w, R, before) ==
  /\ backend = "sqlite"
  /\ \/ w \notin Stored /\ R # NoResults /\ before = {}
     \/ w \in Stored /\ \E t \in Tasks \ before : R[t] = "opaque"
  /\ \A t \in before : R[t] # "opaque"
  /\ results' = [results EXCEPT ![w] =
                   [t \in Tasks |-> IF t \in before /\ R[t] # "none" THEN R[t] ELSE @[t]]]
  /\ inTransaction' = TRUE
  /\ UNCHANGED <<backend, rows, listed, disk, commands, torn>>

\* Mutation: the results are in a table without the foreign key.
SqliteDelete_NoCascade(w) ==
  /\ backend = "sqlite"
  /\ rows' = [rows EXCEPT ![w] = NoRow]
  /\ UNCHANGED results
  /\ Commit
  /\ UNCHANGED <<backend, listed, commands, torn>>

SqliteDelete(w) ==
  /\ backend = "sqlite"
  /\ rows' = [rows EXCEPT ![w] = NoRow]
  /\ results' = [results EXCEPT ![w] = NoResults]
  /\ Commit
  /\ UNCHANGED <<backend, listed, commands, torn>>

-----------------------------------------------------------------------------
(* PostgresWorkflowStore *)

\* Mutation: created_at = EXCLUDED.created_at in the upsert.
PostgresSave_SetsCreated(w, r) ==
  /\ backend = "postgres"
  /\ rows' = [rows EXCEPT ![w] = r]
  /\ UNCHANGED results
  /\ Persist
  /\ UNCHANGED <<backend, listed, inTransaction, commands, torn>>

\* The upsert leaves created_at alone.
PostgresSave(w, r) ==
  /\ backend = "postgres"
  /\ rows' = [rows EXCEPT ![w] = [r EXCEPT !.original =
                IF w \in Stored THEN rows[w].original ELSE r.original]]
  /\ UNCHANGED results
  /\ Persist
  /\ UNCHANGED <<backend, listed, inTransaction, commands, torn>>

PostgresUpdateStatus(w, s) ==
  /\ backend = "postgres"
  /\ w \in Stored
  /\ rows' = [rows EXCEPT ![w].status = s]
  /\ UNCHANGED results
  /\ Persist
  /\ UNCHANGED <<backend, listed, inTransaction, commands, torn>>

\* results REFERENCES workflows(id): an unknown workflow raises.
PostgresSaveResults(w, R) ==
  /\ backend = "postgres"
  /\ w \in Stored
  /\ results' = [results EXCEPT ![w] = Serialized(R)]
  /\ UNCHANGED rows
  /\ Persist
  /\ UNCHANGED <<backend, listed, inTransaction, commands, torn>>

-----------------------------------------------------------------------------
(* RedisWorkflowStore *)

Free(c) == \A p \in commands : p.client # c
Turn(w) == backend \in TakesTurns => \A p \in commands : p.w # w

RedisSave(c, w, r) ==
  /\ backend = "redis" /\ Free(c) /\ Turn(w)
  /\ commands' = commands \cup {[client |-> c, next |-> "save", w |-> w, row |-> r]}
  /\ UNCHANGED <<backend, rows, results, listed, disk, inTransaction, torn>>

\* Mutation: a status update writes a workflow it has not read.
RedisUpdateStatus_NotRead(c, w, s) ==
  /\ backend = "redis" /\ Free(c) /\ Turn(w)
  /\ commands' = commands \cup {[client |-> c, next |-> "update", w |-> w,
         row |-> [version |-> CHOOSE v \in Versions : TRUE, status |-> s, original |-> FALSE]]}
  /\ UNCHANGED <<backend, rows, results, listed, disk, inTransaction, torn>>

\* update_status reads the workflow and saves what it has read.
RedisUpdateStatus(c, w, s) ==
  /\ backend = "redis" /\ Free(c) /\ Turn(w)
  /\ w \in Stored
  /\ commands' = commands \cup {[client |-> c, next |-> "update", w |-> w,
                                 row |-> [Get(w) EXCEPT !.status = s]]}
  /\ UNCHANGED <<backend, rows, results, listed, disk, inTransaction, torn>>

\* SET workflow:<id>.
RedisSet(p) ==
  /\ p.next # "zadd"
  /\ rows' = [rows EXCEPT ![p.w] = p.row]
  /\ commands' = (commands \ {p}) \cup {[p EXCEPT !.next = "zadd"]}
  /\ UNCHANGED results
  /\ Persist
  /\ UNCHANGED <<backend, listed, inTransaction, torn>>

\* ZADD workflows:list.
RedisZadd(p) ==
  /\ p.next = "zadd"
  /\ listed' = listed \cup {p.w}
  /\ torn' = torn \ {p.w}
  /\ commands' = commands \ {p}
  /\ UNCHANGED <<backend, rows, results, disk, inTransaction>>

\* The call is cancelled, or its connection fails, before the command.
RedisInterrupted(p) ==
  /\ commands' = commands \ {p}
  /\ torn' = IF p.next = "zadd" THEN torn \cup {p.w} ELSE torn
  /\ UNCHANGED <<backend, rows, results, listed, disk, inTransaction>>

RedisSaveResults(c, w, R) ==
  /\ backend = "redis" /\ Free(c)
  /\ results' = [results EXCEPT ![w] = Serialized(R)]
  /\ UNCHANGED rows
  /\ Persist
  /\ UNCHANGED <<backend, listed, inTransaction, commands, torn>>

-----------------------------------------------------------------------------
\* The process ends, or closes its store, and another one opens it.
Restart ==
  /\ rows' = disk.rows /\ results' = disk.results
  /\ inTransaction' = FALSE
  /\ commands' = {}
  /\ torn' = torn \cup {p.w : p \in {q \in commands : q.next = "zadd"}}
  /\ UNCHANGED <<backend, listed, disk>>

SaveNext(w) ==
  \E r \in Saveable(w) : \/ MemorySave(w, r) \/ SqliteSave(w, r) \/ PostgresSave(w, r)
                         \/ \E c \in Clients : RedisSave(c, w, r)

UpdateNext(w) ==
  \E s \in Statuses : \/ MemoryUpdateStatus(w, s) \/ SqliteUpdateStatus(w, s)
                      \/ PostgresUpdateStatus(w, s)
                      \/ \E c \in Clients : RedisUpdateStatus(c, w, s)

ResultsNext(w) ==
  \E R \in Given :
    \/ MemorySaveResults(w, R) \/ SqliteSaveResults(w, R) \/ PostgresSaveResults(w, R)
    \/ \E before \in SUBSET Tasks : SqliteSaveResultsRaises(w, R, before)
    \/ \E c \in Clients : RedisSaveResults(c, w, R)

Next ==
  \/ \E w \in Workflows :
       SaveNext(w) \/ UpdateNext(w) \/ ResultsNext(w) \/ MemoryDelete(w) \/ SqliteDelete(w)
  \/ \E p \in commands : RedisSet(p) \/ RedisZadd(p) \/ RedisInterrupted(p)
  \/ Restart

Spec == Init /\ [][Next]_vars

-----------------------------------------------------------------------------
(* Properties *)

TypeOK ==
  /\ backend \in Backends
  /\ rows \in RowMaps /\ results \in ResultMaps
  /\ disk \in [rows : RowMaps, results : ResultMaps]
  /\ inTransaction \in BOOLEAN
  /\ listed \subseteq Workflows /\ torn \subseteq Workflows
  /\ commands \subseteq Commands

\* Everything but an open SQLite transaction, and nothing of a store in
\* memory, survives the process.
Durability ==
  /\ backend = "memory" => disk.rows = [w \in Workflows |-> NoRow]
                           /\ disk.results = [w \in Workflows |-> NoResults]
  /\ backend # "memory" => disk.rows = rows
  /\ backend # "memory" /\ ~inTransaction => disk.results = results

\* list_all never names a workflow that is not stored, and leaves none out
\* except between the two commands of a Redis save, or after one was cut off
\* there.
ListingFollowsRows ==
  /\ backend = "redis" => listed \subseteq Stored
  /\ Stored \ ListAll \subseteq torn \cup {p.w : p \in {q \in commands : q.next = "zadd"}}

\* The workflow an update_status writes back is the one that is stored.
UpdatesAreFresh ==
  \A p \in commands :
    /\ backend = "redis"
    /\ p.next = "update" /\ backend \in TakesTurns =>
         p.w \in Stored /\ rows[p.w].version = p.row.version
    /\ p.next = "zadd" => p.w \in Stored
    /\ backend \in TakesTurns => \A q \in commands : q.w = p.w => q = p

\* SQLite and PostgreSQL hold no results of a workflow they do not hold.
ResultsHaveWorkflow ==
  backend \in {"sqlite", "postgres"} =>
    \A w \in Workflows \ Stored : results[w] = NoResults

\* What holds between the parts of a store at every moment: it is never left
\* with a listing, results or a disk that belong to other workflows than the
\* ones it returns (storage/*.py).
StoreInv ==
  TypeOK /\ Durability /\ ListingFollowsRows /\ UpdatesAreFresh /\ ResultsHaveWorkflow

\* The time of creation, by which list_all orders, outlives status updates
\* and saves of reread workflows, though get does not return it everywhere
\* (sqlite.py:115-120, postgres.py:141-145).  Redis's update_status loses it.
CreationTimeKept ==
  backend # "redis" => \A w \in Stored : rows[w].original

Definition(r) == [version |-> r.version, status |-> r.status]
Verdict(o) == IF o \in {"none", "failed"} THEN o ELSE "succeeded"
Plain(rr) == [w \in Workflows |-> Definition(rr[w])]
\* The calls that have not reached their SET.
CallOf(p) == [client |-> p.client, kind |-> p.next, w |-> p.w,
              value |-> IF p.next = "save" THEN Definition(p.row) ELSE p.row.status]
Pending == {p \in commands : p.next # "zadd"}
Verdicts(res) == [w \in Workflows |-> [t \in Tasks |-> Verdict(res[w][t])]]

\* All four stores implement the WorkflowStore of storage/base.py, calls in
\* several commands, failing calls and restarts included; Redis as long as a
\* status update does not overlap a save of the same workflow.
Store == INSTANCE WorkflowStore WITH
  rows <- Plain(rows), results <- Verdicts(results),
  kept <- [rows |-> Plain(disk.rows), results |-> Verdicts(disk.results)],
  durable <- backend # "memory", calls <- {CallOf(p) : p \in Pending}
ImplementsStore == Store!StoreSpec
=============================================================================
