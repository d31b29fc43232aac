---------------------------- MODULE StoresProofs ----------------------------
(***************************************************************************)
(* Theorems about Stores, for any clients, workflows, tasks and outcomes.  *)
(***************************************************************************)
EXTENDS Stores, TLAPS

\* The results dictionary, as a store keeps it and laid over another one, is
\* a results dictionary.
LEMMA ResultsType ==
  ASSUME NEW R \in Given, NEW old \in [Tasks -> Entries]
  PROVE  /\ Serialized(R) \in [Tasks -> Entries]
         /\ Overlaid(old, R) \in [Tasks -> Entries]
         /\ NoResults \in [Tasks -> Entries]
<1>1. \A t \in Tasks : R[t] \in Outcomes \cup {"none"}
  BY DEF Given
<1>2. \A t \in Tasks : Encoded(R[t]) \in Entries
  BY <1>1 DEF Encoded, Entries
<1> QED
  BY <1>1, <1>2 DEF Serialized, Overlaid, NoResults, Entries

LEMMA RowsAreNotAbsent == \A r \in Rows : r # NoRow
BY StoresAssumption DEF StoresAssumption, Rows, NoRow

\* What a step must show for its variables to keep their types: the disk
\* is as it was, or a copy of what the process sees.
LEMMA Retyped ==
  ASSUME TypeOK, backend' = backend, rows' \in RowMaps, results' \in ResultMaps,
         disk' = disk \/ Persist,
         inTransaction' \in BOOLEAN,
         listed' \subseteq Workflows, torn' \subseteq Workflows,
         commands' \subseteq Commands
  PROVE  TypeOK'
BY DEF TypeOK, Persist

\* A row, or the results, of one workflow change.
LEMMA RowChange ==
  ASSUME TypeOK, NEW w \in Workflows, NEW r \in Rows \cup {NoRow}
  PROVE  [rows EXCEPT ![w] = r] \in RowMaps
BY DEF TypeOK, RowMaps

LEMMA ResultChange ==
  ASSUME TypeOK, NEW w \in Workflows, NEW R \in [Tasks -> Entries]
  PROVE  [results EXCEPT ![w] = R] \in ResultMaps
BY DEF TypeOK, ResultMaps

LEMMA NoResultsType == NoResults \in [Tasks -> Entries]
BY DEF NoResults, Entries

LEMMA TypeStep == TypeOK /\ [Next]_vars => TypeOK'
<1> SUFFICES ASSUME TypeOK, [Next]_vars PROVE TypeOK'
  OBVIOUS
<1>t. /\ rows \in RowMaps /\ results \in ResultMaps /\ inTransaction \in BOOLEAN
      /\ listed \subseteq Workflows /\ torn \subseteq Workflows
      /\ commands \subseteq Commands
  BY DEF TypeOK
<1>c. ASSUME Commit PROVE Persist /\ inTransaction' \in BOOLEAN
  BY <1>c DEF Commit
<1>1. ASSUME NEW w \in Workflows, NEW r \in Saveable(w),
             MemorySave(w, r) \/ SqliteSave(w, r) \/ PostgresSave(w, r)
      PROVE  TypeOK'
  <2>1. r \in Rows
    BY DEF Saveable
  <2>2. w \in Stored => rows[w] \in Rows
    BY <1>t DEF Stored, RowMaps
  <2>3. ASSUME NEW b PROVE b \in BOOLEAN => [r EXCEPT !.original = b] \in Rows
    BY <2>1 DEF Rows
  <2>4. (IF w \in Stored THEN rows[w].original ELSE r.original) \in BOOLEAN
    BY <2>1, <2>2 DEF Rows
  <2>5. [r EXCEPT !.original = IF w \in Stored THEN rows[w].original ELSE r.original] \in Rows
    BY <2>3, <2>4
  <2>6. rows' \in RowMaps
    BY <1>1, <2>1, <2>5, RowChange DEF MemorySave, SqliteSave, PostgresSave
  <2>7. results' \in ResultMaps
    BY <1>1, <1>t, NoResultsType, ResultChange DEF MemorySave, SqliteSave, PostgresSave
  <2> QED
    BY <1>1, <1>t, <1>c, <2>6, <2>7, Retyped DEF MemorySave, SqliteSave, PostgresSave
<1>2. ASSUME NEW w \in Workflows, NEW s \in Statuses,
             MemoryUpdateStatus(w, s) \/ SqliteUpdateStatus(w, s) \/ PostgresUpdateStatus(w, s)
      PROVE  TypeOK'
  <2>1. w \in Stored => [rows[w] EXCEPT !.status = s] \in Rows
    BY <1>t DEF Stored, Rows, RowMaps
  <2>2. w \in Stored => [rows EXCEPT ![w].status = s] = [rows EXCEPT ![w] = [rows[w] EXCEPT !.status = s]]
    BY <1>t DEF RowMaps
  <2>3. rows' \in RowMaps
    BY <1>2, <1>t, <2>1, <2>2, RowChange DEF MemoryUpdateStatus, SqliteUpdateStatus, PostgresUpdateStatus
  <2> QED
    BY <1>2, <1>t, <1>c, <2>3, Retyped
       DEF MemoryUpdateStatus, SqliteUpdateStatus, PostgresUpdateStatus
<1>3. ASSUME NEW w \in Workflows, NEW R \in Given,
             \/ MemorySaveResults(w, R) \/ SqliteSaveResults(w, R) \/ PostgresSaveResults(w, R)
             \/ \E c \in Clients : RedisSaveResults(c, w, R)
      PROVE  TypeOK'
  <2>1. results[w] \in [Tasks -> Entries]
    BY <1>t DEF ResultMaps
  <2>2. Serialized(R) \in [Tasks -> Entries] /\ Overlaid(results[w], R) \in [Tasks -> Entries]
    BY <2>1, ResultsType
  <2>3. results' \in ResultMaps
    BY <1>3, <2>2, ResultChange
       DEF MemorySaveResults, SqliteSaveResults, PostgresSaveResults, RedisSaveResults
  <2> QED
    BY <1>3, <1>t, <1>c, <2>3, Retyped
       DEF MemorySaveResults, SqliteSaveResults, PostgresSaveResults, RedisSaveResults
<1>4. ASSUME NEW w \in Workflows, NEW R \in Given, NEW before \in SUBSET Tasks,
             SqliteSaveResultsRaises(w, R, before)
      PROVE  TypeOK'
  <2> DEFINE some == [t \in Tasks |-> IF t \in before /\ R[t] # "none" THEN R[t] ELSE results[w][t]]
  <2>1. some \in [Tasks -> Entries]
    BY <1>t DEF Given, Entries, ResultMaps
  <2>2. results' = [results EXCEPT ![w] = some]
    BY <1>4, <1>t DEF SqliteSaveResultsRaises, ResultMaps
  <2>3. results' \in ResultMaps
    BY <2>1, <2>2, ResultChange
  <2> QED
    BY <1>4, <1>t, <2>3, Retyped DEF SqliteSaveResultsRaises
<1>5. ASSUME NEW w \in Workflows, MemoryDelete(w) \/ SqliteDelete(w) PROVE TypeOK'
  <2>1. rows' \in RowMaps /\ results' \in ResultMaps
    BY <1>5, NoResultsType, RowChange, ResultChange DEF MemoryDelete, SqliteDelete
  <2> QED
    BY <1>5, <1>t, <1>c, <2>1, Retyped DEF MemoryDelete, SqliteDelete
<1>6. ASSUME NEW w \in Workflows, NEW c \in Clients, NEW r \in Saveable(w), RedisSave(c, w, r)
      PROVE  TypeOK'
  <2>1. [client |-> c, next |-> "save", w |-> w, row |-> r] \in Commands
    BY DEF Saveable, Commands
  <2>2. commands' \subseteq Commands
    BY <1>6, <1>t, <2>1 DEF RedisSave
  <2> QED
    BY <1>6, <1>t, <2>2, Retyped DEF RedisSave
<1>7. ASSUME NEW w \in Workflows, NEW c \in Clients, NEW s \in Statuses, RedisUpdateStatus(c, w, s)
      PROVE  TypeOK'
  <2>1. rows[w] \in Rows
    BY <1>7, <1>t DEF RedisUpdateStatus, Stored, RowMaps
  <2>2. [Get(w) EXCEPT !.status = s] \in Rows
    BY <2>1 DEF Get, RedisGet, PostgresGet, Rows
  <2>3. [client |-> c, next |-> "update", w |-> w, row |-> [Get(w) EXCEPT !.status = s]] \in Commands
    BY <2>2 DEF Commands
  <2>4. commands' \subseteq Commands
    BY <1>7, <1>t, <2>3 DEF RedisUpdateStatus
  <2> QED
    BY <1>7, <1>t, <2>4, Retyped DEF RedisUpdateStatus
<1>8. ASSUME NEW p \in commands, RedisSet(p) PROVE TypeOK'
  <2>1. [p EXCEPT !.next = "zadd"] \in Commands /\ p.w \in Workflows /\ p.row \in Rows
    BY <1>t DEF Commands
  <2>2. rows' \in RowMaps
    BY <1>8, <2>1, RowChange DEF RedisSet
  <2>3. commands' \subseteq Commands
    BY <1>8, <1>t, <2>1 DEF RedisSet
  <2> QED
    BY <1>8, <1>t, <2>2, <2>3, Retyped DEF RedisSet
<1>9. ASSUME NEW p \in commands, RedisZadd(p) \/ RedisInterrupted(p) PROVE TypeOK'
  <2>1. p.w \in Workflows
    BY <1>t DEF Commands
  <2> QED
    BY <1>9, <1>t, <2>1, Retyped DEF RedisZadd, RedisInterrupted
<1>10. CASE Restart
  <2>1. \A p \in commands : p.w \in Workflows
    BY <1>t DEF Commands
  <2>2. rows' \in RowMaps /\ results' \in ResultMaps
    BY <1>10 DEF Restart, TypeOK
  <2>3. torn' \subseteq Workflows /\ commands' \subseteq Commands
    BY <1>10, <1>t, <2>1 DEF Restart
  <2> QED
    BY <1>10, <1>t, <2>2, <2>3, Retyped DEF Restart
<1>11. CASE UNCHANGED vars
  BY <1>11 DEF vars, TypeOK
<1> QED
  BY <1>1, <1>2, <1>3, <1>4, <1>5, <1>6, <1>7, <1>8, <1>9, <1>10, <1>11
     DEF Next, SaveNext, UpdateNext, ResultsNext

-----------------------------------------------------------------------------
(* What holds between the parts *)

\* The steps, by what they do to the disk: an operation of a store whose
\* operations do not overlap, or one of Redis's commands.
AtomicStep ==
  \/ /\ backend = "memory"
     /\ UNCHANGED <<disk, inTransaction, listed, commands, torn>>
  \/ /\ backend = "sqlite" /\ Commit
     /\ UNCHANGED <<listed, commands, torn>>
  \/ /\ backend = "sqlite" /\ inTransaction'
     /\ UNCHANGED <<rows, listed, disk, commands, torn>>
  \/ /\ backend = "postgres" /\ Persist
     /\ UNCHANGED <<listed, inTransaction, commands, torn>>

RedisStarts ==
  \E w \in Workflows, c \in Clients :
    \/ \E r \in Saveable(w) : RedisSave(c, w, r)
    \/ \E s \in Statuses : RedisUpdateStatus(c, w, s)

RedisCommand == \E p \in commands : RedisSet(p) \/ RedisZadd(p) \/ RedisInterrupted(p)

RedisResults ==
  /\ backend = "redis" /\ Persist
  /\ UNCHANGED <<rows, listed, inTransaction, commands, torn>>

LEMMA StepCases ==
  ASSUME [Next]_vars
  PROVE  /\ backend' = backend
         /\ AtomicStep \/ RedisStarts \/ RedisCommand \/ RedisResults \/ Restart
            \/ UNCHANGED vars
<1>1. ASSUME NEW w \in Workflows, SaveNext(w)
      PROVE  backend' = backend /\ (AtomicStep \/ RedisStarts)
  <2>1. ASSUME NEW r \in Saveable(w), MemorySave(w, r) \/ SqliteSave(w, r) \/ PostgresSave(w, r)
        PROVE  backend' = backend /\ AtomicStep
    BY <2>1 DEF MemorySave, SqliteSave, PostgresSave, AtomicStep
  <2>2. ASSUME NEW r \in Saveable(w), NEW c \in Clients, RedisSave(c, w, r)
        PROVE  backend' = backend /\ RedisStarts
    BY <2>2, Zenon DEF RedisSave, RedisStarts
  <2> QED
    BY <1>1, <2>1, <2>2 DEF SaveNext
<1>2. ASSUME NEW w \in Workflows, UpdateNext(w)
      PROVE  backend' = backend /\ (AtomicStep \/ RedisStarts)
  <2>1. ASSUME NEW s \in Statuses,
               \/ MemoryUpdateStatus(w, s) \/ SqliteUpdateStatus(w, s) \/ PostgresUpdateStatus(w, s)
        PROVE  backend' = backend /\ AtomicStep
    BY <2>1 DEF MemoryUpdateStatus, SqliteUpdateStatus, PostgresUpdateStatus, AtomicStep
  <2>2. ASSUME NEW s \in Statuses, NEW c \in Clients, RedisUpdateStatus(c, w, s)
        PROVE  backend' = backend /\ RedisStarts
    BY <2>2, Zenon DEF RedisUpdateStatus, RedisStarts
  <2> QED
    BY <1>2, <2>1, <2>2 DEF UpdateNext
<1>3. ASSUME NEW w \in Workflows, ResultsNext(w)
      PROVE  backend' = backend /\ (AtomicStep \/ RedisResults)
  <2>1. ASSUME NEW R \in Given,
               \/ MemorySaveResults(w, R) \/ SqliteSaveResults(w, R) \/ PostgresSaveResults(w, R)
               \/ \E before \in SUBSET Tasks : SqliteSaveResultsRaises(w, R, before)
        PROVE  backend' = backend /\ AtomicStep
    BY <2>1 DEF MemorySaveResults, SqliteSaveResults, PostgresSaveResults,
                SqliteSaveResultsRaises, AtomicStep
  <2>2. ASSUME NEW R \in Given, NEW c \in Clients, RedisSaveResults(c, w, R)
        PROVE  backend' = backend /\ RedisResults
    BY <2>2 DEF RedisSaveResults, RedisResults
  <2> QED
    BY <1>3, <2>1, <2>2 DEF ResultsNext
<1>4. ASSUME NEW w \in Workflows, MemoryDelete(w) \/ SqliteDelete(w)
      PROVE  backend' = backend /\ AtomicStep
  BY <1>4 DEF MemoryDelete, SqliteDelete, AtomicStep
<1>5. ASSUME NEW p \in commands, RedisSet(p) \/ RedisZadd(p) \/ RedisInterrupted(p)
      PROVE  backend' = backend /\ RedisCommand
  <2>1. RedisCommand
    BY <1>5, Zenon DEF RedisCommand
  <2> QED
    BY <1>5, <2>1 DEF RedisSet, RedisZadd, RedisInterrupted
<1>6. Restart \/ UNCHANGED vars => backend' = backend
  BY DEF Restart, vars
<1> QED
  BY <1>1, <1>2, <1>3, <1>4, <1>5, <1>6 DEF Next

LEMMA OnlyRedisHasCommands ==
  ASSUME UpdatesAreFresh, RedisStarts \/ RedisCommand
  PROVE  backend = "redis"
BY DEF UpdatesAreFresh, RedisStarts, RedisCommand, RedisSave, RedisUpdateStatus

LEMMA DurabilityStep == UpdatesAreFresh /\ Durability /\ [Next]_vars => Durability'
<1> SUFFICES ASSUME UpdatesAreFresh, Durability, [Next]_vars PROVE Durability'
  OBVIOUS
<1>1. backend' = backend
  BY StepCases
<1>2. CASE AtomicStep
  BY <1>1, <1>2 DEF Durability, AtomicStep, Commit, Persist
<1>3. CASE RedisStarts
  BY <1>1, <1>3 DEF Durability, RedisStarts, RedisSave, RedisUpdateStatus
<1>4. CASE RedisCommand
  <2>1. PICK p \in commands : RedisSet(p) \/ RedisZadd(p) \/ RedisInterrupted(p)
    BY <1>4 DEF RedisCommand
  <2>2. CASE RedisSet(p)
    BY <1>1, <1>4, <2>2, OnlyRedisHasCommands DEF Durability, RedisSet, Persist
  <2>3. CASE RedisZadd(p) \/ RedisInterrupted(p)
    BY <1>1, <2>3 DEF Durability, RedisZadd, RedisInterrupted
  <2> QED
    BY <2>1, <2>2, <2>3
<1>5. CASE RedisResults
  BY <1>1, <1>5 DEF Durability, RedisResults, Persist
<1>6. CASE Restart
  BY <1>1, <1>6 DEF Durability, Restart
<1>7. CASE UNCHANGED vars
  BY <1>7 DEF Durability, vars
<1> QED
  BY <1>2, <1>3, <1>4, <1>5, <1>6, <1>7, StepCases

LEMMA UpdatesStep ==
  TypeOK /\ Durability /\ UpdatesAreFresh /\ [Next]_vars => UpdatesAreFresh'
<1> SUFFICES ASSUME TypeOK, Durability, UpdatesAreFresh, [Next]_vars PROVE UpdatesAreFresh'
  OBVIOUS
<1>1. backend' = backend
  BY StepCases
<1>t. commands \subseteq Commands
  BY DEF TypeOK
<1>2. CASE AtomicStep
  <2>1. commands = {}
    BY <1>2 DEF AtomicStep, UpdatesAreFresh
  <2>2. commands' = {}
    BY <1>2, <2>1 DEF AtomicStep
  <2> QED
    BY <2>2 DEF UpdatesAreFresh
<1>3. CASE RedisStarts
  <2>1. PICK w \in Workflows, c \in Clients :
          \/ \E r \in Saveable(w) : RedisSave(c, w, r)
          \/ \E s \in Statuses : RedisUpdateStatus(c, w, s)
    BY <1>3 DEF RedisStarts
  <2>2. ASSUME NEW r \in Saveable(w), RedisSave(c, w, r) PROVE UpdatesAreFresh'
    BY <2>2, <1>1 DEF UpdatesAreFresh, RedisSave, Turn, Stored
  <2>3. ASSUME NEW s \in Statuses, RedisUpdateStatus(c, w, s) PROVE UpdatesAreFresh'
    <3>1. rows[w] \in Rows /\ [Get(w) EXCEPT !.status = s].version = rows[w].version
      BY <2>3 DEF RedisUpdateStatus, Get, RedisGet, PostgresGet, Stored, TypeOK, RowMaps, Rows
    <3>2. DEFINE q == [client |-> c, next |-> "update", w |-> w,
                       row |-> [Get(w) EXCEPT !.status = s]]
    <3>3. q.next = "update" /\ q.w = w /\ q.row.version = rows[w].version
      BY <3>1
    <3>4. commands' = commands \cup {q} /\ rows' = rows /\ w \in Stored /\ Turn(w)
          /\ backend = "redis"
      BY <2>3 DEF RedisUpdateStatus
    <3> HIDE DEF q
    <3> QED
      BY <3>3, <3>4, <1>1 DEF UpdatesAreFresh, Turn, Stored
  <2> QED
    BY <2>1, <2>2, <2>3
<1>4. CASE RedisCommand
  <2>1. PICK p \in commands : RedisSet(p) \/ RedisZadd(p) \/ RedisInterrupted(p)
    BY <1>4 DEF RedisCommand
  <2>2. CASE RedisSet(p)
    <3>1. p \in Commands /\ p.row \in Rows /\ p.w \in Workflows /\ p.row # NoRow
      BY <1>t, RowsAreNotAbsent DEF Commands
    <3>2. DEFINE q == [p EXCEPT !.next = "zadd"]
    <3>3. q.next = "zadd" /\ q.w = p.w
      BY <3>1 DEF Commands
    <3>4. /\ commands' = (commands \ {p}) \cup {q}
          /\ rows' = [rows EXCEPT ![p.w] = p.row]
      BY <2>2 DEF RedisSet
    <3> HIDE DEF q
    <3>5. p.w \in Stored' /\ Stored \subseteq Stored'
      BY <3>1, <3>4 DEF Stored, TypeOK, RowMaps
    <3>6. \A o \in commands : o \in Commands
      BY <1>t
    <3>7. \A o \in Workflows : o # p.w => rows'[o] = rows[o]
      BY <3>4 DEF TypeOK, RowMaps
    <3>8. \A o \in commands : o # p /\ backend \in TakesTurns => o.w # p.w
      BY DEF UpdatesAreFresh
    <3>9. ASSUME NEW o \in commands' PROVE
            /\ backend = "redis"
            /\ o.next = "update" /\ backend \in TakesTurns =>
                 o.w \in Stored' /\ rows'[o.w].version = o.row.version
            /\ o.next = "zadd" => o.w \in Stored'
            /\ backend \in TakesTurns => \A r \in commands' : r.w = o.w => r = o
      <4>1. CASE o = q
        BY <3>3, <3>4, <3>5, <3>8, <4>1 DEF UpdatesAreFresh
      <4>2. CASE o \in commands /\ o # p
        <5>1. o.w \in Workflows
          BY <3>6, <4>2 DEF Commands
        <5> QED
          BY <3>3, <3>4, <3>5, <3>7, <3>8, <4>2, <5>1 DEF UpdatesAreFresh
      <4> QED
        BY <3>4, <4>1, <4>2
    <3> QED
      BY <3>9, <1>1 DEF UpdatesAreFresh
  <2>3. CASE RedisZadd(p) \/ RedisInterrupted(p)
    BY <1>1, <2>3 DEF UpdatesAreFresh, RedisZadd, RedisInterrupted, Stored
  <2> QED
    BY <2>1, <2>2, <2>3
<1>5. CASE RedisResults
  BY <1>1, <1>5 DEF UpdatesAreFresh, RedisResults, Stored
<1>6. CASE Restart
  BY <1>6 DEF UpdatesAreFresh, Restart
<1>7. CASE UNCHANGED vars
  BY <1>7 DEF UpdatesAreFresh, vars, Stored
<1> QED
  BY <1>2, <1>3, <1>4, <1>5, <1>6, <1>7, StepCases

LEMMA ListingStep ==
  TypeOK /\ Durability /\ UpdatesAreFresh /\ ListingFollowsRows /\ [Next]_vars
    => ListingFollowsRows'
<1> SUFFICES ASSUME TypeOK, Durability, UpdatesAreFresh, ListingFollowsRows, [Next]_vars
             PROVE  ListingFollowsRows'
  OBVIOUS
<1>1. backend' = backend
  BY StepCases
<1>t. commands \subseteq Commands /\ rows \in RowMaps
  BY DEF TypeOK
<1>2. CASE AtomicStep
  BY <1>1, <1>2 DEF ListingFollowsRows, AtomicStep, ListAll, RedisListAll, Stored
<1>3. CASE RedisStarts
  BY <1>1, <1>3 DEF ListingFollowsRows, ListAll, RedisListAll, Stored, RedisStarts, RedisSave, RedisUpdateStatus
<1>4. CASE RedisCommand
  <2>1. PICK p \in commands : RedisSet(p) \/ RedisZadd(p) \/ RedisInterrupted(p)
    BY <1>4 DEF RedisCommand
  <2>2. CASE RedisSet(p)
    <3>1. p \in Commands /\ p.row \in Rows /\ p.w \in Workflows /\ p.row # NoRow
      BY <1>t, RowsAreNotAbsent DEF Commands
    <3> DEFINE q == [p EXCEPT !.next = "zadd"]
    <3>2. q.next = "zadd" /\ q.w = p.w
      BY <3>1 DEF Commands
    <3>3. /\ commands' = (commands \ {p}) \cup {q} /\ p.next # "zadd"
          /\ rows' = [rows EXCEPT ![p.w] = p.row]
          /\ listed' = listed /\ torn' = torn
      BY <2>2 DEF RedisSet
    <3> HIDE DEF q
    <3>4. Stored' = Stored \cup {p.w}
      BY <3>1, <3>3, <1>t DEF Stored, RowMaps
    <3>5. backend = "redis"
      BY <1>4, OnlyRedisHasCommands
    <3> QED
      BY <3>2, <3>3, <3>4, <3>5, <1>1 DEF ListingFollowsRows, ListAll, RedisListAll
  <2>3. CASE RedisZadd(p)
    <3>1. p.w \in Stored
      BY <2>3 DEF RedisZadd, UpdatesAreFresh
    <3> QED
      BY <1>1, <2>3, <3>1 DEF ListingFollowsRows, RedisZadd, ListAll, RedisListAll, Stored
  <2>4. CASE RedisInterrupted(p)
    BY <1>1, <2>4 DEF ListingFollowsRows, RedisInterrupted, ListAll, RedisListAll, Stored
  <2> QED
    BY <2>1, <2>2, <2>3, <2>4
<1>5. CASE RedisResults
  BY <1>1, <1>5 DEF ListingFollowsRows, RedisResults, ListAll, RedisListAll, Stored
<1>6. CASE Restart
  <2>1. backend = "redis" => rows' = rows
    BY <1>6 DEF Restart, Durability
  <2>2. CASE backend = "redis"
    BY <1>1, <1>6, <2>1, <2>2 DEF ListingFollowsRows, Restart, ListAll, RedisListAll, Stored
  <2>3. CASE backend # "redis"
    BY <1>1, <2>3 DEF ListingFollowsRows, ListAll, RedisListAll
  <2> QED
    BY <2>2, <2>3
<1>7. CASE UNCHANGED vars
  BY <1>7 DEF ListingFollowsRows, vars, ListAll, RedisListAll, Stored
<1> QED
  BY <1>2, <1>3, <1>4, <1>5, <1>6, <1>7, StepCases

\* The disk of SQLite and PostgreSQL respects the foreign key as well: for
\* the rows an open transaction has added it is the older results that count.
DiskHasWorkflow ==
  backend \in {"sqlite", "postgres"} =>
    \A w \in Workflows : disk.rows[w] = NoRow => disk.results[w] = NoResults

LEMMA ForeignKeyStep ==
  TypeOK /\ Durability /\ UpdatesAreFresh /\ ResultsHaveWorkflow /\ DiskHasWorkflow /\ [Next]_vars
    => ResultsHaveWorkflow' /\ DiskHasWorkflow'
<1> SUFFICES ASSUME TypeOK, Durability, UpdatesAreFresh, ResultsHaveWorkflow, DiskHasWorkflow,
                    [Next]_vars
             PROVE  ResultsHaveWorkflow' /\ DiskHasWorkflow'
  OBVIOUS
<1>b. backend' = backend
  BY StepCases
<1>t. rows \in RowMaps /\ results \in ResultMaps
  BY DEF TypeOK
<1>d. ASSUME ResultsHaveWorkflow', disk' = disk \/ Persist PROVE DiskHasWorkflow'
  BY <1>b, <1>d DEF ResultsHaveWorkflow, DiskHasWorkflow, Persist, Stored
<1>1. ASSUME NEW w \in Workflows, NEW r \in Saveable(w), SqliteSave(w, r) \/ PostgresSave(w, r)
      PROVE  ResultsHaveWorkflow' /\ DiskHasWorkflow'
  <2>1. r \in Rows
    BY DEF Saveable
  <2>2. [r EXCEPT !.original = IF w \in Stored THEN rows[w].original ELSE r.original] # NoRow
        /\ r # NoRow
    <3>1. ASSUME NEW b PROVE [r EXCEPT !.original = b].version \in Versions
      BY <2>1 DEF Rows
    <3> QED
      BY <2>1, <3>1, StoresAssumption, RowsAreNotAbsent DEF NoRow, StoresAssumption
  <2>3. ResultsHaveWorkflow'
    BY <1>1, <1>b, <1>t, <2>2 DEF SqliteSave, PostgresSave, ResultsHaveWorkflow, Stored, RowMaps, ResultMaps
  <2> QED
    BY <1>1, <1>d, <2>3 DEF SqliteSave, PostgresSave, Commit
<1>2. ASSUME NEW w \in Workflows, NEW s \in Statuses,
             SqliteUpdateStatus(w, s) \/ PostgresUpdateStatus(w, s)
      PROVE  ResultsHaveWorkflow' /\ DiskHasWorkflow'
  <2>1. w \in Stored => rows[w] \in Rows /\ [rows[w] EXCEPT !.status = s].version \in Versions
    BY <1>t DEF Stored, RowMaps, Rows
  <2>2. w \in Stored => [rows[w] EXCEPT !.status = s] # NoRow
    BY <2>1, StoresAssumption DEF NoRow, StoresAssumption
  <2>3. ResultsHaveWorkflow'
    BY <1>2, <1>b, <1>t, <2>2
       DEF SqliteUpdateStatus, PostgresUpdateStatus, ResultsHaveWorkflow, Stored, RowMaps
  <2> QED
    BY <1>2, <1>d, <2>3 DEF SqliteUpdateStatus, PostgresUpdateStatus, Commit
<1>3. ASSUME NEW w \in Workflows, NEW R \in Given, SqliteSaveResults(w, R) \/ PostgresSaveResults(w, R)
      PROVE  ResultsHaveWorkflow' /\ DiskHasWorkflow'
  <2>1. R = NoResults => Overlaid(results[w], R) = results[w]
    BY <1>t DEF NoResults, Overlaid, ResultMaps
  <2>2. ResultsHaveWorkflow'
    BY <1>3, <1>b, <1>t, <2>1
       DEF SqliteSaveResults, PostgresSaveResults, ResultsHaveWorkflow, Stored, ResultMaps
  <2> QED
    BY <1>3, <1>d, <2>2 DEF SqliteSaveResults, PostgresSaveResults, Commit
<1>4. ASSUME NEW w \in Workflows, NEW R \in Given, NEW before \in SUBSET Tasks,
             SqliteSaveResultsRaises(w, R, before)
      PROVE  ResultsHaveWorkflow' /\ DiskHasWorkflow'
  <2> DEFINE some == [t \in Tasks |-> IF t \in before /\ R[t] # "none" THEN R[t] ELSE results[w][t]]
  <2>1. results' = [results EXCEPT ![w] = some] /\ rows' = rows /\ disk' = disk
    BY <1>4, <1>t DEF SqliteSaveResultsRaises, ResultMaps
  <2>2. w \notin Stored => some = results[w]
    BY <1>4, <1>t DEF SqliteSaveResultsRaises, ResultMaps
  <2> HIDE DEF some
  <2>3. ResultsHaveWorkflow'
    BY <1>b, <1>t, <2>1, <2>2 DEF ResultsHaveWorkflow, Stored, ResultMaps
  <2> QED
    BY <1>d, <2>1, <2>3
<1>5. ASSUME NEW w \in Workflows, SqliteDelete(w)
      PROVE  ResultsHaveWorkflow' /\ DiskHasWorkflow'
  <2>1. ResultsHaveWorkflow'
    BY <1>5, <1>b, <1>t DEF SqliteDelete, ResultsHaveWorkflow, Stored, RowMaps, ResultMaps
  <2> QED
    BY <1>5, <1>d, <2>1 DEF SqliteDelete, Commit
<1>6. CASE Restart
  BY <1>6, <1>b DEF Restart, ResultsHaveWorkflow, DiskHasWorkflow, Stored
<1>7. CASE backend \notin {"sqlite", "postgres"} \/ UNCHANGED vars
  BY <1>7, <1>b DEF ResultsHaveWorkflow, DiskHasWorkflow, vars, Stored
<1>8. ASSUME NEW w \in Workflows
      PROVE  /\ \A r \in Saveable(w) : MemorySave(w, r) => backend = "memory"
             /\ \A s \in Statuses : MemoryUpdateStatus(w, s) => backend = "memory"
             /\ \A R \in Given : MemorySaveResults(w, R) => backend = "memory"
             /\ MemoryDelete(w) => backend = "memory"
  BY DEF MemorySave, MemoryUpdateStatus, MemorySaveResults, MemoryDelete
<1>9. ASSUME NEW w \in Workflows, NEW c \in Clients
      PROVE  /\ \A r \in Saveable(w) : RedisSave(c, w, r) => backend = "redis"
             /\ \A s \in Statuses : RedisUpdateStatus(c, w, s) => backend = "redis"
             /\ \A R \in Given : RedisSaveResults(c, w, R) => backend = "redis"
  BY DEF RedisSave, RedisUpdateStatus, RedisSaveResults
<1>10. RedisCommand => backend = "redis"
  BY OnlyRedisHasCommands
<1> QED
  BY <1>1, <1>2, <1>3, <1>4, <1>5, <1>6, <1>7, <1>8, <1>9, <1>10
     DEF Next, SaveNext, UpdateNext, ResultsNext, RedisCommand

\* Between two steps a store's parts fit together (StoreInv), and its disk
\* respects the foreign key.
IInv == StoreInv /\ DiskHasWorkflow

LEMMA InitInv == Init => IInv /\ CreationTimeKept
<1> SUFFICES ASSUME Init PROVE IInv /\ CreationTimeKept
  OBVIOUS
<1>1. rows \in RowMaps /\ results \in ResultMaps /\ Stored = {}
  BY NoResultsType DEF Init, RowMaps, ResultMaps, Stored
<1>2. TypeOK
  BY <1>1 DEF Init, TypeOK
<1>3. Durability /\ UpdatesAreFresh /\ ResultsHaveWorkflow /\ DiskHasWorkflow
  BY DEF Init, Durability, UpdatesAreFresh, ResultsHaveWorkflow, DiskHasWorkflow
<1>4. ListingFollowsRows /\ CreationTimeKept
  BY <1>1 DEF Init, ListingFollowsRows, CreationTimeKept, ListAll, RedisListAll
<1> QED
  BY <1>2, <1>3, <1>4 DEF IInv, StoreInv

LEMMA InvStep == IInv /\ [Next]_vars => IInv'
BY TypeStep, DurabilityStep, ListingStep, UpdatesStep, ForeignKeyStep DEF IInv, StoreInv

LEMMA CreationStep == IInv /\ CreationTimeKept /\ [Next]_vars => CreationTimeKept'
<1> SUFFICES ASSUME IInv, CreationTimeKept, [Next]_vars, backend # "redis"
             PROVE  CreationTimeKept'
  BY StepCases DEF CreationTimeKept
<1>t. rows \in RowMaps /\ rows' \in RowMaps /\ UpdatesAreFresh /\ Durability
  BY TypeStep DEF TypeOK, IInv, StoreInv
<1>b. backend' = backend
  BY StepCases
<1>1. ASSUME NEW w \in Workflows, NEW r \in Saveable(w),
             MemorySave(w, r) \/ SqliteSave(w, r) \/ PostgresSave(w, r)
      PROVE  CreationTimeKept'
  <2>1. r \in Rows /\ (r.original \/ w \in Stored)
    BY DEF Saveable
  <2>2. ASSUME NEW b PROVE [r EXCEPT !.original = b].original = b
    BY <2>1 DEF Rows
  <2>3. w \in Stored => rows[w].original
    BY DEF CreationTimeKept
  <2>4. backend \in {"memory", "sqlite"} => r.original
    BY <2>1, <2>3 DEF Saveable, Get
  <2>5. rows'[w].original /\ \A v \in Workflows \ {w} : rows'[v] = rows[v]
    BY <1>1, <1>t, <2>1, <2>2, <2>3, <2>4 DEF MemorySave, SqliteSave, PostgresSave, RowMaps
  <2> QED
    BY <2>5 DEF CreationTimeKept, Stored
<1>2. ASSUME NEW w \in Workflows, NEW s \in Statuses,
             MemoryUpdateStatus(w, s) \/ SqliteUpdateStatus(w, s) \/ PostgresUpdateStatus(w, s)
      PROVE  CreationTimeKept'
  <2>1. w \in Stored => rows[w] \in Rows
    BY <1>t DEF Stored, RowMaps
  <2>2. w \in Stored => [rows[w] EXCEPT !.status = s].original = rows[w].original
    BY <2>1 DEF Rows
  <2>3. w \notin Stored => rows' = rows
    BY <1>2 DEF MemoryUpdateStatus, SqliteUpdateStatus, PostgresUpdateStatus
  <2>4. w \in Stored => /\ rows'[w].original = rows[w].original
                        /\ \A v \in Workflows \ {w} : rows'[v] = rows[v]
    BY <1>2, <1>t, <2>2 DEF MemoryUpdateStatus, SqliteUpdateStatus, PostgresUpdateStatus, RowMaps
  <2> QED
    BY <1>b, <2>3, <2>4 DEF CreationTimeKept, Stored
<1>3. ASSUME NEW w \in Workflows, MemoryDelete(w) \/ SqliteDelete(w) PROVE CreationTimeKept'
  BY <1>3, <1>t DEF MemoryDelete, SqliteDelete, CreationTimeKept, Stored, RowMaps
<1>4. CASE Restart
  BY <1>4, <1>t, <1>b DEF Restart, CreationTimeKept, Durability, Stored
<1>5. CASE rows' = rows
  BY <1>5, <1>b DEF CreationTimeKept, Stored
<1>6. ASSUME NEW w \in Workflows, ResultsNext(w) PROVE rows' = rows
  BY <1>6 DEF ResultsNext, MemorySaveResults, SqliteSaveResults, PostgresSaveResults,
              SqliteSaveResultsRaises, RedisSaveResults
<1>7. ~RedisStarts /\ ~RedisCommand
  BY <1>t, OnlyRedisHasCommands
<1>8. CASE UNCHANGED vars
  BY <1>5, <1>8 DEF vars
<1> QED
  BY <1>1, <1>2, <1>3, <1>4, <1>5, <1>6, <1>7, <1>8
     DEF Next, SaveNext, UpdateNext, RedisStarts, RedisCommand

\* Rows, results, listing, disk and commands in progress always fit together.
THEOREM Invariant == Spec => []StoreInv
<1>1. IInv => StoreInv
  BY DEF IInv
<1> QED
  BY <1>1, InitInv, InvStep, PTL DEF Spec

\* Except in Redis, a workflow keeps the time it was created at.
THEOREM CreationTimes == Spec => []CreationTimeKept
BY InitInv, InvStep, CreationStep, PTL DEF Spec

-----------------------------------------------------------------------------
(* The refinement *)

Shown(R) == [t \in Tasks |-> Verdict(R[t])]

LEMMA PlainChange ==
  ASSUME TypeOK, NEW w \in Workflows, NEW r
  PROVE  Plain([rows EXCEPT ![w] = r]) = [Plain(rows) EXCEPT ![w] = Definition(r)]
BY DEF TypeOK, RowMaps, Plain

LEMMA VerdictsChange ==
  ASSUME TypeOK, NEW w \in Workflows, NEW R
  PROVE  Verdicts([results EXCEPT ![w] = R]) = [Verdicts(results) EXCEPT ![w] = Shown(R)]
BY DEF TypeOK, ResultMaps, Verdicts, Shown

LEMMA VerdictsOf == Shown(NoResults) = Store!NoVerdicts
BY DEF Shown, NoResults, Verdict, Store!NoVerdicts

\* A stored row shows as a definition, an absent one as Absent.
LEMMA DefinitionsOf ==
  ASSUME NEW r \in Rows
  PROVE  Definition(r) \in Store!Definitions /\ Definition(r) # Store!Absent
<1>1. Definition(r).version = r.version
  BY DEF Definition
<1>2. r.version \in Versions /\ r.status \in Statuses
  BY DEF Rows
<1> QED
  BY <1>1, <1>2, StoresAssumption DEF Definition, Store!Definitions, Store!Absent, StoresAssumption

\* An operation that persists what it did, or did it in memory, settles.
LEMMA OperationSettles ==
  ASSUME Durability, backend' = backend, Persist \/ (backend = "memory" /\ disk' = disk)
  PROVE  Store!Settle
BY DEF Persist, Store!Settle

LEMMA RefinedSave ==
  ASSUME IInv, backend' = backend, Persist \/ (backend = "memory" /\ disk' = disk),
         NEW w \in Workflows, NEW r \in Rows,
         rows' = [rows EXCEPT ![w] = r],
         results' = results \/ results' = [results EXCEPT ![w] = NoResults]
  PROVE  Definition(r) \in Store!Definitions /\ Store!Save(w, Definition(r))
<1>1. TypeOK /\ Durability
  BY DEF IInv, StoreInv
<1>2. Plain(rows') = [Plain(rows) EXCEPT ![w] = Definition(r)]
  BY <1>1, PlainChange
<1>3. Verdicts(results') \in
        {Verdicts(results), [Verdicts(results) EXCEPT ![w] = Store!NoVerdicts]}
  BY <1>1, VerdictsChange, VerdictsOf
<1>4. Store!Save(w, Definition(r))
  BY <1>1, <1>2, <1>3, OperationSettles DEF Store!Save
<1> QED
  BY <1>4, DefinitionsOf 

LEMMA RefinedUpdate ==
  ASSUME IInv, backend' = backend, Persist \/ (backend = "memory" /\ disk' = disk),
         NEW w \in Stored, NEW s \in Statuses, NEW r \in Rows,
         r.version = rows[w].version, r.status = s,
         rows' = [rows EXCEPT ![w] = r], results' = results
  PROVE  Store!UpdateStatus(w, s)
<1>1. TypeOK /\ Durability /\ w \in Workflows
  BY DEF IInv, StoreInv, Stored
<1>2. Plain(rows') = [Plain(rows) EXCEPT ![w] = Definition(r)]
  BY <1>1, PlainChange
<1>3. rows[w] \in Rows
  BY <1>1 DEF TypeOK, RowMaps, Stored
<1>4. Plain(rows)[w] = Definition(rows[w])
  BY <1>1 DEF Plain
<1>5. Definition(r) = [version |-> Plain(rows)[w].version, status |-> s]
  BY <1>4 DEF Definition
<1>6. Plain(rows)[w] # Store!Absent
  BY <1>3, <1>4, DefinitionsOf
<1> QED
  BY <1>1, <1>2, <1>5, <1>6, OperationSettles DEF Store!UpdateStatus

LEMMA RefinedTouch ==
  ASSUME IInv, backend' = backend, Persist \/ (backend = "memory" /\ disk' = disk),
         rows' = rows, results' = results
  PROVE  Store!Touch
BY OperationSettles DEF Store!Touch, IInv, StoreInv

LEMMA RefinedResults ==
  ASSUME IInv, backend' = backend, Persist \/ (backend = "memory" /\ disk' = disk),
         NEW w \in Workflows, NEW R \in Given, rows' = rows,
         \/ results' = [results EXCEPT ![w] = Serialized(R)]
         \/ results' = [results EXCEPT ![w] = Overlaid(results[w], R)]
  PROVE  Shown(R) \in [Tasks -> Store!Verdicts] /\ Store!SaveResults(w, Shown(R))
<1>1. TypeOK /\ Durability
  BY DEF IInv, StoreInv
<1>2. Shown(R) \in [Tasks -> Store!Verdicts]
  BY DEF Shown, Verdict, Store!Verdicts
<1>3. Shown(Serialized(R)) = Shown(R)
  BY DEF Shown, Serialized, Encoded, Verdict
<1>4. Verdicts(results)[w] = Shown(results[w])
  BY DEF Verdicts, Shown
<1>5. \A t \in Tasks : R[t] = "none" <=> Shown(R)[t] = "none"
  BY DEF Shown, Verdict
<1>6. Shown(Overlaid(results[w], R)) = Store!Overlaid(Verdicts(results)[w], Shown(R))
  BY <1>4, <1>5 DEF Shown, Overlaid, Store!Overlaid
<1>7. Verdicts(results') \in {[Verdicts(results) EXCEPT ![w] = Shown(R)],
        [Verdicts(results) EXCEPT ![w] = Store!Overlaid(Verdicts(results)[w], Shown(R))]}
  <2>1. /\ Verdicts([results EXCEPT ![w] = Serialized(R)])
             = [Verdicts(results) EXCEPT ![w] = Shown(Serialized(R))]
        /\ Verdicts([results EXCEPT ![w] = Overlaid(results[w], R)])
             = [Verdicts(results) EXCEPT ![w] = Shown(Overlaid(results[w], R))]
    BY <1>1, VerdictsChange, Zenon
  <2> QED
    BY <1>3, <1>6, <2>1
<1>8. Store!SaveResults(w, Shown(R))
  BY <1>1, <1>7, OperationSettles DEF Store!SaveResults
<1> QED
  BY <1>2, <1>8 

LEMMA RefinedPartial ==
  ASSUME IInv, NEW w \in Workflows, NEW R \in Given, NEW before \in SUBSET Tasks,
         SqliteSaveResultsRaises(w, R, before)
  PROVE  \E V \in [Tasks -> Store!Verdicts] : Store!SaveResultsFails(w, V)
<1> DEFINE some == [t \in Tasks |-> IF t \in before /\ R[t] # "none" THEN R[t] ELSE results[w][t]]
           V == [t \in Tasks |-> IF t \in before THEN Verdict(R[t]) ELSE "none"]
<1>1. TypeOK
  BY DEF IInv, StoreInv
<1>2. results' = [results EXCEPT ![w] = some] /\ rows' = rows /\ disk' = disk /\ backend' = backend
  BY <1>1 DEF SqliteSaveResultsRaises, TypeOK, ResultMaps
<1>3. V \in [Tasks -> Store!Verdicts]
  BY DEF Verdict, Store!Verdicts
<1>4. Verdicts(results)[w] = Shown(results[w])
  BY DEF Verdicts, Shown
<1>5. Shown(some) = Store!Overlaid(Verdicts(results)[w], V)
  BY <1>4 DEF Shown, Verdict, Store!Overlaid
<1> HIDE DEF some, V
<1>6. Verdicts(results') = [Verdicts(results) EXCEPT ![w] = Shown(some)]
  BY <1>1, <1>2, VerdictsChange
<1>7. Store!SaveResultsFails(w, V)
  BY <1>2, <1>5, <1>6 DEF Store!SaveResultsFails
<1> QED
  BY <1>3, <1>7 

LEMMA RefinedDelete ==
  ASSUME IInv, NEW w \in Workflows, MemoryDelete(w) \/ SqliteDelete(w)
  PROVE  Store!Delete(w)
<1>1. TypeOK /\ Durability
  BY DEF IInv, StoreInv
<1>2. /\ rows' = [rows EXCEPT ![w] = NoRow] /\ results' = [results EXCEPT ![w] = NoResults]
      /\ backend' = backend /\ (Persist \/ (backend = "memory" /\ disk' = disk))
  BY DEF MemoryDelete, SqliteDelete, Commit
<1>3. Definition(NoRow) = Store!Absent
  BY DEF Definition, NoRow, Store!Absent
<1>4. Plain(rows') = [Plain(rows) EXCEPT ![w] = Store!Absent]
  BY <1>1, <1>2, <1>3, PlainChange
<1>5. Verdicts(results') = [Verdicts(results) EXCEPT ![w] = Store!NoVerdicts]
  BY <1>1, <1>2, VerdictsChange, VerdictsOf
<1> QED
  BY <1>1, <1>2, <1>4, <1>5, OperationSettles DEF Store!Delete

AbstractCalls == {CallOf(p) : p \in Pending}

\* The calls to come, after a command of Redis.
LEMMA CallsAfter ==
  ASSUME TypeOK
  PROVE  /\ commands' = commands => AbstractCalls' = AbstractCalls
         /\ \A p \in Commands : p.next # "zadd" /\ commands' = commands \cup {p} =>
              CallOf(p) \in Store!Calls /\ AbstractCalls' = AbstractCalls \cup {CallOf(p)}
         /\ \A p \in commands : p.next = "zadd" /\ commands' = commands \ {p} =>
              AbstractCalls' = AbstractCalls
<1> USE DEF AbstractCalls, Pending
<1>1. commands' = commands => AbstractCalls' = AbstractCalls
  OBVIOUS
<1>2. ASSUME NEW p \in Commands, p.next # "zadd", commands' = commands \cup {p}
      PROVE  CallOf(p) \in Store!Calls /\ AbstractCalls' = AbstractCalls \cup {CallOf(p)}
  <2>1. /\ p.client \in Clients /\ p.w \in Workflows /\ p.row \in Rows
        /\ p.next = "save" \/ p.next = "update"
    BY <1>2 DEF Commands
  <2>2. p.row.status \in Statuses /\ Definition(p.row) \in Store!Definitions
    BY <2>1, DefinitionsOf DEF Rows
  <2>3. CallOf(p) \in Store!Calls
    BY <2>1, <2>2 DEF CallOf, Store!Calls
  <2> QED
    BY <1>2, <2>3
<1>3. ASSUME NEW p \in commands, p.next = "zadd", commands' = commands \ {p}
      PROVE  AbstractCalls' = AbstractCalls
  BY <1>3
<1> QED
  BY <1>1, <1>2, <1>3

\* A command that is the only one for its workflow leaves with its call.
LEMMA CallLeaves ==
  ASSUME TypeOK, NEW p \in commands, p.next # "zadd",
         \A q \in commands : q.w = p.w => q = p,
         \/ commands' = commands \ {p}
         \/ commands' = (commands \ {p}) \cup {[p EXCEPT !.next = "zadd"]}
  PROVE  CallOf(p) \in AbstractCalls /\ AbstractCalls' = AbstractCalls \ {CallOf(p)}
<1>1. p \in Commands
  BY DEF TypeOK
<1>2. [p EXCEPT !.next = "zadd"].next = "zadd"
  BY <1>1 DEF Commands
<1>3. Pending' = Pending \ {p} /\ p \in Pending
  BY <1>2 DEF Pending
<1>4. \A q \in Pending : q # p => CallOf(q) # CallOf(p)
  <2>1. \A q : CallOf(q).w = q.w
    BY DEF CallOf
  <2> QED
    BY <2>1 DEF Pending
<1> QED
  BY <1>3, <1>4 DEF AbstractCalls

\* A step of Redis's client is a call, its effect, its failure or a stutter.
LEMMA RefinedRedis ==
  ASSUME "redis" \in TakesTurns, IInv, RedisStarts \/ RedisCommand, backend' = backend
  PROVE  [Store!StoreNext]_(Store!store)
<1>t. /\ TypeOK /\ UpdatesAreFresh /\ Durability /\ commands \subseteq Commands
      /\ rows \in RowMaps
  BY DEF TypeOK, IInv, StoreInv
<1>r. backend = "redis" /\ backend \in TakesTurns
  BY <1>t, OnlyRedisHasCommands
<1>s. ASSUME rows' = rows, results' = results, disk' = disk
      PROVE  /\ AbstractCalls' = AbstractCalls => UNCHANGED Store!store
             /\ \A k \in Store!Calls : AbstractCalls' = AbstractCalls \cup {k} => Store!Call(k)
             /\ \A k \in AbstractCalls : AbstractCalls' = AbstractCalls \ {k} => Store!Fail(k)
  BY <1>s DEF Store!store, Store!Call, Store!Fail, AbstractCalls
<1>k. \A k \in Store!Calls : Store!Call(k) => Store!StoreNext
  BY DEF Store!StoreNext
<1>e. \A k \in AbstractCalls : Store!TakeEffect(k) \/ Store!Fail(k) => Store!StoreNext
  BY DEF Store!StoreNext, AbstractCalls
<1>1. ASSUME NEW w \in Workflows, NEW c \in Clients, NEW r \in Saveable(w), RedisSave(c, w, r)
      PROVE  Store!StoreNext
  <2> DEFINE p == [client |-> c, next |-> "save", w |-> w, row |-> r]
  <2>1. p \in Commands /\ p.next # "zadd"
    BY DEF Saveable, Commands
  <2>2. commands' = commands \cup {p} /\ rows' = rows /\ results' = results /\ disk' = disk
    BY <1>1 DEF RedisSave
  <2> HIDE DEF p
  <2> QED
    BY <2>1, <2>2, <1>t, <1>s, <1>k, CallsAfter
<1>2. ASSUME NEW w \in Workflows, NEW c \in Clients, NEW s \in Statuses, RedisUpdateStatus(c, w, s)
      PROVE  Store!StoreNext
  <2> DEFINE p == [client |-> c, next |-> "update", w |-> w, row |-> [Get(w) EXCEPT !.status = s]]
  <2>1. rows[w] \in Rows
    BY <1>2, <1>t DEF RedisUpdateStatus, Stored, RowMaps
  <2>2. [Get(w) EXCEPT !.status = s] \in Rows
    BY <2>1 DEF Get, RedisGet, PostgresGet, Rows
  <2>3. p \in Commands /\ p.next # "zadd"
    BY <2>2 DEF Commands
  <2>4. commands' = commands \cup {p} /\ rows' = rows /\ results' = results /\ disk' = disk
    BY <1>2 DEF RedisUpdateStatus
  <2> HIDE DEF p
  <2> QED
    BY <2>3, <2>4, <1>t, <1>s, <1>k, CallsAfter
<1>3. ASSUME NEW p \in commands, RedisSet(p) PROVE Store!StoreNext
  <2>1. p \in Commands /\ p.w \in Workflows /\ p.row \in Rows /\ p.next \in {"save", "update", "zadd"}
    BY <1>t DEF Commands
  <2>2. Persist /\ rows' = [rows EXCEPT ![p.w] = p.row] /\ results' = results
        /\ p.next # "zadd" /\ commands' = (commands \ {p}) \cup {[p EXCEPT !.next = "zadd"]}
    BY <1>3 DEF RedisSet
  <2>3. CallOf(p) \in AbstractCalls /\ AbstractCalls' = AbstractCalls \ {CallOf(p)}
    BY <1>t, <1>r, <2>2, CallLeaves DEF UpdatesAreFresh
  <2>4. CASE p.next = "save"
    <3>1. Store!Save(p.w, Definition(p.row))
      BY <2>1, <2>2, RefinedSave
    <3>2. CallOf(p).kind = "save" /\ CallOf(p).w = p.w /\ CallOf(p).value = Definition(p.row)
      BY <2>4 DEF CallOf
    <3>3. Store!TakeEffect(CallOf(p))
      BY <2>3, <3>1, <3>2 DEF Store!TakeEffect, AbstractCalls
    <3> QED
      BY <1>e, <2>3, <3>3
  <2>5. CASE p.next = "update"
    <3>1. p.w \in Stored /\ p.row.version = rows[p.w].version
      BY <1>t, <1>r, <2>5 DEF UpdatesAreFresh
    <3>2. p.row.status \in Statuses
      BY <2>1 DEF Rows
    <3>3. Store!UpdateStatus(p.w, p.row.status)
      BY <2>1, <2>2, <3>1, <3>2, RefinedUpdate
    <3>4. CallOf(p).kind # "save" /\ CallOf(p).w = p.w /\ CallOf(p).value = p.row.status
      BY <2>5 DEF CallOf
    <3>5. Store!TakeEffect(CallOf(p))
      BY <2>3, <3>3, <3>4 DEF Store!TakeEffect, AbstractCalls
    <3> QED
      BY <1>e, <2>3, <3>5
  <2> QED
    BY <2>1, <2>2, <2>4, <2>5
<1>4. ASSUME NEW p \in commands, RedisZadd(p) \/ RedisInterrupted(p)
      PROVE  Store!StoreNext \/ UNCHANGED Store!store
  <2>1. commands' = commands \ {p} /\ rows' = rows /\ results' = results /\ disk' = disk
    BY <1>4 DEF RedisZadd, RedisInterrupted
  <2>2. CASE p.next = "zadd"
    BY <1>t, <1>s, <2>1, <2>2, CallsAfter
  <2>3. CASE p.next # "zadd"
    <3>1. CallOf(p) \in AbstractCalls /\ AbstractCalls' = AbstractCalls \ {CallOf(p)}
      BY <1>t, <1>r, <2>1, <2>3, CallLeaves DEF UpdatesAreFresh
    <3> QED
      BY <1>s, <1>e, <2>1, <3>1
  <2> QED
    BY <2>2, <2>3
<1> QED
  BY <1>1, <1>2, <1>3, <1>4 DEF RedisStarts, RedisCommand

LEMMA RefinedStep ==
  ASSUME "redis" \in TakesTurns, IInv, [Next]_vars
  PROVE  [Store!StoreNext]_(Store!store)
<1>t. /\ TypeOK /\ rows \in RowMaps
  BY DEF TypeOK, IInv, StoreInv
<1>b. backend' = backend
  BY StepCases
<1>c. Commit => Persist
  BY DEF Commit
<1>a. Store!AtOnce => Store!StoreNext
  BY DEF Store!StoreNext
<1>u. commands' = commands => UNCHANGED AbstractCalls
  BY <1>t, CallsAfter
<1>1. ASSUME NEW w \in Workflows, NEW r \in Saveable(w),
             MemorySave(w, r) \/ SqliteSave(w, r) \/ PostgresSave(w, r)
      PROVE  Store!StoreNext
  <2>1. r \in Rows
    BY DEF Saveable
  <2> DEFINE q == [r EXCEPT !.original = IF w \in Stored THEN rows[w].original ELSE r.original]
  <2>2. ASSUME NEW b \in BOOLEAN PROVE [r EXCEPT !.original = b] \in Rows
    BY <2>1 DEF Rows
  <2>3. (IF w \in Stored THEN rows[w].original ELSE r.original) \in BOOLEAN
    BY <2>1, <1>t DEF Rows, RowMaps, Stored
  <2>4. q \in Rows
    BY <2>2, <2>3
  <2>5. /\ rows' = [rows EXCEPT ![w] = r] \/ rows' = [rows EXCEPT ![w] = q]
        /\ results' = results \/ results' = [results EXCEPT ![w] = NoResults]
        /\ Persist \/ (backend = "memory" /\ disk' = disk)
        /\ commands' = commands
    BY <1>1, <1>c DEF MemorySave, SqliteSave, PostgresSave
  <2> HIDE DEF q
  <2>6. \E d \in Store!Definitions : Store!Save(w, d)
    BY <1>b, <2>1, <2>4, <2>5, RefinedSave
  <2> QED
    BY <1>a, <1>u, <2>5, <2>6 DEF Store!AtOnce, AbstractCalls
<1>2. ASSUME NEW w \in Workflows, NEW s \in Statuses,
             MemoryUpdateStatus(w, s) \/ SqliteUpdateStatus(w, s) \/ PostgresUpdateStatus(w, s)
      PROVE  Store!StoreNext
  <2> DEFINE q == [rows[w] EXCEPT !.status = s]
  <2>1. w \in Stored => q \in Rows /\ q.version = rows[w].version /\ q.status = s
    BY <1>t DEF Stored, RowMaps, Rows
  <2>2. /\ Persist \/ (backend = "memory" /\ disk' = disk)
        /\ results' = results
        /\ w \notin Stored => rows' = rows
        /\ w \in Stored => rows' = [rows EXCEPT ![w] = q]
        /\ commands' = commands
    BY <1>2, <1>c, <1>t
       DEF MemoryUpdateStatus, SqliteUpdateStatus, PostgresUpdateStatus, RowMaps
  <2> HIDE DEF q
  <2>3. Store!UpdateStatus(w, s) \/ Store!Touch
    BY <1>b, <2>1, <2>2, RefinedUpdate, RefinedTouch
  <2> QED
    BY <1>a, <1>u, <2>2, <2>3 DEF Store!AtOnce, AbstractCalls
<1>3. ASSUME NEW w \in Workflows, NEW R \in Given,
             \/ MemorySaveResults(w, R) \/ SqliteSaveResults(w, R) \/ PostgresSaveResults(w, R)
             \/ \E c \in Clients : RedisSaveResults(c, w, R)
      PROVE  Store!StoreNext
  <2>1. /\ Persist \/ (backend = "memory" /\ disk' = disk)
        /\ rows' = rows
        /\ \/ results' = [results EXCEPT ![w] = Serialized(R)]
           \/ results' = [results EXCEPT ![w] = Overlaid(results[w], R)]
        /\ commands' = commands
    BY <1>3, <1>c DEF MemorySaveResults, SqliteSaveResults, PostgresSaveResults, RedisSaveResults
  <2>2. \E V \in [Tasks -> Store!Verdicts] : Store!SaveResults(w, V)
    BY <1>b, <2>1, RefinedResults
  <2> QED
    BY <1>a, <1>u, <2>1, <2>2 DEF Store!AtOnce, AbstractCalls
<1>4. ASSUME NEW w \in Workflows, NEW R \in Given, NEW before \in SUBSET Tasks,
             SqliteSaveResultsRaises(w, R, before)
      PROVE  Store!StoreNext
  <2>1. \E V \in [Tasks -> Store!Verdicts] : Store!SaveResultsFails(w, V)
    BY <1>4, RefinedPartial
  <2>2. commands' = commands
    BY <1>4 DEF SqliteSaveResultsRaises
  <2> QED
    BY <1>a, <1>u, <2>1, <2>2 DEF Store!AtOnce, AbstractCalls
<1>5. ASSUME NEW w \in Workflows, MemoryDelete(w) \/ SqliteDelete(w) PROVE Store!StoreNext
  <2>1. Store!Delete(w) /\ commands' = commands
    BY <1>5, RefinedDelete DEF MemoryDelete, SqliteDelete
  <2> QED
    BY <1>a, <1>u, <2>1 DEF Store!AtOnce, AbstractCalls
<1>6. CASE RedisStarts \/ RedisCommand
  BY <1>6, <1>b, RefinedRedis
<1>7. CASE Restart
  <2>1. AbstractCalls' = {}
    BY <1>7 DEF Restart, AbstractCalls, Pending
  <2>2. Store!Restart
    BY <1>7, <1>b, <2>1 DEF Restart, Store!Restart, AbstractCalls
  <2> QED
    BY <2>2 DEF Store!StoreNext
<1>8. CASE UNCHANGED vars
  BY <1>8, <1>u DEF vars, Store!store, AbstractCalls
<1> QED
  BY <1>1, <1>2, <1>3, <1>4, <1>5, <1>6, <1>7, <1>8
     DEF Next, SaveNext, UpdateNext, ResultsNext, RedisStarts, RedisCommand

\* The four stores implement WorkflowStore, if a status update in Redis does
\* not overlap a save of the same workflow.
THEOREM Implementation ==
  ASSUME "redis" \in TakesTurns PROVE Spec => ImplementsStore
<1>1. Init => Store!StoreInit
  <2> SUFFICES ASSUME Init PROVE Store!StoreInit
    OBVIOUS
  <2>1. Definition(NoRow) = Store!Absent
    BY DEF Definition, NoRow, Store!Absent
  <2>2. Plain(rows) = [w \in Workflows |-> Store!Absent]
    BY <2>1 DEF Init, Plain
  <2>3. Verdicts(results) = [w \in Workflows |-> Store!NoVerdicts]
    BY DEF Init, Verdicts, NoResults, Verdict, Store!NoVerdicts
  <2>4. rows = [w \in Workflows |-> NoRow] /\ disk.rows = rows /\ disk.results = results
        /\ (backend # "memory") \in BOOLEAN
    BY DEF Init
  <2>5. {CallOf(p) : p \in Pending} = {}
    BY DEF Init, Pending
  <2> QED
    BY <2>2, <2>3, <2>4, <2>5 DEF Store!StoreInit
<1>2. IInv /\ [Next]_vars => [Store!StoreNext]_(Store!store)
  BY RefinedStep
<1> QED
  BY <1>1, <1>2, InitInv, InvStep, PTL DEF Spec, ImplementsStore, Store!StoreSpec
=============================================================================
