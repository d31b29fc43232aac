----------------------------- MODULE Definition -----------------------------
(***************************************************************************)
(* The ways to a workflow, dsl/__init__.py and decorators/__init__.py, and *)
(* what dry_run (Planner) then makes of it.  A definition is the list of   *)
(* its entries: a name, or NoName where the field is missing, and the      *)
(* depends_on list as a set.  Of its shape the model keeps what the code   *)
(* branches on: a list that is empty or missing, an entry without a name,  *)
(* names that meet, dependencies of any kind.  Functions, timeouts and the *)
(* other fields are handed on as they are and left out.                    *)
(***************************************************************************)
EXTENDS Planner

CONSTANTS
  Definitions,  \* the lists of entries somebody may write
  NoName        \* the name of an entry without one

ASSUME DefinitionAssumption ==
  \A d \in Definitions :
    d \in Seq(Range(d)) /\ \A e \in Range(d) : NoName \notin e.dependsOn

VARIABLES
  definition,   \* the entries as written
  route,        \* what turns them into a Workflow
  tasks,        \* the Task objects made so far: the list the workflow shares
  built,        \* the caller holds the Workflow
  validated,    \* WorkflowParser.validate was called
  errors        \* the kinds of error it found

defVars == <<definition, route, tasks, built, validated, errors>>
allVars == <<vars, defVars>>

Init ==
  /\ NoPlan /\ pc = "define"
  /\ definition \in Definitions
  /\ route \in {"parser", "decorators", "builder"}
  /\ route # "parser" => \A e \in Range(definition) : e.name # NoName
  /\ tasks = <<>> /\ built = FALSE
  /\ validated = FALSE /\ errors = {}

NamesOf(entries) == {e.name : e \in Range(entries)} \ {NoName}

\* Mutation: task_names is not kept.
SeenBefore_NotKept(i) == {}

\* task_names when validate comes to the i-th entry.
SeenBefore(i) == {definition[j].name : j \in 1 .. i - 1} \ {NoName}

\* WorkflowParser.validate: a caller may ask before it parses; parsing does not
\* ask.  Of an entry's dependencies only the entry's own name is looked for.
Validate ==
  LET Found(kind, P(_, _)) == {kind : i \in {i \in DOMAIN definition : P(i, definition[i])}}
  IN /\ pc = "define" /\ route = "parser" /\ ~validated /\ tasks = <<>>
     /\ validated' = TRUE
     /\ errors' = {"empty" : x \in {1} \ DOMAIN definition}
                  \cup Found("nameless", LAMBDA i, e : e.name = NoName)
                  \cup Found("duplicate", LAMBDA i, e : e.name \in SeenBefore(i))
                  \cup Found("itself", LAMBDA i, e : e.name \in e.dependsOn)
     /\ UNCHANGED <<vars, definition, route, tasks, built>>

NextEntry == definition[Len(tasks) + 1]

\* _parse_dict and _parse_task: a ValueError ends the parse,
ParseRaises ==
  /\ pc = "define" /\ route = "parser" /\ ~built
  /\ \/ definition = <<>>
     \/ Len(tasks) < Len(definition) /\ NextEntry.name = NoName
  /\ pc' = "raised"
  /\ UNCHANGED <<defVars, dependsOn, inDegree, queue, order, phases, relaxed, dist, pred, path>>

\* ... or the entry becomes a task.
ParseTask ==
  /\ pc = "define" /\ route = "parser"
  /\ Len(tasks) < Len(definition) /\ NextEntry.name # NoName
  /\ tasks' = Append(tasks, NextEntry)
  /\ UNCHANGED <<vars, definition, route, built, validated, errors>>

ParseReturns ==
  /\ pc = "define" /\ route = "parser" /\ ~built
  /\ definition # <<>> /\ Len(tasks) = Len(definition)
  /\ built' = TRUE
  /\ UNCHANGED <<vars, definition, route, tasks, validated, errors>>

\* The wrapper of the workflow decorator builds every TaskBuilder it is given.
CreatePipeline ==
  /\ pc = "define" /\ route = "decorators" /\ ~built
  /\ tasks' = definition
  /\ built' = TRUE
  /\ UNCHANGED <<vars, definition, route, validated, errors>>

\* WorkflowBuilder.add_task: also after build, whose Workflow has the same list.
AddTask ==
  /\ pc = "define" /\ route = "builder"
  /\ Len(tasks) < Len(definition)
  /\ tasks' = Append(tasks, NextEntry)
  /\ UNCHANGED <<vars, definition, route, built, validated, errors>>

BuildWorkflow ==
  /\ pc = "define" /\ route = "builder" /\ ~built
  /\ built' = TRUE
  /\ UNCHANGED <<vars, definition, route, tasks, validated, errors>>

\* The nodes and edges build_dag adds for the tasks: equal names are one node
\* with the dependencies of all of them.
GraphOf(entries) ==
  [n \in NamesOf(entries) |-> UNION {e.dependsOn : e \in {e \in Range(entries) : e.name = n}}]

\* The caller has the workflow planned, as its list of tasks is now.
DryRun ==
  /\ pc = "define" /\ built
  /\ dependsOn' = GraphOf(tasks)
  /\ pc' = "build"
  /\ UNCHANGED <<defVars, inDegree, queue, order, phases, relaxed, dist, pred, path>>

DefineStep ==
  \/ Validate \/ ParseRaises \/ ParseTask \/ ParseReturns
  \/ CreatePipeline \/ AddTask \/ BuildWorkflow \/ DryRun

Next == DefineStep \/ (DryRunStep /\ UNCHANGED defVars)

\* All of it is synchronous code in one caller: it goes on while it can.
Spec == Init /\ [][Next]_allVars /\ WF_allVars(Next)

-----------------------------------------------------------------------------
(* Property *)

\* What validate says, against what parsing and planning come to: a definition
\* without errors is parsed, and if it is planned every one of its entries has
\* its own place in the order; one in which validate found anything but a
\* duplicate is never planned.
ValidationAgrees ==
  validated =>
    /\ errors = {} /\ pc = "raised" => Len(tasks) = Len(definition)
    /\ errors = {} /\ pc = "done" => Len(order) = Len(definition)
    /\ pc \in {"phases", "relax", "walk", "done"} => errors \subseteq {"duplicate"}
=============================================================================
