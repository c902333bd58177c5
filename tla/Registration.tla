---------------------------- MODULE Registration ----------------------------
(***************************************************************************)
(* register_features of the Python client                                   *)
(* (feathr/registry/_feathr_registry_client.py) against the SQL registry.   *)
(* Several processes run scripts that define the same project; each posts   *)
(* its project, then source, anchor and features of one anchor after the    *)
(* other, then its derived features, inputs first.  An object that got an    *)
(* answer keeps the id in _registry_id (here marks) and is skipped by later *)
(* calls of the same process, which knows nothing of the other processes.   *)
(*                                                                         *)
(* The server is SqlRegistry, one of its threads per process.  A connection *)
(* breaks only after the handler has ended: a client that gave up earlier    *)
(* would have to wait for the same handler to tell anything.                *)
(***************************************************************************)
EXTENDS Integers, Sequences, FiniteSets, SequencesExt

CONSTANTS
  Processes,      \* Python processes, each with a server thread of its own
  Project,        \* project_name of the client
  Sources, InputContext,
  Anchors,
  SourceOf,       \* anchor -> source
  FeaturesOf,     \* anchor -> its features, in order
  Derived,        \* the derived features
  InputsOf,       \* derived feature -> input_features
  Defs,           \* what two definitions of a name may differ in
  Notebooks,      \* what users run: [anchors, derived, script], where script
                  \* gives the objects their definitions
  Nothing,        \* no object
  MaxId,          \* bound: entities ever created
  MaxCalls,       \* bound: calls of register_features
  MaxFaults       \* bound: lost answers and failed handlers

Features == UNION {Range(FeaturesOf[a]) : a \in Anchors}
Objects == Sources \cup Anchors \cup Features \cup Derived
Names == {<<o>> : o \in Objects \cup {Project}}

\* An object stands for its name.  No two objects of a project share one, and a
\* feature belongs to one anchor.
ASSUME ObjectsAssumption ==
  /\ InputContext \in Sources
  /\ SourceOf \in [Anchors -> Sources]
  /\ FeaturesOf \in [Anchors -> Seq(Features)]
  /\ InputsOf \in [Derived -> SUBSET (Features \cup Derived)]
  /\ Project \notin Objects /\ Nothing \notin Objects \cup {Project}
ASSUME KindsAssumption ==
  /\ Sources \cap Anchors = {} /\ (Sources \cup Anchors) \cap Features = {}
  /\ (Sources \cup Anchors \cup Features) \cap Derived = {}
  /\ \A a, b \in Anchors : a # b => Range(FeaturesOf[a]) \cap Range(FeaturesOf[b]) = {}
  /\ IsFiniteSet(Features \cup Derived)
ASSUME DefsAssumption == Defs # {}
ASSUME NotebooksAssumption ==
  Notebooks \subseteq [anchors : Seq(Anchors), derived : SUBSET Derived,
                       script : [Objects -> Defs]]
ASSUME LimitsAssumption == MaxCalls \in Nat /\ MaxFaults \in Nat

VARIABLES
  entities, edges, nextId, pc, creating, deleting, reply,  \* of the registry
  script,         \* per process: the definitions its objects have
  marks,          \* per process: object -> _registry_id, 0 while it has none
  project,        \* per process: project_id
  work,           \* per process: sources, anchors and features still to handle
  derived,        \* per process: listed derived features still to handle
  sent,           \* per process: the object its unanswered POST is about
  answer,         \* per process: the guid in the response of the server
  call,           \* per process: how its last call of register_features stands
  faulted,        \* per process: did something break during that call?
  calls, faults   \* numbers of calls and faults so far

registryVars == <<entities, edges, nextId, pc, creating, deleting, reply>>
clientVars == <<script, marks, project, work, derived, sent, call, faulted, calls, faults>>
vars == <<registryVars, clientVars, answer>>

Registry == INSTANCE SqlRegistry WITH
  Threads <- Processes, Parts <- Objects \cup {Project},
  AnyIds <- FALSE, Faults <- MaxFaults > 0,
  MaxInputs <- Cardinality(Features \cup Derived)

Unmarked == [o \in Objects |-> 0]

TypeOK ==
  /\ Registry!TypeOK
  /\ script \in [Processes -> [Objects -> Defs]]
  /\ marks \in [Processes -> [Objects -> Registry!Issued]]
  /\ project \in [Processes -> Registry!Issued]
  /\ work \in [Processes -> Seq(Objects \ Derived)]
  /\ derived \in [Processes -> SUBSET Derived]
  /\ sent \in [Processes -> Objects \cup {Project, Nothing}]
  /\ answer \in [Processes -> Registry!Issued]
  /\ call \in [Processes -> {"new", "running", "returned", "raised"}]
  /\ faulted \in [Processes -> BOOLEAN]
  /\ calls \in 0..MaxCalls /\ faults \in 0..MaxFaults

-----------------------------------------------------------------------------
(* The client *)

AnchorBeforeSource(anchors) ==
  FlattenSeq([i \in DOMAIN anchors |->
                <<anchors[i], SourceOf[anchors[i]]>> \o FeaturesOf[anchors[i]]])

\* The order of the loop over anchor_list: a source comes once per anchor.
AnchorWork(anchors) ==
  FlattenSeq([i \in DOMAIN anchors |->
                <<SourceOf[anchors[i]], anchors[i]>> \o FeaturesOf[anchors[i]]])

\* "We always re-create INPUT_CONTEXT": it is the one object that is posted
\* whether it has an id or not.
Skips(p, o) == o # InputContext /\ marks[p][o] # 0

\* The k-th object is the first one that is not skipped; all are skipped.
Upcoming(p, k) ==
  /\ ~Skips(p, work[p][k])
  /\ \A j \in 1..(k - 1) : Skips(p, work[p][j])
AnchorsDone(p) == \A k \in DOMAIN work[p] : Skips(p, work[p][k])

DerivedTodo(p) == {d \in derived[p] : ~Skips(p, d)}

\* topological_sort puts a derived feature after those of its inputs that are
\* listed (TopologicalSort).
InOrder(p, d) == InputsOf[d] \cap DerivedTodo(p) = {}

\* The anchor a feature belongs to.
AnchorOf(f) == CHOOSE a \in Anchors : f \in Range(FeaturesOf[a])

\* An exception or the end of the loops leaves register_features.
Leave(p, outcome) ==
  /\ call' = [call EXCEPT ![p] = outcome]
  /\ sent' = [sent EXCEPT ![p] = Nothing]
  /\ work' = [work EXCEPT ![p] = <<>>]
  /\ derived' = [derived EXCEPT ![p] = {}]

\* register_features, in a new process or once more in the same one; the
\* client passes the anchors and derived features of its last build_features.
\* The project is posted first.
Call(p) ==
  /\ call[p] # "running"
  /\ calls < MaxCalls
  /\ \E n \in Notebooks :
       /\ \/ marks' = [marks EXCEPT ![p] = Unmarked]
          \/ call[p] # "new" /\ n.script = script[p] /\ UNCHANGED marks
       /\ script' = [script EXCEPT ![p] = n.script]
       /\ work' = [work EXCEPT ![p] = AnchorWork(n.anchors)]
       /\ derived' = [derived EXCEPT ![p] = n.derived]
  /\ sent' = [sent EXCEPT ![p] = Project]
  /\ call' = [call EXCEPT ![p] = "running"]
  /\ faulted' = [faulted EXCEPT ![p] = FALSE]
  /\ calls' = calls + 1
  /\ Registry!Accept(p)
  /\ Registry!CreateProject(p, <<Project>>)
  /\ UNCHANGED <<project, answer, faults>>

PostByName(p, o) ==
  /\ Registry!Accept(p)
  /\ \/ o \in Sources /\ Registry!CreateSource(p, project[p], <<o>>, script[p][o])
     \/ o \in Anchors /\ Registry!CreateAnchor(p, project[p], <<o>>, marks[p][SourceOf[o]])
     \/ /\ o \in Features
        /\ Registry!CreateAnchorFeature(p, project[p], marks[p][AnchorOf(o)], <<o>>, script[p][o])
     \/ /\ o \in Derived
        /\ Registry!CreateDerivedFeature(p, project[p], <<o>>, script[p][o],
             {CHOOSE id \in Registry!Rows : entities[id].name = <<i>> : i \in InputsOf[o]})

\* The request that creates an object: the ids it names are those of the marks.
Post(p, o) ==
  /\ Registry!Accept(p)
  /\ \/ o \in Sources /\ Registry!CreateSource(p, project[p], <<o>>, script[p][o])
     \/ o \in Anchors /\ Registry!CreateAnchor(p, project[p], <<o>>, marks[p][SourceOf[o]])
     \/ /\ o \in Features
        /\ Registry!CreateAnchorFeature(p, project[p], marks[p][AnchorOf(o)], <<o>>, script[p][o])
     \/ /\ o \in Derived
        /\ Registry!CreateDerivedFeature(p, project[p], <<o>>, script[p][o],
                                         {marks[p][i] : i \in InputsOf[o]})

Ready(p) == call[p] = "running" /\ sent[p] = Nothing

Send(p) ==
  /\ Ready(p)
  /\ \E k \in DOMAIN work[p] :
       /\ Upcoming(p, k)
       /\ Post(p, work[p][k])
       /\ work' = [work EXCEPT ![p] = SubSeq(@, k + 1, Len(@))]
       /\ sent' = [sent EXCEPT ![p] = work[p][k]]
  /\ UNCHANGED <<script, marks, project, derived, answer, call, faulted, calls, faults>>

HasIds(p, d) == \A i \in InputsOf[d] : marks[p][i] # 0

SendDerived(p) ==
  /\ Ready(p)
  /\ AnchorsDone(p)
  /\ \E d \in DerivedTodo(p) :
       /\ InOrder(p, d)
       /\ HasIds(p, d)
       /\ Post(p, d)
       /\ derived' = [derived EXCEPT ![p] = @ \ {d}]
       /\ sent' = [sent EXCEPT ![p] = d]
  /\ UNCHANGED <<script, marks, project, work, answer, call, faulted, calls, faults>>

\* derived_feature_to_def asks every input for its _registry_id; one that was
\* not listed, or a copy made by with_key or as_feature, has no such attribute.
InputHasNoId(p) ==
  /\ Ready(p)
  /\ AnchorsDone(p)
  /\ \E d \in DerivedTodo(p) : InOrder(p, d) /\ ~HasIds(p, d)
  /\ Leave(p, "raised")
  /\ UNCHANGED <<registryVars, script, marks, project, answer, faulted, calls, faults>>

Answered(p) == call[p] = "running" /\ sent[p] # Nothing /\ pc[p] = "idle"

\* The response arrives: its guid goes into _registry_id, an error is raised.
Receive(p) ==
  /\ Answered(p)
  /\ reply[p] = 200
  /\ IF sent[p] = Project
     THEN project' = [project EXCEPT ![p] = answer[p]] /\ UNCHANGED marks
     ELSE marks' = [marks EXCEPT ![p][sent[p]] = answer[p]] /\ UNCHANGED project
  /\ sent' = [sent EXCEPT ![p] = Nothing]
  /\ answer' = [answer EXCEPT ![p] = 0]
  /\ UNCHANGED <<registryVars, script, work, derived, call, faulted, calls, faults>>

\* check: any status but 200 raises.
ReceiveError(p) ==
  /\ Answered(p)
  /\ reply[p] # 200
  /\ Leave(p, "raised")
  /\ UNCHANGED <<registryVars, script, marks, project, answer, faulted, calls, faults>>

\* The connection breaks and requests raises: whatever the handler committed
\* stays, and the client does not learn its id.
LoseAnswer(p) ==
  /\ Answered(p)
  /\ faults < MaxFaults
  /\ Leave(p, "raised")
  /\ answer' = [answer EXCEPT ![p] = 0]
  /\ faulted' = [faulted EXCEPT ![p] = TRUE]
  /\ faults' = faults + 1
  /\ UNCHANGED <<registryVars, script, marks, project, calls>>

Return(p) ==
  /\ Ready(p)
  /\ AnchorsDone(p) /\ DerivedTodo(p) = {}
  /\ Leave(p, "returned")
  /\ UNCHANGED <<registryVars, script, marks, project, answer, faulted, calls, faults>>

-----------------------------------------------------------------------------
(* The server *)

AnswersNextId(p) ==
  /\ Registry!Step(p)
  /\ answer' = [answer EXCEPT ![p] = IF reply'[p] = 200 THEN nextId' ELSE 0]
  /\ UNCHANGED clientVars

\* A handler runs on; the guid it returns is that of the row it commits, or of
\* the row of the project it found.
Serve(p) ==
  /\ Registry!Step(p)
  /\ answer' = [answer EXCEPT ![p] =
                  IF nextId' # nextId THEN nextId
                  ELSE IF reply'[p] = 200
                       THEN CHOOSE id \in Registry!Named(creating[p].qn) : TRUE
                       ELSE 0]
  /\ UNCHANGED clientVars

Break(p) ==
  /\ faults < MaxFaults
  /\ Registry!Fail(p)
  /\ faulted' = [faulted EXCEPT ![p] = TRUE]
  /\ faults' = faults + 1
  /\ UNCHANGED <<answer, script, marks, project, work, derived, sent, call, calls>>

Init ==
  /\ Registry!Init
  /\ script = [p \in Processes |-> [o \in Objects |-> CHOOSE d \in Defs : TRUE]]
  /\ marks = [p \in Processes |-> Unmarked]
  /\ project = [p \in Processes |-> 0]
  /\ work = [p \in Processes |-> <<>>]
  /\ derived = [p \in Processes |-> {}]
  /\ sent = [p \in Processes |-> Nothing]
  /\ answer = [p \in Processes |-> 0]
  /\ call = [p \in Processes |-> "new"]
  /\ faulted = [p \in Processes |-> FALSE]
  /\ calls = 0 /\ faults = 0

Client(p) ==
  Send(p) \/ SendDerived(p) \/ InputHasNoId(p) \/ Receive(p) \/ ReceiveError(p) \/ Return(p)

Next ==
  \E p \in Processes : Call(p) \/ Client(p) \/ LoseAnswer(p) \/ Serve(p) \/ Break(p)

Spec == Init /\ [][Next]_vars

-----------------------------------------------------------------------------
(* Properties *)

Rows == Registry!Rows

\* What the client's objects say an entity is made from.
Uses(o) ==
  CASE o \in Anchors -> {SourceOf[o]}
    [] o \in Features -> {SourceOf[AnchorOf(o)]}
    [] o \in Derived -> InputsOf[o]
    [] OTHER -> {}

\* The id an object keeps leads to an entity of its name and definition, which
\* consumes entities of the names and definitions the object's inputs have in this
\* process: what a process registered is not mixed up with what another process,
\* with other definitions of the same names, registers at the same time
\* (_registry_id, _feathr_registry_client.py:103-114).
LineageAsWritten ==
  \A p \in Processes : \A o \in Objects :
    LET id == marks[p][o]
        as(i, x) == /\ entities[i].name = <<x>>
                    /\ x \in Anchors \/ entities[i].def = script[p][x]
        inputs == Registry!Neighbors({id}, "Consumes")
    IN id # 0 =>
         /\ id \in Rows /\ as(id, o)
         /\ inputs \subseteq Rows
         /\ \A i \in inputs : \E u \in Uses(o) : as(i, u)
         /\ \A u \in Uses(o) : \E i \in inputs : as(i, u)

\* At every moment GET /projects/{project} finds whatever the anchors and derived
\* features of a project use among its children (get_project, db_registry.py:229),
\* however the calls of several processes interleave and wherever they stop.
EveryProjectReadable ==
  \A id \in Registry!OfType({"Project"}) : Registry!ProjectReadable(id)

\* After a call that returned, everything the process has ids for is in the
\* project it worked on ("Check project lineage by this link",
\* _feathr_registry_client.py:116).
ReturnedIsInProject ==
  \A p \in Processes : call[p] = "returned" =>
    \A o \in Objects : marks[p][o] # 0 =>
      <<project[p], marks[p][o], "Contains">> \in edges

\* The qualified name the server gives to what is being posted.
PostedName(p) ==
  LET o == sent[p] IN
  CASE o = Project -> <<Project>>
    [] o \in Features -> <<Project, AnchorOf(o), o>>
    [] OTHER -> <<Project, o>>

\* A call fails only when something broke during it, when the rows of a name have
\* already multiplied ("Data inconsistency detected", db_registry.py:427), when the
\* registry holds another definition of the name, or when an input of a derived
\* feature was never registered.  In particular a call that lost an answer can be
\* repeated in the same process.
RaisesForAReason ==
  [][\A p \in Processes : call[p] = "running" /\ call'[p] = "raised" =>
       LET same == Registry!Named(PostedName(p)) IN
       \/ faulted'[p]
       \/ sent[p] = Nothing /\ \E d \in derived[p] : \E i \in InputsOf[d] : marks[p][i] = 0
       \/ sent[p] # Nothing /\ reply[p] = 500 /\ Cardinality(same) > 1
       \/ /\ sent[p] \in Objects /\ reply[p] = 409
          /\ \E id \in same : entities[id].def # script[p][sent[p]]]_vars

=============================================================================
