---------------------------- MODULE SqlRegistry ----------------------------
(***************************************************************************)
(* The SQL feature registry (registry/sql-registry) as its worker threads  *)
(* see it.  FastAPI runs every handler of main.py on a thread pool over one *)
(* DbRegistry; a handler is a sequence of SQL statements, each reading the  *)
(* committed rows of the moment (READ COMMITTED), and its writes appear in  *)
(* the tables at a commit.  One action below is one such statement, or a    *)
(* group of reads whose result is the same as if they were taken at once.   *)
(*                                                                         *)
(* Entity ids are random UUIDs in the code; here they are numbered in the   *)
(* order the rows are committed, and 0 is a UUID no entity ever had.        *)
(* A qualified name is the parts the code joins with "__", so a name that   *)
(* itself holds "__" is a sequence of several parts.                        *)
(***************************************************************************)
EXTENDS Integers, Sequences, FiniteSets

CONSTANTS
  Threads,        \* worker threads of the server
  Parts,          \* what qualified names are built from
  Names,          \* the names requests use: sequences of parts
  Defs,           \* the contents two definitions of one name may differ in
  AnyIds,         \* may a request pass an id whatever it is the id of?
  MaxId,          \* bound: entities ever created
  MaxInputs,      \* bound: inputs of one derived feature
  Faults          \* may a database error or a restart end a handler?

ASSUME NamesAssumption == Names \subseteq Seq(Parts) \ {<<>>}
ASSUME DefsAssumption == Defs # {}
ASSUME BoundsAssumption == MaxId \in Nat /\ MaxInputs \in Nat
ASSUME SwitchesAssumption == AnyIds \in BOOLEAN /\ Faults \in BOOLEAN

VARIABLES
  entities,       \* table entities: id -> [type, qn, name, def]
  edges,          \* table edges: <<from_id, to_id, conn_type>>
  nextId,         \* the next id in creation order
  pc,             \* per thread: the statement it runs next
  creating,       \* per thread: the row a POST handler is about to insert
  deleting,       \* per thread: the locals of a DELETE handler
  reply           \* per thread: status code of its last response, 0 while busy

vars == <<entities, edges, nextId, pc, creating, deleting, reply>>
tables == <<entities, edges, nextId>>

-----------------------------------------------------------------------------
(* Types *)

EntityType == {"Project", "Source", "Anchor", "AnchorFeature", "DerivedFeature"}
FeatureTypes == {"AnchorFeature", "DerivedFeature"}
RelationshipType == {"Contains", "BelongsTo", "Consumes", "Produces"}

\* The ids a request or an edge can hold: 0 and those given out so far.
Issued == 0..(nextId - 1)

Entity == [type : EntityType, qn : Seq(Parts), name : Seq(Parts), def : Defs]

Creation == [type : EntityType, qn : Seq(Parts), name : Seq(Parts), def : Defs,
             owners : SUBSET Issued, inputs : SUBSET Issued]

Deletion == [target : Issued, goal : {"none", "dependents", "probe", "recheck"},
             rel : RelationshipType, start : Issued,
             frontier : SUBSET Issued, seen : SUBSET Issued,
             anchors : SUBSET Issued, sources : SUBSET Issued]

CreatePcs == {"check", "refs", "commit"}
DeletePcs == {"bfs", "purge", "edges", "row"}
Codes == {0, 200, 400, 404, 409, 412, 500}

\* Two definitions of a project or of an anchor differ in their name only.
AnyDef == CHOOSE d \in Defs : TRUE

NoCreation == [type |-> "Project", qn |-> <<>>, name |-> <<>>, def |-> AnyDef,
               owners |-> {}, inputs |-> {}]
NoDeletion == [target |-> 0, goal |-> "none", rel |-> "Contains", start |-> 0,
               frontier |-> {}, seen |-> {}, anchors |-> {}, sources |-> {}]

TypeOK ==
  /\ nextId \in Nat \ {0}
  /\ DOMAIN entities \subseteq 1..(nextId - 1)
  /\ entities \in [DOMAIN entities -> Entity]
  /\ edges \subseteq Issued \X Issued \X RelationshipType
  /\ pc \in [Threads -> {"idle"} \cup CreatePcs \cup DeletePcs]
  /\ creating \in [Threads -> Creation]
  /\ deleting \in [Threads -> Deletion]
  /\ reply \in [Threads -> Codes]

-----------------------------------------------------------------------------
(* Reading the tables *)

Rows == DOMAIN entities
OfType(types) == {id \in Rows : entities[id].type \in types}
Named(qn) == {id \in Rows : entities[id].qn = qn}

\* get_entity_id: a UUID is taken as it is, row or no row; a name becomes the id
\* of a row that has it.  A project is named by its clients; the registry checks
\* neither that the entity is a project nor that an anchor belongs to it.
Args(types) == IF AnyIds THEN Issued ELSE OfType(types) \cup {0}

\* get_neighbors: the ids one edge of type rel away from a set of ids.
Neighbors(ids, rel) ==
  {to \in Issued : \E from \in ids : <<from, to, rel>> \in edges}

\* get_entity: the row exists, and _fill_entity can complete it.  Only an
\* anchor can fail there: it takes the first Consumes edge and reads the
\* source at its end.
Readable(id) ==
  /\ id \in Rows
  /\ entities[id].type = "Anchor" =>
       \E source \in Neighbors({id}, "Consumes") : source \in Rows

\* The project a request names next to an anchor; one that cannot be read may
\* come with any.
ProjectArgsFor(anchor) ==
  IF AnyIds \/ ~Readable(anchor) THEN Issued
  ELSE {p \in OfType({"Project"}) : <<p, anchor, "Contains">> \in edges}

\* get_project looks everything it meets up among the children of the project:
\* the features and the source of each anchor, the inputs of each derived feature.
ProjectReadable(project) ==
  LET children == Neighbors({project}, "Contains") \cap Rows IN
  /\ project \in Rows
  /\ \A id \in children :
       CASE entities[id].type = "Anchor" ->
              /\ Neighbors({id}, "Consumes") # {}
              /\ Neighbors({id}, "Consumes") \cup Neighbors({id}, "Contains") \subseteq children
         [] entities[id].type = "DerivedFeature" -> Neighbors({id}, "Consumes") \subseteq children
         [] OTHER -> TRUE

DependentsByContains(type) == "Contains"

\* The relation get_dependent_entities follows from an entity of each type.
DependentsBy(type) ==
  IF type \in {"Project", "Anchor"} THEN "Contains" ELSE "Produces"

SameTypeOnly(id, job) == entities[id].type = job.type

\* __check_queue_version1 compares what is stored with what is asked for, the
\* name first: "p__a" and "b" join to the same qualified name as "p" and "a__b".
\* An anchor is compared by name only, and a project by type only.
SameDefinition(id, job) ==
  /\ entities[id].type = job.type
  /\ job.type = "Project" \/ entities[id].name = job.name
  /\ job.type \in {"Project", "Anchor"} \/ entities[id].def = job.def

Finish(t, code) ==
  /\ pc' = [pc EXCEPT ![t] = "idle"]
  /\ creating' = [creating EXCEPT ![t] = NoCreation]
  /\ deleting' = [deleting EXCEPT ![t] = NoDeletion]
  /\ reply' = [reply EXCEPT ![t] = code]

Goto(t, label) ==
  /\ pc' = [pc EXCEPT ![t] = label]
  /\ reply' = [reply EXCEPT ![t] = 0]

Continue(t, label, job) ==
  /\ Goto(t, label)
  /\ deleting' = [deleting EXCEPT ![t] = job]
  /\ UNCHANGED creating

Advance(t, label) == Goto(t, label) /\ UNCHANGED <<creating, deleting>>

Start(t, job) ==
  /\ Goto(t, "check")
  /\ creating' = [creating EXCEPT ![t] = job]
  /\ UNCHANGED deleting

-----------------------------------------------------------------------------
(* POST handlers.  The first statement of each reads the parent entity, and *)
(* answers 404 when it cannot; nothing is kept of it but its qualified name *)
(* and, for an anchor, its source.                                          *)

\* A thread takes a request; there is room for what those under way create.
Accept(t) ==
  /\ pc[t] = "idle"
  /\ nextId + Cardinality({u \in Threads : pc[u] \in CreatePcs}) <= MaxId
  /\ UNCHANGED tables

CreateProject(t, name) ==
  Start(t, [type |-> "Project", qn |-> name, name |-> name, def |-> AnyDef,
            owners |-> {}, inputs |-> {}])

CreateSource(t, project, name, def) ==
  \/ /\ Readable(project)
     /\ Start(t, [type |-> "Source", qn |-> entities[project].qn \o name,
                  name |-> name, def |-> def, owners |-> {project}, inputs |-> {}])
  \/ ~Readable(project) /\ Finish(t, 404)

CreateAnchor(t, project, name, source) ==
  \/ /\ Readable(project)
     /\ Start(t, [type |-> "Anchor", qn |-> entities[project].qn \o name,
                  name |-> name, def |-> AnyDef, owners |-> {project}, inputs |-> {source}])
  \/ ~Readable(project) /\ Finish(t, 404)

FeatureOfAnchorOnly(t, project, anchor, name, def) ==
  \/ /\ Readable(anchor)
     /\ Start(t, [type |-> "AnchorFeature", qn |-> entities[anchor].qn \o name,
                  name |-> name, def |-> def, owners |-> {anchor},
                  inputs |-> IF entities[anchor].type = "Anchor"
                             THEN Neighbors({anchor}, "Consumes") ELSE {}])
  \/ ~Readable(anchor) /\ Finish(t, 404)

\* The features of an anchor consume the source the anchor has now; an entity
\* that is no anchor has none, which Check finds out.
CreateAnchorFeature(t, project, anchor, name, def) ==
  \/ /\ Readable(anchor)
     /\ Start(t, [type |-> "AnchorFeature", qn |-> entities[anchor].qn \o name,
                  name |-> name, def |-> def, owners |-> {project, anchor},
                  inputs |-> IF entities[anchor].type = "Anchor"
                             THEN Neighbors({anchor}, "Consumes") ELSE {}])
  \/ ~Readable(anchor) /\ Finish(t, 404)

CreateDerivedFeature(t, project, name, def, inputs) ==
  \/ /\ Readable(project)
     /\ Start(t, [type |-> "DerivedFeature",
                  qn |-> entities[project].qn \o name, name |-> name,
                  def |-> def, owners |-> {project}, inputs |-> inputs])
  \/ ~Readable(project) /\ Finish(t, 404)

\* The requests a client may send.
NewProject(t) == Accept(t) /\ \E name \in Names : CreateProject(t, name)

NewSource(t) ==
  /\ Accept(t)
  /\ \E project \in Args({"Project"}), name \in Names, def \in Defs :
       CreateSource(t, project, name, def)

NewAnchor(t) ==
  /\ Accept(t)
  /\ \E project \in Args({"Project"}), name \in Names, source \in Args({"Source"}) :
       CreateAnchor(t, project, name, source)

NewAnchorFeature(t) ==
  /\ Accept(t)
  /\ \E anchor \in Args({"Anchor"}), name \in Names, def \in Defs :
       \E project \in ProjectArgsFor(anchor) :
         CreateAnchorFeature(t, project, anchor, name, def)

NewDerivedFeature(t) ==
  /\ Accept(t)
  /\ \E project \in Args({"Project"}), name \in Names, def \in Defs,
        inputs \in {s \in SUBSET Args(FeatureTypes) : Cardinality(s) <= MaxInputs} :
       CreateDerivedFeature(t, project, name, def, inputs)

\* "Data inconsistency detected": the assertion on the rows of one name.
Ambiguous(rows) == Cardinality(rows) > 1

NeverReturns(job) == FALSE

\* Only create_project returns the id of the row it found.  The other handlers
\* drop what __check_queue_version1 returns and insert a second row.
ReturnsExisting(job) == job.type = "Project"

\* What follows a name check that found no conflict.
Proceed(t, job) ==
  \/ job.type \in {"Project", "Source"} /\ Advance(t, "commit")
  \/ job.type \in {"Anchor", "DerivedFeature"} /\ Advance(t, "refs")
  \/ job.type = "AnchorFeature" /\ job.inputs # {} /\ Advance(t, "commit")
  \/ job.type = "AnchorFeature" /\ job.inputs = {} /\ Finish(t, 500)

\* The rows of the qualified name are read and compared with the request.
Check(t) ==
  LET job == creating[t]
      same == Named(job.qn)
  IN
  /\ pc[t] = "check"
  /\ \/ Ambiguous(same) /\ Finish(t, 500)
     \/ /\ ~Ambiguous(same)
        /\ \E id \in same : ~SameDefinition(id, job)
        /\ Finish(t, 409)
     \/ /\ ~Ambiguous(same)
        /\ \A id \in same : SameDefinition(id, job)
        /\ IF same # {} /\ ReturnsExisting(job)
           THEN Finish(t, 200) ELSE Proceed(t, job)
  /\ UNCHANGED tables

RefsUnchecked(job) == TRUE

\* The source of an anchor and the inputs of a derived feature must be rows of
\* the right type at this moment; nothing keeps them there.
RefsExist(job) ==
  job.inputs \subseteq OfType(IF job.type = "Anchor" THEN {"Source"}
                              ELSE FeatureTypes)

CheckRefs(t) ==
  /\ pc[t] = "refs"
  /\ IF RefsExist(creating[t]) THEN Advance(t, "commit") ELSE Finish(t, 400)
  /\ UNCHANGED tables

\* _create_edge, called in pairs: every edge is stored in both directions.
BothWays(pairs, there, back) ==
  {<<p[1], p[2], there>> : p \in pairs} \cup {<<p[2], p[1], back>> : p \in pairs}

EdgesOffByOne(id, owners, inputs) ==
  BothWays(owners \X {id + 1}, "Contains", "BelongsTo")
    \cup BothWays({id} \X inputs, "Consumes", "Produces")

ContainsTwice(id, owners, inputs) ==
  BothWays(owners \X {id}, "Contains", "Contains")
    \cup BothWays({id} \X inputs, "Consumes", "Produces")

NewEdges(id, owners, inputs) ==
  BothWays(owners \X {id}, "Contains", "BelongsTo")
    \cup BothWays({id} \X inputs, "Consumes", "Produces")

\* flush and commit: the row and all its edges appear together.
Commit(t) ==
  LET job == creating[t] IN
  /\ pc[t] = "commit"
  /\ entities' = [id \in Rows \cup {nextId} |->
                    IF id = nextId THEN [type |-> job.type, qn |-> job.qn,
                                         name |-> job.name, def |-> job.def]
                    ELSE entities[id]]
  /\ edges' = edges \cup NewEdges(nextId, job.owners, job.inputs)
  /\ nextId' = nextId + 1
  /\ Finish(t, 200)

-----------------------------------------------------------------------------
(* DELETE /entity/{entity} *)

\* _bfs from an id along one relation, with nothing but the id seen yet.
Search(job, goal, start, rel) ==
  [job EXCEPT !.goal = goal, !.start = start, !.rel = rel,
              !.frontier = {start}, !.seen = {start}]

\* get_dependent_entities reads the entity, then searches from it.
FindDependents(t, job, goal) ==
  \/ /\ Readable(job.target)
     /\ Continue(t, "bfs", Search(job, goal, job.target,
                                  DependentsBy(entities[job.target].type)))
  \/ ~Readable(job.target) /\ Finish(t, 404)

NewDeletion(t) ==
  /\ pc[t] = "idle"
  /\ \E id \in Issued :
       FindDependents(t, [NoDeletion EXCEPT !.target = id], "dependents")
  /\ UNCHANGED tables

\* _bfs_step: one query for the edges that leave the frontier.  There is no
\* visited set: the loop ends when a query returns nothing.
BfsStep(t) ==
  LET job == deleting[t]
      next == Neighbors(job.frontier, job.rel)
  IN
  /\ pc[t] = "bfs"
  /\ job.frontier # {}
  /\ Continue(t, "bfs", [job EXCEPT !.frontier = next, !.seen = @ \cup next])
  /\ UNCHANGED tables

\* delete_entity of the target, or of an empty anchor or source.
DeleteRow(t, job) == Continue(t, "edges", job)

\* The search from an entity finds the entity itself and nothing else.
IsEmpty(found) == Cardinality(found) = 1

\* The search is over: get_entities reads the rows that are still there, and
\* fails like get_entity when one of them is an anchor without its source.
BfsDone(t) ==
  LET job == deleting[t]
      found == job.seen \cap Rows
      others == found \ {job.start}
  IN
  /\ pc[t] = "bfs"
  /\ job.frontier = {}
  /\ \/ /\ \E id \in found : ~Readable(id)
        /\ Finish(t, 404)
     \/ /\ \A id \in found : Readable(id)
        /\ \/ /\ job.goal \in {"dependents", "recheck"} /\ others = {}
              /\ DeleteRow(t, job)
           \/ /\ job.goal = "dependents" /\ others # {}
              /\ Continue(t, "purge",
                   [job EXCEPT !.anchors = others \cap OfType({"Anchor"}),
                               !.sources = others \cap OfType({"Source"})])
           \/ /\ job.goal = "recheck" /\ others # {}
              /\ Finish(t, 412)
           \/ /\ job.goal = "probe" /\ IsEmpty(found)
              /\ DeleteRow(t, job)
           \/ /\ job.goal = "probe" /\ ~IsEmpty(found)
              /\ Continue(t, "purge", job)
  /\ UNCHANGED tables

SourcesFirst(job) == IF job.sources # {} THEN job.sources ELSE job.anchors

\* delete_empty_entities looks at the anchors among the dependents, then at the
\* sources, one after the other, in the order the query returned them.
ToProbe(job) == IF job.anchors # {} THEN job.anchors ELSE job.sources

\* An anchor that contains nothing or a source that produces nothing goes; after
\* the last one the endpoint looks for dependents again.
Purge(t) ==
  LET job == deleting[t]
      rel(id) == IF id \in job.anchors THEN "Contains" ELSE "Produces"
  IN
  /\ pc[t] = "purge"
  /\ \/ \E id \in ToProbe(job) :
          Continue(t, "bfs",
            Search([job EXCEPT !.anchors = @ \ {id}, !.sources = @ \ {id}],
                   "probe", id, rel(id)))
     \/ ToProbe(job) = {} /\ FindDependents(t, job, "recheck")
  /\ UNCHANGED tables

OnlyOutgoing(id) == {e \in edges : e[1] # id}

\* The edges that do not touch an entity.
EdgesWithout(id) == {e \in edges : id \notin {e[1], e[2]}}

\* _delete_all_entity_edges, which commits.
DeleteEdges(t) ==
  LET job == deleting[t] IN
  /\ pc[t] = "edges"
  /\ edges' = EdgesWithout(job.start)
  /\ Continue(t, "row", job)
  /\ UNCHANGED <<entities, nextId>>

\* _delete_entity, which commits again.
DeleteEntityRow(t) ==
  LET job == deleting[t] IN
  /\ pc[t] = "row"
  /\ entities' = [id \in Rows \ {job.start} |-> entities[id]]
  /\ \/ job.goal = "probe" /\ Continue(t, "purge", job)
     \/ job.goal # "probe" /\ Finish(t, 200)
  /\ UNCHANGED <<edges, nextId>>

-----------------------------------------------------------------------------
\* The database refuses a statement, or the server stops: the session rolls
\* back to its last commit and the locals of the handler are lost.
Fail(t) ==
  /\ Faults
  /\ pc[t] # "idle"
  /\ Finish(t, 500)
  /\ UNCHANGED tables

Init ==
  /\ entities = [id \in {} |-> {}]
  /\ edges = {}
  /\ nextId = 1
  /\ pc = [t \in Threads |-> "idle"]
  /\ creating = [t \in Threads |-> NoCreation]
  /\ deleting = [t \in Threads |-> NoDeletion]
  /\ reply = [t \in Threads |-> 0]

Request(t) ==
  \/ NewProject(t) \/ NewSource(t) \/ NewAnchor(t)
  \/ NewAnchorFeature(t) \/ NewDerivedFeature(t) \/ NewDeletion(t)

Step(t) ==
  \/ Check(t) \/ CheckRefs(t) \/ Commit(t)
  \/ BfsStep(t) \/ BfsDone(t) \/ Purge(t)
  \/ DeleteEdges(t) \/ DeleteEntityRow(t)

Next == \E t \in Threads : Request(t) \/ Step(t) \/ Fail(t)

Spec == Init /\ [][Next]_vars

\* A worker thread runs its handler on; nobody has to send a request.
FairSpec == Spec /\ \A t \in Threads : WF_vars(Step(t))

-----------------------------------------------------------------------------
(* Properties *)

\* Every relation is stored both ways, or not at all: what Contains (Produces)
\* says, BelongsTo (Consumes) says backwards.  A commit adds both directions of
\* a pair and a delete of either end removes both, whatever runs in between.
Mirrored ==
  \A a, b \in Issued :
    /\ <<a, b, "Contains">> \in edges <=> <<b, a, "BelongsTo">> \in edges
    /\ <<a, b, "Produces">> \in edges <=> <<b, a, "Consumes">> \in edges

\* Downstream edges lead from an older entity to a younger one.  _bfs has no
\* visited set ("There is no depth limit", db_registry.py:1027), so that it
\* ends rests on this.
EdgesByAge ==
  \A e \in edges : e[3] \in {"Contains", "Produces"} => e[1] < e[2]

\* Outside a DELETE handler every entity can be read: get_entity of an anchor
\* finds its source (db_registry.py:936-939).
EveryEntityReadable ==
  (\A t \in Threads : pc[t] \notin DeletePcs) => \A id \in Rows : Readable(id)

\* Rows that share a name are copies of one definition: the name check keeps
\* anything else out (db_registry.py:430-446).
DuplicatesAgree ==
  \A i, j \in Rows : entities[i].qn = entities[j].qn =>
    /\ entities[i].type = entities[j].type /\ entities[i].name = entities[j].name
    /\ entities[i].type # "Anchor" => entities[i].def = entities[j].def

\* A delete is refused (412) only for something that had to stay: a feature
\* downstream of the target, or an anchor or source there that an entity which
\* is not downstream of the target uses.  Whatever was merely empty is gone.
RefusalIsJustified ==
  [][\A t \in Threads : reply'[t] = 412 /\ reply[t] # 412 =>
       \E id \in deleting[t].seen \cap Rows :
         \/ entities[id].type \in FeatureTypes
         \/ (Neighbors({id}, "Produces") \cap Rows) \ deleting[t].seen # {}]_vars

\* An entity whose edges a DELETE cuts has nothing downstream of it at that
\* moment ("Deletes entity if it has no dependent entities", client.py:348).
DeletesOnlyUnused ==
  [][\A t \in Threads : pc[t] = "edges" /\ pc'[t] = "row" =>
       Neighbors({deleting[t].start}, deleting[t].rel) \cap Rows = {}]_vars

\* Every handler ends with a response.
EveryRequestAnswered ==
  \A t \in Threads : pc[t] # "idle" ~> pc[t] = "idle"

\* The registry implements LineageStore.  A node leaves it when its edges are
\* cut, and refers to what contains it and to what it consumes.
Leaving == {deleting[t].start : t \in {u \in Threads : pc[u] = "row"}}
Lineage == INSTANCE LineageStore WITH
  nodes <- Rows \ Leaving,
  refs <- {<<e[1], e[2]>> : e \in {f \in edges : f[3] \in {"BelongsTo", "Consumes"}}},
  fresh <- nextId
ImplementsLineageStore == Lineage!Spec

=============================================================================
