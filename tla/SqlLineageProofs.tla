-------------------------- MODULE SqlLineageProofs --------------------------
(***************************************************************************)
(* What the SQL registry promises when one request follows another: its     *)
(* entities can be read, a DELETE takes only what nothing uses and refuses   *)
(* only what something uses, and it implements LineageStore.  None of this   *)
(* holds with two threads, with an error between the two commits of a        *)
(* delete, or with ids of entities of another type.                          *)
(***************************************************************************)
EXTENDS SqlRegistryProofs, FiniteSetTheorems

USE DEF tables

\* What the theorems of this module assume: one worker thread, clients that pass
\* ids of entities of the right type, no database error and no restart.
Undisturbed ==
  /\ \E t : Threads = {t}
  /\ AnyIds = FALSE /\ Faults = FALSE

-----------------------------------------------------------------------------
(* The invariant *)

\* The types of the ends of a Contains edge, and of a Produces edge.
MayContain(owner, child) ==
  \/ owner = "Project" /\ child # "Project"
  \/ owner = "Anchor" /\ child = "AnchorFeature"
MayProduce(input, user) ==
  \/ input = "Source" /\ user \in {"Anchor", "AnchorFeature"}
  \/ input \in FeatureTypes /\ user = "DerivedFeature"

EndsExist == \A e \in edges : e[1] \in Rows /\ e[2] \in Rows

EdgesByType ==
  \A a, b \in Rows :
    /\ <<a, b, "Contains">> \in edges => MayContain(entities[a].type, entities[b].type)
    /\ <<a, b, "Produces">> \in edges => MayProduce(entities[a].type, entities[b].type)

\* A feature of an anchor consumes what the anchor consumes.
FeaturesFollowAnchor ==
  \A s, a, f \in Rows :
    <<s, a, "Produces">> \in edges /\ <<a, f, "Contains">> \in edges
      => <<s, f, "Produces">> \in edges

AnchorsHaveSource ==
  \A a \in Rows \ Leaving :
    entities[a].type = "Anchor" => \E s \in Rows : <<a, s, "Consumes">> \in edges

TablesOK ==
  EndsExist /\ EdgesByType /\ FeaturesFollowAnchor /\ AnchorsHaveSource

\* The row a POST is about to insert, the ends of its edges, and what the name
\* check and the check of the inputs have shown.
CreationOK(job, label) ==
  /\ \A o \in job.owners : o \in Rows /\ MayContain(entities[o].type, job.type)
  /\ \/ job.type \in {"Anchor", "DerivedFeature"} /\ label # "commit"
     \/ \A i \in job.inputs : i \in Rows /\ MayProduce(entities[i].type, job.type)
  /\ job.type = "Anchor" => job.inputs # {}
  /\ job.type = "AnchorFeature" =>
       \A o \in job.owners : entities[o].type = "Anchor" => job.inputs = Neighbors({o}, "Consumes")
  /\ label # "check" =>
       /\ \A id \in Named(job.qn) : SameDefinition(id, job)
       /\ job.type = "Project" => Named(job.qn) = {}

\* The search of a DELETE has seen what it started from, and of the rest what one
\* edge leads to; what it has left behind leads to nothing else.
SearchOK(job) ==
  /\ job.start \in job.seen /\ job.frontier \subseteq job.seen
  /\ \A a \in job.seen \ job.frontier, b \in Rows :
       <<a, b, job.rel>> \in edges => b \in job.seen
  /\ \A b \in job.seen \ {job.start} : \E a \in job.seen : <<a, b, job.rel>> \in edges
  /\ \/ job.seen = {job.start} /\ job.frontier \subseteq {job.start}
     \/ \E b \in Rows : <<job.start, b, job.rel>> \in edges

\* Nothing is downstream of an entity whose edges are going to be cut.
Unused(id) ==
  \A b \in Rows : <<id, b, "Contains">> \notin edges /\ <<id, b, "Produces">> \notin edges

Untouched(id) == \A e \in edges : id \notin {e[1], e[2]}

\* An anchor or a source downstream of the target is looked at to see whether it
\* is empty, and removed if so.
Probing(job, label) == job.goal = "probe" /\ label # "purge"

DeletionOK(job, label) ==
  /\ job.goal # "none"
  /\ job.target \in Rows
  /\ job.anchors \subseteq OfType({"Anchor"}) \ {job.target}
  /\ job.sources \subseteq OfType({"Source"}) \ {job.target}
  /\ label # "purge" =>
       /\ job.start \in Rows
       /\ job.rel = DependentsBy(entities[job.start].type)
  /\ job.goal # "probe" /\ label # "purge" => job.start = job.target
  /\ Probing(job, label) =>
       /\ job.start # job.target /\ job.start \notin job.anchors \cup job.sources
       /\ entities[job.start].type \in {"Anchor", "Source"}
       /\ entities[job.start].type = "Source" => job.anchors = {}

\* What was looked at and is still there was not empty, and is not now: anchors
\* come before sources.
ProbedOK(job, label) ==
  \A c \in Rows :
    <<job.target, c, DependentsBy(entities[job.target].type)>> \in edges =>
      /\ entities[c].type = "Anchor" =>
           \/ c \in job.anchors
           \/ Probing(job, label) /\ job.start = c
           \/ \E f \in Rows : <<c, f, "Contains">> \in edges
      /\ entities[c].type = "Source" =>
           \/ c \in job.sources
           \/ Probing(job, label) /\ job.start = c
           \/ /\ job.anchors = {}
              /\ Probing(job, label) => entities[job.start].type = "Source"
              /\ \E u \in Rows : <<c, u, "Produces">> \in edges

DeleteOK(job, label) ==
  /\ DeletionOK(job, label)
  /\ job.goal # "dependents" \/ label = "purge" => ProbedOK(job, label)
  /\ job.goal = "recheck" => job.anchors = {} /\ job.sources = {}
  /\ label = "bfs" => SearchOK(job)
  /\ label = "edges" => Unused(job.start)
  /\ label = "row" => Untouched(job.start)

ThreadOK(t) ==
  /\ pc[t] \in CreatePcs => CreationOK(creating[t], pc[t])
  /\ pc[t] \in DeletePcs => DeleteOK(deleting[t], pc[t])

LineageInv == TablesOK /\ DuplicatesAgree /\ \A t \in Threads : ThreadOK(t)

\* The thread there is, and what is known before each step.
Before(t) ==
  /\ Threads = {t} /\ AnyIds = FALSE /\ Faults = FALSE
  /\ TypeOK /\ Mirrored /\ EdgesByAge /\ LineageInv

-----------------------------------------------------------------------------
(* Frames *)

\* While the tables stay as they are and no row is about to go, what holds of them
\* stays.
LEMMA TablesKept ==
  ASSUME NEW t \in Threads, Before(t), UNCHANGED tables, pc[t] # "row", pc'[t] # "row"
  PROVE TablesOK' /\ DuplicatesAgree'
<1>1. Leaving = {} /\ Leaving' = {}
  BY DEF Before, Leaving
<1>2. TablesOK /\ DuplicatesAgree
  BY DEF Before, LineageInv
<1>3. EndsExist'
  BY <1>2 DEF TablesOK, EndsExist, Rows
<1>4. EdgesByType'
  BY <1>2 DEF TablesOK, EdgesByType, Rows
<1>5. FeaturesFollowAnchor'
  BY <1>2 DEF TablesOK, FeaturesFollowAnchor, Rows
<1>6. AnchorsHaveSource'
  BY <1>1, <1>2 DEF TablesOK, AnchorsHaveSource, Rows
<1>7. DuplicatesAgree'
  BY <1>2 DEF DuplicatesAgree, Rows
<1> QED
  BY <1>3, <1>4, <1>5, <1>6, <1>7 DEF TablesOK

\* A handler that ends leaves nothing to check.
LEMMA FinishOK ==
  ASSUME TypeOK, NEW t \in Threads, NEW code, Finish(t, code)
  PROVE ThreadOK(t)' /\ pc'[t] = "idle"
BY DEF Finish, ThreadOK, CreatePcs, DeletePcs, TypeOK

LEMMA CreationFrame ==
  ASSUME NEW job, NEW label, CreationOK(job, label), UNCHANGED tables
  PROVE CreationOK(job, label)'
BY DEF CreationOK, Rows, Named, Neighbors, Issued, SameDefinition

LEMMA DeleteFrame ==
  ASSUME NEW job, NEW label, DeleteOK(job, label), UNCHANGED tables
  PROVE DeleteOK(job, label)'
<1>1. DeletionOK(job, label)'
  BY DEF DeleteOK, DeletionOK, OfType, Rows, Probing
<1>2. ProbedOK(job, label) => ProbedOK(job, label)'
  BY DEF ProbedOK, Rows, Probing
<1>3. SearchOK(job) => SearchOK(job)'
  BY DEF SearchOK, Rows
<1>4. Unused(job.start) => Unused(job.start)'
  BY DEF Unused, Rows
<1>5. Untouched(job.start) => Untouched(job.start)'
  BY DEF Untouched
<1> QED
  BY <1>1, <1>2, <1>3, <1>4, <1>5 DEF DeleteOK

\* A handler that goes on with a job for which the conditions hold.
LEMMA ContinueOK ==
  ASSUME TypeOK, NEW t \in Threads, NEW label \in DeletePcs, NEW job,
         Continue(t, label, job), DeleteOK(job, label), UNCHANGED tables
  PROVE ThreadOK(t)' /\ pc'[t] = label
<1>1. pc'[t] = label /\ deleting'[t] = job
  BY DEF Continue, Goto, TypeOK
<1>2. DeleteOK(deleting[t], pc[t])'
  BY <1>1, DeleteFrame
<1> QED
  BY <1>1, <1>2 DEF ThreadOK, CreatePcs, DeletePcs

LEMMA StartOK ==
  ASSUME TypeOK, NEW t \in Threads, NEW job, Start(t, job), CreationOK(job, "check"),
         UNCHANGED tables
  PROVE ThreadOK(t)' /\ pc'[t] = "check"
<1>1. pc'[t] = "check" /\ creating'[t] = job
  BY DEF Start, Goto, TypeOK
<1>2. CreationOK(creating[t], pc[t])'
  BY <1>1, CreationFrame
<1> QED
  BY <1>1, <1>2 DEF ThreadOK, CreatePcs, DeletePcs

LEMMA AdvanceOK ==
  ASSUME TypeOK, NEW t \in Threads, NEW label \in CreatePcs, Advance(t, label),
         CreationOK(creating[t], label), UNCHANGED tables
  PROVE ThreadOK(t)' /\ pc'[t] = label
<1>1. pc'[t] = label /\ creating'[t] = creating[t]
  BY DEF Advance, Goto, TypeOK
<1>2. CreationOK(creating[t], pc[t])'
  BY <1>1, CreationFrame
<1> QED
  BY <1>1, <1>2 DEF ThreadOK, CreatePcs, DeletePcs

\* With these, a step that leaves the tables alone keeps the whole invariant.
LEMMA QuietStep ==
  ASSUME NEW t \in Threads, Before(t), UNCHANGED tables,
         pc[t] # "row", pc'[t] # "row", ThreadOK(t)'
  PROVE LineageInv'
BY TablesKept DEF Before, LineageInv

-----------------------------------------------------------------------------
(* POST *)

\* An argument that has a row is of the type it should be of: 0 has none.
LEMMA ArgsOfType ==
  ASSUME NEW t \in Threads, Before(t), NEW types, NEW id \in Args(types), id \in Rows
  PROVE entities[id].type \in types
BY DEF Before, Args, OfType, Rows, TypeOK

\* Of the two directions of a relation, one is looked at.
LEMMA MirroredEnds ==
  ASSUME NEW t \in Threads, Before(t), NEW a, NEW b
  PROVE /\ <<a, b, "Contains">> \in edges <=> <<b, a, "BelongsTo">> \in edges
        /\ <<a, b, "Produces">> \in edges <=> <<b, a, "Consumes">> \in edges
BY DEF Before, Mirrored, TypeOK

LEMMA NewFeatureInputs ==
  ASSUME NEW t \in Threads, Before(t), NEW anchor \in Rows, entities[anchor].type = "Anchor",
         NEW i \in Neighbors({anchor}, "Consumes")
  PROVE i \in Rows /\ MayProduce(entities[i].type, "AnchorFeature")
<1>1. <<anchor, i, "Consumes">> \in edges
  BY DEF Neighbors
<1>2. <<i, anchor, "Produces">> \in edges
  BY <1>1, MirroredEnds
<1>3. i \in Rows /\ MayProduce(entities[i].type, "Anchor")
  BY <1>2 DEF Before, LineageInv, TablesOK, EndsExist, EdgesByType
<1> QED
  BY <1>3 DEF MayProduce, FeatureTypes

LEMMA PostOK ==
  ASSUME NEW t \in Threads, Before(t),
         NewProject(t) \/ NewSource(t) \/ NewAnchor(t) \/ NewAnchorFeature(t)
           \/ NewDerivedFeature(t)
  PROVE ThreadOK(t)' /\ pc[t] # "row" /\ pc'[t] # "row" /\ UNCHANGED tables
<1> USE DEF Before
<1>1. pc[t] # "row" /\ UNCHANGED tables
  BY DEF NewProject, NewSource, NewAnchor, NewAnchorFeature, NewDerivedFeature, Accept
<1>2. ASSUME NEW job, Start(t, job), CreationOK(job, "check")
      PROVE ThreadOK(t)' /\ pc'[t] # "row"
  BY <1>1, <1>2, StartOK
<1>3. ASSUME Finish(t, 404) PROVE ThreadOK(t)' /\ pc'[t] # "row"
  BY <1>3, FinishOK
<1>4. ASSUME NEW type \in {"Source", "Anchor", "DerivedFeature"}, NEW project \in Args({"Project"}),
             Readable(project), NEW qn, NEW name, NEW def, NEW inputs,
             type = "Source" => inputs = {}, type = "Anchor" => inputs # {}
      PROVE CreationOK([type |-> type, qn |-> qn, name |-> name, def |-> def,
                        owners |-> {project}, inputs |-> inputs], "check")
  <2>1. project \in Rows /\ entities[project].type = "Project"
    BY <1>4, ArgsOfType DEF Readable
  <2> QED
    BY <1>4, <2>1 DEF CreationOK, MayContain
<1>5. CASE NewProject(t)
  <2>1. PICK name \in Names :
          Start(t, [type |-> "Project", qn |-> name, name |-> name, def |-> AnyDef,
                    owners |-> {}, inputs |-> {}])
    BY <1>5 DEF NewProject, CreateProject
  <2>2. CreationOK([type |-> "Project", qn |-> name, name |-> name, def |-> AnyDef,
                    owners |-> {}, inputs |-> {}], "check")
    BY DEF CreationOK
  <2> QED
    BY <1>1, <1>2, <2>1, <2>2
<1>6. CASE NewSource(t)
  <2>1. PICK project \in Args({"Project"}), name \in Names, def \in Defs :
          CreateSource(t, project, name, def)
    BY <1>6 DEF NewSource
  <2> QED
    BY <1>1, <1>2, <1>3, <1>4, <2>1 DEF CreateSource
<1>7. CASE NewAnchor(t)
  <2>1. PICK project \in Args({"Project"}), name \in Names, source \in Args({"Source"}) :
          CreateAnchor(t, project, name, source)
    BY <1>7 DEF NewAnchor
  <2> QED
    BY <1>1, <1>2, <1>3, <1>4, <2>1 DEF CreateAnchor
<1>8. CASE NewAnchorFeature(t)
  <2>1. PICK anchor \in Args({"Anchor"}), name \in Names, def \in Defs :
          \E project \in ProjectArgsFor(anchor) :
            CreateAnchorFeature(t, project, anchor, name, def)
    BY <1>8 DEF NewAnchorFeature
  <2>2. PICK project \in ProjectArgsFor(anchor) :
          CreateAnchorFeature(t, project, anchor, name, def)
    BY <2>1
  <2>3. CASE ~Readable(anchor)
    BY <1>1, <1>3, <2>2, <2>3 DEF CreateAnchorFeature
  <2>4. CASE Readable(anchor)
    <3> DEFINE job == [type |-> "AnchorFeature", qn |-> entities[anchor].qn \o name,
                       name |-> name, def |-> def, owners |-> {project, anchor},
                       inputs |-> Neighbors({anchor}, "Consumes")]
    <3>1. anchor \in Rows /\ entities[anchor].type = "Anchor"
      BY <2>4, ArgsOfType DEF Readable
    <3>2. project \in Rows /\ entities[project].type = "Project"
      BY <2>4 DEF ProjectArgsFor, OfType
    <3>3. \A i \in Neighbors({anchor}, "Consumes") :
            i \in Rows /\ MayProduce(entities[i].type, "AnchorFeature")
      BY <3>1, NewFeatureInputs
    <3>4. CreationOK(job, "check")
      BY <3>1, <3>2, <3>3 DEF CreationOK, MayContain
    <3>5. Start(t, job)
      BY <2>2, <2>4, <3>1 DEF CreateAnchorFeature
    <3> QED
      BY <1>1, <1>2, <3>4, <3>5
  <2> QED
    BY <2>3, <2>4
<1>9. CASE NewDerivedFeature(t)
  <2>1. PICK project \in Args({"Project"}), name \in Names, def \in Defs,
             inputs \in {s \in SUBSET Args(FeatureTypes) : Cardinality(s) <= MaxInputs} :
          CreateDerivedFeature(t, project, name, def, inputs)
    BY <1>9 DEF NewDerivedFeature
  <2> QED
    BY <1>1, <1>2, <1>3, <1>4, <2>1 DEF CreateDerivedFeature
<1> QED
  BY <1>5, <1>6, <1>7, <1>8, <1>9

\* What the name check has shown, and what the check of the inputs has shown.
LEMMA CheckOK ==
  ASSUME NEW t \in Threads, Before(t), Check(t) \/ CheckRefs(t)
  PROVE ThreadOK(t)' /\ pc[t] # "row" /\ pc'[t] # "row" /\ UNCHANGED tables
<1> DEFINE job == creating[t]
<1>1. pc[t] # "row" /\ UNCHANGED tables /\ TypeOK /\ job \in Creation
  BY DEF Check, CheckRefs, Before, TypeOK
<1>2. CreationOK(job, pc[t])
  BY DEF Check, CheckRefs, Before, LineageInv, ThreadOK, CreatePcs
<1>3. ASSUME NEW code, Finish(t, code) PROVE ThreadOK(t)' /\ pc'[t] # "row"
  BY <1>1, <1>3, FinishOK
<1>4. ASSUME NEW label \in {"refs", "commit"}, Advance(t, label), CreationOK(job, label)
      PROVE ThreadOK(t)' /\ pc'[t] # "row"
  BY <1>1, <1>4, AdvanceOK DEF CreatePcs
<1>5. CASE Check(t)
  <2> DEFINE same == Named(job.qn)
  <2>1. CASE \E code \in {200, 409, 500} : Finish(t, code)
    BY <1>1, <1>3, <2>1
  <2>2. CASE /\ \A id \in same : SameDefinition(id, job)
             /\ ~(same # {} /\ ReturnsExisting(job)) /\ Proceed(t, job)
    <3>1. ASSUME NEW label \in {"refs", "commit"},
                 label = "commit" => job.type \notin {"Anchor", "DerivedFeature"}
          PROVE CreationOK(job, label)
      BY <1>2, <2>2, <3>1 DEF CreationOK, ReturnsExisting
    <3> QED
      BY <1>1, <1>3, <1>4, <2>2, <3>1 DEF Proceed
  <2> QED
    BY <1>5, <2>1, <2>2 DEF Check
<1>6. CASE CheckRefs(t)
  <2>1. CASE Finish(t, 400)
    BY <1>1, <1>3, <2>1
  <2>2. CASE RefsExist(job) /\ Advance(t, "commit")
    <3>1. pc[t] = "refs"
      BY <1>6 DEF CheckRefs
    <3>2. job.type \in {"Anchor", "DerivedFeature"} =>
            \A i \in job.inputs : i \in Rows /\ MayProduce(entities[i].type, job.type)
      BY <2>2 DEF RefsExist, OfType, MayProduce, FeatureTypes
    <3>3. CreationOK(job, "commit")
      BY <1>2, <3>1, <3>2 DEF CreationOK
    <3> QED
      BY <1>1, <1>4, <2>2, <3>3
  <2> QED
    BY <1>6, <2>1, <2>2 DEF CheckRefs
<1> QED
  BY <1>5, <1>6

\* Downstream edges of a new row end at it, and it consumes its inputs.
LEMMA NewContains ==
  ASSUME NEW id, NEW owners, NEW inputs, NEW a, NEW b,
         <<a, b, "Contains">> \in NewEdges(id, owners, inputs)
  PROVE a \in owners /\ b = id
BY DEF NewEdges, BothWays

LEMMA NewProduces ==
  ASSUME NEW id, NEW owners, NEW inputs, NEW a, NEW b,
         <<a, b, "Produces">> \in NewEdges(id, owners, inputs)
  PROVE a \in inputs /\ b = id
BY DEF NewEdges, BothWays

LEMMA InputProduces ==
  ASSUME NEW id, NEW owners, NEW inputs, NEW i \in inputs
  PROVE <<i, id, "Produces">> \in NewEdges(id, owners, inputs)
<1>1. PICK p \in {id} \X inputs : p[1] = id /\ p[2] = i
  <2>1. <<id, i>> \in {id} \X inputs
    OBVIOUS
  <2> QED
    BY <2>1
<1>2. <<p[2], p[1], "Produces">> \in BothWays({id} \X inputs, "Consumes", "Produces")
  BY DEF BothWays
<1> QED
  BY <1>1, <1>2 DEF NewEdges

LEMMA ConsumesInput ==
  ASSUME NEW id, NEW owners, NEW inputs, NEW i \in inputs
  PROVE <<id, i, "Consumes">> \in NewEdges(id, owners, inputs)
<1>1. PICK p \in {id} \X inputs : p[1] = id /\ p[2] = i
  <2>1. <<id, i>> \in {id} \X inputs
    OBVIOUS
  <2> QED
    BY <2>1
<1>2. <<p[1], p[2], "Consumes">> \in BothWays({id} \X inputs, "Consumes", "Produces")
  BY DEF BothWays
<1> QED
  BY <1>1, <1>2 DEF NewEdges

\* The new row is of the type its edges were made for, and a copy of the rows of its
\* name.
LEMMA CommitOK ==
  ASSUME NEW t \in Threads, Before(t), Commit(t)
  PROVE LineageInv'
<1> DEFINE job == creating[t]
           new == [type |-> job.type, qn |-> job.qn, name |-> job.name, def |-> job.def]
           added == NewEdges(nextId, job.owners, job.inputs)
<1>1. TypeOK /\ TablesOK /\ DuplicatesAgree /\ CreationOK(job, "commit")
  BY DEF Before, LineageInv, ThreadOK, Commit, CreatePcs
<1>2. nextId \notin Rows
  BY <1>1 DEF TypeOK, Rows
<1>3. /\ Rows' = Rows \cup {nextId}
      /\ \A id \in Rows : entities'[id] = entities[id]
      /\ entities'[nextId] = new
  BY <1>2 DEF Commit, Rows
<1>4. edges' = edges \cup added
  BY DEF Commit
<1>5. /\ \A a, b : <<a, b, "Contains">> \in added => a \in job.owners /\ b = nextId
      /\ \A a, b : <<a, b, "Produces">> \in added => a \in job.inputs /\ b = nextId
      /\ \A a \in job.inputs : <<a, nextId, "Produces">> \in added
      /\ \A a \in job.inputs : <<nextId, a, "Consumes">> \in added
  BY NewContains, NewProduces, InputProduces, ConsumesInput
<1> HIDE DEF added, job
<1>6. Finish(t, 200) /\ Threads = {t}
  BY DEF Commit, Before
<1>7. ThreadOK(t)' /\ Leaving = {} /\ Leaving' = {}
  <2>1. pc'[t] = "idle" /\ pc[t] = "commit"
    BY <1>1, <1>6, FinishOK DEF Commit
  <2> QED
    BY <1>1, <1>6, <2>1, FinishOK DEF Leaving
<1>8. \A i \in job.owners \cup job.inputs : i \in Rows
  BY <1>1 DEF CreationOK
<1>9. EndsExist'
  <2>1. \A e \in added : e[1] \in Rows \cup {nextId} /\ e[2] \in Rows \cup {nextId}
    BY <1>8 DEF added, NewEdges, BothWays
  <2> QED
    BY <1>1, <1>3, <1>4, <2>1 DEF TablesOK, EndsExist
<1>10. EdgesByType'
  <2> SUFFICES ASSUME NEW a \in Rows', NEW b \in Rows'
               PROVE /\ <<a, b, "Contains">> \in edges' => MayContain(entities'[a].type, entities'[b].type)
                     /\ <<a, b, "Produces">> \in edges' => MayProduce(entities'[a].type, entities'[b].type)
    BY DEF EdgesByType, MayContain, MayProduce
  <2>1. ASSUME <<a, b, "Contains">> \in edges
        PROVE MayContain(entities'[a].type, entities'[b].type)
    <3>1. a \in Rows /\ b \in Rows
      BY <1>1, <2>1 DEF TablesOK, EndsExist
    <3> QED
      BY <1>1, <1>3, <2>1, <3>1 DEF TablesOK, EdgesByType
  <2>2. ASSUME <<a, b, "Produces">> \in edges
        PROVE MayProduce(entities'[a].type, entities'[b].type)
    <3>1. a \in Rows /\ b \in Rows
      BY <1>1, <2>2 DEF TablesOK, EndsExist
    <3> QED
      BY <1>1, <1>3, <2>2, <3>1 DEF TablesOK, EdgesByType
  <2>3. ASSUME <<a, b, "Contains">> \in added
        PROVE MayContain(entities'[a].type, entities'[b].type)
    BY <1>1, <1>3, <1>5, <2>3 DEF CreationOK
  <2>4. ASSUME <<a, b, "Produces">> \in added
        PROVE MayProduce(entities'[a].type, entities'[b].type)
    BY <1>1, <1>3, <1>5, <2>4 DEF CreationOK
  <2> QED
    BY <1>4, <2>1, <2>2, <2>3, <2>4
<1>11. FeaturesFollowAnchor'
  <2> SUFFICES ASSUME NEW s \in Rows', NEW a \in Rows', NEW f \in Rows',
                      <<s, a, "Produces">> \in edges', <<a, f, "Contains">> \in edges'
               PROVE <<s, f, "Produces">> \in edges'
    BY DEF FeaturesFollowAnchor
  <2>1. a \in Rows /\ <<s, a, "Produces">> \in edges /\ s \in Rows
    <3>1. a # nextId
      <4>1. <<a, f, "Contains">> \in edges => a \in Rows
        BY <1>1 DEF TablesOK, EndsExist
      <4> QED
        BY <1>2, <1>4, <1>5, <1>8, <4>1
    <3>2. <<s, a, "Produces">> \in edges
      BY <1>4, <1>5, <3>1
    <3> QED
      BY <1>1, <3>2 DEF TablesOK, EndsExist
  <2>2. CASE <<a, f, "Contains">> \in edges
    BY <1>1, <1>4, <2>1, <2>2 DEF TablesOK, EndsExist, FeaturesFollowAnchor
  <2>3. CASE <<a, f, "Contains">> \in added
    <3>1. a \in job.owners /\ f = nextId
      BY <1>5, <2>3
    <3>2. MayProduce(entities[s].type, entities[a].type) /\ MayContain(entities[a].type, job.type)
      BY <1>1, <2>1, <3>1 DEF TablesOK, EdgesByType, CreationOK
    <3>3. entities[a].type = "Anchor" /\ job.type = "AnchorFeature"
      BY <3>2 DEF MayProduce, MayContain
    <3>4. s \in Neighbors({a}, "Consumes")
      <4>1. <<a, s, "Consumes">> \in edges
        BY <2>1, MirroredEnds
      <4>2. s \in Issued
        BY <1>1, <2>1 DEF TypeOK, Rows, Issued
      <4> QED
        BY <4>1, <4>2 DEF Neighbors
    <3>5. s \in job.inputs
      BY <1>1, <3>1, <3>3, <3>4 DEF CreationOK
    <3> QED
      BY <1>4, <1>5, <3>1, <3>5
  <2> QED
    BY <1>4, <2>2, <2>3
<1>12. AnchorsHaveSource'
  <2> SUFFICES ASSUME NEW a \in Rows', entities'[a].type = "Anchor"
               PROVE \E s \in Rows' : <<a, s, "Consumes">> \in edges'
    BY DEF AnchorsHaveSource
  <2>1. CASE a \in Rows
    BY <1>1, <1>3, <1>4, <1>7, <2>1 DEF TablesOK, AnchorsHaveSource
  <2>2. CASE a = nextId
    <3>1. PICK i \in job.inputs : TRUE
      BY <1>1, <1>3, <2>2 DEF CreationOK
    <3>2. <<a, i, "Consumes">> \in edges' /\ i \in Rows'
      BY <1>3, <1>4, <1>5, <1>8, <2>2, <3>1
    <3> QED
      BY <3>2
  <2> QED
    BY <1>3, <2>1, <2>2
<1>13. DuplicatesAgree'
  <2>1. \A id \in Rows : entities[id].qn = new.qn =>
          /\ entities[id].type = new.type /\ entities[id].name = new.name
          /\ new.type # "Anchor" => entities[id].def = new.def
    BY <1>1 DEF CreationOK, Named, SameDefinition
  <2> QED
    BY <1>1, <1>3, <2>1 DEF DuplicatesAgree
<1> QED
  BY <1>6, <1>7, <1>9, <1>10, <1>11, <1>12, <1>13 DEF LineageInv, TablesOK

-----------------------------------------------------------------------------
(* DELETE *)

\* What a search starts with.
LEMMA SearchFields ==
  ASSUME NEW job \in Deletion, NEW goal, NEW start, NEW rel
  PROVE LET found == Search(job, goal, start, rel) IN
        /\ found.goal = goal /\ found.start = start /\ found.rel = rel
        /\ found.frontier = {start} /\ found.seen = {start}
        /\ found.target = job.target
        /\ found.anchors = job.anchors /\ found.sources = job.sources
BY DEF Search, Deletion

LEMMA FindDependentsOK ==
  ASSUME NEW t \in Threads, Before(t), UNCHANGED tables,
         NEW job \in Deletion, NEW goal \in {"dependents", "recheck"},
         FindDependents(t, job, goal),
         job.anchors \subseteq OfType({"Anchor"}) \ {job.target},
         job.sources \subseteq OfType({"Source"}) \ {job.target},
         goal = "recheck" => job.anchors = {} /\ job.sources = {} /\ ProbedOK(job, "purge")
  PROVE ThreadOK(t)' /\ pc'[t] # "row"
<1>1. CASE Finish(t, 404)
  BY <1>1, FinishOK DEF Before
<1>2. CASE /\ Readable(job.target)
           /\ Continue(t, "bfs", Search(job, goal, job.target,
                                        DependentsBy(entities[job.target].type)))
  <2> DEFINE found == Search(job, goal, job.target, DependentsBy(entities[job.target].type))
  <2>1. /\ found.goal = goal /\ found.start = job.target
        /\ found.rel = DependentsBy(entities[job.target].type)
        /\ found.frontier = {job.target} /\ found.seen = {job.target}
        /\ found.target = job.target
        /\ found.anchors = job.anchors /\ found.sources = job.sources
    BY SearchFields
  <2> HIDE DEF found
  <2>2. DeletionOK(found, "bfs")
    BY <1>2, <2>1 DEF DeletionOK, Probing, Readable
  <2>3. goal = "recheck" => ProbedOK(found, "bfs")
    BY <2>1 DEF ProbedOK, Probing
  <2>4. SearchOK(found)
    BY <2>1 DEF SearchOK
  <2>5. DeleteOK(found, "bfs")
    BY <2>1, <2>2, <2>3, <2>4 DEF DeleteOK
  <2> QED
    BY <1>2, <2>5, ContinueOK DEF Before, DeletePcs, found
<1> QED
  BY <1>1, <1>2 DEF FindDependents

LEMMA NewDeletionOK ==
  ASSUME NEW t \in Threads, Before(t), NewDeletion(t)
  PROVE ThreadOK(t)' /\ pc[t] # "row" /\ pc'[t] # "row" /\ UNCHANGED tables
<1>1. PICK id \in Issued :
        FindDependents(t, [NoDeletion EXCEPT !.target = id], "dependents")
  BY DEF NewDeletion
<1> DEFINE job == [NoDeletion EXCEPT !.target = id]
<1>2. job \in Deletion /\ job.anchors = {} /\ job.sources = {}
  BY IdleTypes DEF Deletion, NoDeletion, Before
<1> HIDE DEF job
<1>3. FindDependents(t, job, "dependents")
  BY <1>1 DEF job
<1>4. ThreadOK(t)' /\ pc'[t] # "row"
  BY <1>2, <1>3, FindDependentsOK DEF NewDeletion
<1> QED
  BY <1>4 DEF NewDeletion

\* Where an edge leads: to a row, to a younger one, of a type it may lead to.
LEMMA EdgeEnds ==
  ASSUME NEW t \in Threads, Before(t), NEW a, NEW b, NEW rel, <<a, b, rel>> \in edges
  PROVE a \in Rows /\ b \in Rows
BY DEF Before, LineageInv, TablesOK, EndsExist

LEMMA Younger ==
  ASSUME NEW t \in Threads, Before(t), NEW a, NEW b, NEW rel \in {"Contains", "Produces"},
         <<a, b, rel>> \in edges
  PROVE a \in Nat /\ b \in Nat /\ a < b
<1>1. a \in Rows /\ b \in Rows
  BY EdgeEnds
<1>2. a \in Nat /\ b \in Nat
  BY <1>1 DEF Before, TypeOK, Rows
<1> QED
  BY <1>2 DEF Before, EdgesByAge

LEMMA ContainsByType ==
  ASSUME NEW t \in Threads, Before(t), NEW a, NEW b, <<a, b, "Contains">> \in edges
  PROVE /\ MayContain(entities[a].type, entities[b].type)
        /\ DependentsBy(entities[a].type) = "Contains"
<1>1. MayContain(entities[a].type, entities[b].type)
  BY EdgeEnds DEF Before, LineageInv, TablesOK, EdgesByType
<1> QED
  BY <1>1 DEF MayContain, DependentsBy

LEMMA ProducesByType ==
  ASSUME NEW t \in Threads, Before(t), NEW a, NEW b, <<a, b, "Produces">> \in edges
  PROVE /\ MayProduce(entities[a].type, entities[b].type)
        /\ DependentsBy(entities[a].type) = "Produces"
<1>1. MayProduce(entities[a].type, entities[b].type)
  BY EdgeEnds DEF Before, LineageInv, TablesOK, EdgesByType
<1> QED
  BY <1>1 DEF MayProduce, DependentsBy, FeatureTypes

\* A step of the search goes one edge on.
LEMMA BfsStepOK ==
  ASSUME NEW t \in Threads, Before(t), BfsStep(t)
  PROVE ThreadOK(t)' /\ pc[t] # "row" /\ pc'[t] # "row" /\ UNCHANGED tables
<1> DEFINE job == deleting[t]
           next == Neighbors(job.frontier, job.rel)
           on == [job EXCEPT !.frontier = next, !.seen = @ \cup next]
<1>1. job \in Deletion /\ DeleteOK(job, "bfs") /\ Continue(t, "bfs", on) /\ UNCHANGED tables
  BY DEF Before, TypeOK, LineageInv, ThreadOK, BfsStep, DeletePcs
<1>2. /\ on.frontier = next /\ on.seen = job.seen \cup next
      /\ on.goal = job.goal /\ on.start = job.start /\ on.rel = job.rel
      /\ on.target = job.target /\ on.anchors = job.anchors /\ on.sources = job.sources
  BY <1>1 DEF Deletion
<1>3. \A b : b \in next => \E a \in job.frontier : <<a, b, job.rel>> \in edges
  BY DEF Neighbors
<1>4. \A a \in job.frontier, b \in Rows : <<a, b, job.rel>> \in edges => b \in next
  BY DEF Neighbors, Before, TypeOK, Rows, Issued
<1>5. ASSUME NEW b \in next PROVE b \in Rows
  <2>1. PICK a \in job.frontier : <<a, b, job.rel>> \in edges
    BY <1>3
  <2> QED
    BY <2>1, EdgeEnds
<1> HIDE DEF on, next, job
<1>6. SearchOK(on)
  <2>1. SearchOK(job)
    BY <1>1 DEF DeleteOK
  <2>2. on.start \in on.seen /\ on.frontier \subseteq on.seen
    BY <1>2, <2>1 DEF SearchOK
  <2>3. ASSUME NEW a \in on.seen \ on.frontier, NEW b \in Rows, <<a, b, on.rel>> \in edges
        PROVE b \in on.seen
    BY <1>2, <1>4, <2>1, <2>3 DEF SearchOK
  <2>4. ASSUME NEW b \in on.seen \ {on.start}
        PROVE \E a \in on.seen : <<a, b, on.rel>> \in edges
    BY <1>2, <1>3, <2>1, <2>4 DEF SearchOK
  <2>5. \/ on.seen = {on.start} /\ on.frontier \subseteq {on.start}
        \/ \E b \in Rows : <<on.start, b, on.rel>> \in edges
    <3>1. CASE \E b \in Rows : <<job.start, b, job.rel>> \in edges
      BY <1>2, <3>1
    <3>2. CASE job.seen = {job.start} /\ job.frontier \subseteq {job.start}
      <4>1. CASE next = {}
        BY <1>2, <3>2, <4>1
      <4>2. CASE next # {}
        BY <1>2, <1>3, <1>5, <3>2, <4>2
      <4> QED
        BY <4>1, <4>2
    <3> QED
      BY <2>1, <3>1, <3>2 DEF SearchOK
  <2> QED
    BY <2>2, <2>3, <2>4, <2>5 DEF SearchOK
<1>7. DeletionOK(on, "bfs")
  BY <1>1, <1>2 DEF DeleteOK, DeletionOK, Probing
<1>8. ProbedOK(job, "bfs") => ProbedOK(on, "bfs")
  BY <1>2 DEF ProbedOK, Probing
<1>9. DeleteOK(on, "bfs")
  BY <1>1, <1>2, <1>6, <1>7, <1>8 DEF DeleteOK
<1>10. ThreadOK(t)' /\ pc'[t] = "bfs"
  BY <1>1, <1>9, ContinueOK DEF Before, DeletePcs
<1> QED
  BY <1>1, <1>10 DEF BfsStep

\* What there is downstream of the entity a search started from was found.
LEMMA SearchFound ==
  ASSUME NEW t \in Threads, Before(t), NEW job, DeleteOK(job, "bfs"), job.frontier = {},
         NEW b, NEW rel \in {"Contains", "Produces"}, <<job.start, b, rel>> \in edges
  PROVE rel = job.rel /\ b \in (job.seen \cap Rows) \ {job.start}
<1>1. b \in Rows /\ b # job.start
  <2>1. b \in Rows
    BY EdgeEnds
  <2>2. job.start \in Nat /\ b \in Nat /\ job.start < b
    BY Younger
  <2> QED
    BY <2>1, <2>2
<1>2. rel = job.rel
  <2>1. job.rel = DependentsBy(entities[job.start].type)
    BY DEF DeleteOK, DeletionOK
  <2>2. CASE rel = "Contains"
    BY <2>1, <2>2, ContainsByType
  <2>3. CASE rel = "Produces"
    BY <2>1, <2>3, ProducesByType
  <2> QED
    BY <2>2, <2>3
<1>3. job.start \in job.seen /\ SearchOK(job)
  BY DEF DeleteOK, SearchOK
<1>4. b \in job.seen
  BY <1>1, <1>2, <1>3 DEF SearchOK
<1> QED
  BY <1>1, <1>2, <1>4

LEMMA NothingFound ==
  ASSUME NEW t \in Threads, Before(t), NEW job, DeleteOK(job, "bfs"), job.frontier = {},
         (job.seen \cap Rows) \ {job.start} = {}
  PROVE Unused(job.start)
<1> SUFFICES ASSUME NEW b \in Rows
             PROVE /\ <<job.start, b, "Contains">> \notin edges
                   /\ <<job.start, b, "Produces">> \notin edges
  BY DEF Unused
<1>1. <<job.start, b, "Contains">> \notin edges
  BY SearchFound
<1>2. <<job.start, b, "Produces">> \notin edges
  BY SearchFound
<1> QED
  BY <1>1, <1>2

LEMMA RowsFinite ==
  ASSUME TypeOK, NEW ids PROVE IsFiniteSet(ids \cap Rows)
<1>1. IsFiniteSet(1..(nextId - 1))
  BY FS_Interval DEF TypeOK
<1>2. ids \cap Rows \subseteq 1..(nextId - 1)
  BY DEF TypeOK, Rows
<1> QED
  BY <1>1, <1>2, FS_Subset

\* The search is over: what it found nothing downstream of may go, what it found
\* something downstream of is known to have it.
LEMMA BfsDoneOK ==
  ASSUME NEW t \in Threads, Before(t), BfsDone(t)
  PROVE ThreadOK(t)' /\ pc[t] # "row" /\ pc'[t] # "row" /\ UNCHANGED tables
<1> DEFINE job == deleting[t]
           found == job.seen \cap Rows
           others == found \ {job.start}
<1>1. /\ job \in Deletion /\ DeleteOK(job, "bfs") /\ job.frontier = {}
      /\ pc[t] # "row" /\ UNCHANGED tables /\ TypeOK
  BY DEF Before, TypeOK, LineageInv, ThreadOK, BfsDone, DeletePcs
<1> HIDE DEF job
<1>2. ASSUME NEW code, Finish(t, code) PROVE ThreadOK(t)' /\ pc'[t] # "row"
  BY <1>1, <1>2, FinishOK
<1>3. CASE others = {} /\ job.goal # "dependents" /\ DeleteRow(t, job)
  <2>1. Unused(job.start)
    BY <1>1, <1>3, NothingFound
  <2>2. DeleteOK(job, "edges")
    BY <1>1, <1>3, <2>1 DEF DeleteOK, DeletionOK, ProbedOK, Probing
  <2> QED
    BY <1>1, <1>3, <2>2, ContinueOK DEF DeleteRow, DeletePcs
<1>4. CASE others = {} /\ job.goal = "dependents" /\ DeleteRow(t, job)
  <2>1. Unused(job.start)
    BY <1>1, <1>4, NothingFound
  <2>2. DeleteOK(job, "edges")
    BY <1>1, <1>4, <2>1 DEF DeleteOK, DeletionOK, Probing
  <2> QED
    BY <1>1, <1>4, <2>2, ContinueOK DEF DeleteRow, DeletePcs
<1>5. CASE /\ job.goal = "dependents"
           /\ Continue(t, "purge", [job EXCEPT !.anchors = others \cap OfType({"Anchor"}),
                                               !.sources = others \cap OfType({"Source"})])
  <2> DEFINE new == [job EXCEPT !.anchors = others \cap OfType({"Anchor"}),
                                !.sources = others \cap OfType({"Source"})]
  <2>1. /\ new.anchors = others \cap OfType({"Anchor"})
        /\ new.sources = others \cap OfType({"Source"})
        /\ new.goal = "dependents" /\ new.target = job.target /\ job.start = job.target
    BY <1>1, <1>5 DEF Deletion, DeleteOK, DeletionOK
  <2> HIDE DEF new
  <2>2. DeletionOK(new, "purge")
    BY <1>1, <2>1 DEF DeleteOK, DeletionOK, Probing
  <2>3. ASSUME NEW c \in Rows,
               <<job.target, c, DependentsBy(entities[job.target].type)>> \in edges
        PROVE c \in others
    BY <1>1, <2>1, <2>3, SearchFound DEF DependentsBy
  <2>4. ProbedOK(new, "purge")
    BY <2>1, <2>3 DEF ProbedOK, OfType
  <2>5. DeleteOK(new, "purge")
    BY <2>1, <2>2, <2>4 DEF DeleteOK
  <2> QED
    BY <1>1, <1>5, <2>5, ContinueOK DEF DeletePcs, new
<1>6. CASE job.goal = "probe" /\ ~IsEmpty(found) /\ Continue(t, "purge", job)
  <2>1. DeletionOK(job, "bfs") /\ ProbedOK(job, "bfs") /\ SearchOK(job) /\ Probing(job, "bfs")
    BY <1>1, <1>6 DEF DeleteOK, Probing
  <2>2. job.start \in Rows /\ job.rel = DependentsBy(entities[job.start].type)
    BY <2>1 DEF DeletionOK
  <2>3. \E b \in Rows : <<job.start, b, job.rel>> \in edges
    <3>1. job.seen # {job.start}
      <4>1. SUFFICES ASSUME job.seen = {job.start} PROVE FALSE
        OBVIOUS
      <4>2. found = {job.start}
        BY <2>2, <4>1
      <4> QED
        BY <1>6, <4>2, FS_Singleton DEF IsEmpty
    <3> QED
      BY <2>1, <3>1 DEF SearchOK
  <2>4. DeletionOK(job, "purge")
    BY <2>1 DEF DeletionOK, Probing
  <2>5. ProbedOK(job, "purge")
    <3> SUFFICES ASSUME NEW c \in Rows,
                        <<job.target, c, DependentsBy(entities[job.target].type)>> \in edges
                 PROVE /\ entities[c].type = "Anchor" =>
                            c \in job.anchors \/ \E f \in Rows : <<c, f, "Contains">> \in edges
                       /\ entities[c].type = "Source" =>
                            \/ c \in job.sources
                            \/ job.anchors = {} /\ \E u \in Rows : <<c, u, "Produces">> \in edges
      BY DEF ProbedOK, Probing
    <3>1. ASSUME entities[c].type = "Anchor"
          PROVE c \in job.anchors \/ \E f \in Rows : <<c, f, "Contains">> \in edges
      <4>1. CASE job.start = c
        BY <2>2, <2>3, <3>1, <4>1 DEF DependentsBy
      <4> QED
        BY <2>1, <3>1, <4>1 DEF ProbedOK
    <3>2. ASSUME entities[c].type = "Source"
          PROVE \/ c \in job.sources
                \/ job.anchors = {} /\ \E u \in Rows : <<c, u, "Produces">> \in edges
      <4>1. CASE job.start = c
        <5>1. job.anchors = {}
          BY <2>1, <3>2, <4>1 DEF DeletionOK
        <5> QED
          BY <2>2, <2>3, <3>2, <4>1, <5>1 DEF DependentsBy
      <4> QED
        BY <2>1, <3>2, <4>1 DEF ProbedOK
    <3> QED
      BY <3>1, <3>2
  <2>6. DeleteOK(job, "purge")
    BY <1>1, <1>6, <2>4, <2>5 DEF DeleteOK
  <2> QED
    BY <1>1, <1>6, <2>6, ContinueOK DEF DeletePcs
<1>7. job.goal = "probe" /\ IsEmpty(found) => others = {}
  <2>1. job.start \in found
    BY <1>1 DEF DeleteOK, DeletionOK, SearchOK
  <2>2. IsFiniteSet(found)
    BY <1>1, RowsFinite
  <2> HIDE DEF found
  <2> QED
    BY <2>1, <2>2, FS_Singleton DEF IsEmpty
<1>8. \/ \E code \in {404, 412} : Finish(t, code)
      \/ others = {} /\ DeleteRow(t, job)
      \/ /\ job.goal = "dependents"
         /\ Continue(t, "purge", [job EXCEPT !.anchors = others \cap OfType({"Anchor"}),
                                             !.sources = others \cap OfType({"Source"})])
      \/ job.goal = "probe" /\ ~IsEmpty(found) /\ Continue(t, "purge", job)
  BY <1>7 DEF BfsDone, job
<1> QED
  BY <1>1, <1>2, <1>3, <1>4, <1>5, <1>6, <1>8

\* The next anchor or source to look at, or the second search from the target.
LEMMA PurgeOK ==
  ASSUME NEW t \in Threads, Before(t), Purge(t)
  PROVE ThreadOK(t)' /\ pc[t] # "row" /\ pc'[t] # "row" /\ UNCHANGED tables
<1> DEFINE job == deleting[t]
<1>1. /\ job \in Deletion /\ DeleteOK(job, "purge")
      /\ pc[t] # "row" /\ UNCHANGED tables /\ TypeOK
  BY DEF Before, TypeOK, LineageInv, ThreadOK, Purge, DeletePcs
<1>2. DeletionOK(job, "purge") /\ ProbedOK(job, "purge")
  BY <1>1 DEF DeleteOK
<1> HIDE DEF job
<1>3. CASE ToProbe(job) = {} /\ FindDependents(t, job, "recheck")
  <2>1. job.anchors = {} /\ job.sources = {}
    BY <1>3 DEF ToProbe
  <2> QED
    BY <1>1, <1>2, <1>3, <2>1, FindDependentsOK
<1>4. ASSUME NEW id \in ToProbe(job),
             Continue(t, "bfs",
               Search([job EXCEPT !.anchors = @ \ {id}, !.sources = @ \ {id}], "probe", id,
                      IF id \in job.anchors THEN "Contains" ELSE "Produces"))
      PROVE ThreadOK(t)' /\ pc'[t] # "row"
  <2> DEFINE rel == IF id \in job.anchors THEN "Contains" ELSE "Produces"
             left == [job EXCEPT !.anchors = @ \ {id}, !.sources = @ \ {id}]
             new == Search(left, "probe", id, rel)
  <2>1. /\ new.goal = "probe" /\ new.start = id /\ new.rel = rel
        /\ new.frontier = {id} /\ new.seen = {id} /\ new.target = job.target
        /\ new.anchors = job.anchors \ {id} /\ new.sources = job.sources \ {id}
    BY <1>1 DEF Search, Deletion
  <2>2. /\ id \in Rows /\ id # job.target
        /\ IF job.anchors # {} THEN id \in job.anchors /\ entities[id].type = "Anchor"
                               ELSE id \in job.sources /\ entities[id].type = "Source"
    BY <1>2, <1>4 DEF ToProbe, DeletionOK, OfType
  <2>3. rel = DependentsBy(entities[id].type)
    BY <2>2 DEF DependentsBy
  <2> HIDE DEF new
  <2>4. DeletionOK(new, "bfs")
    BY <1>2, <2>1, <2>2, <2>3 DEF DeletionOK, Probing, OfType
  <2>5. ProbedOK(new, "bfs")
    BY <1>2, <2>1, <2>2 DEF ProbedOK, Probing
  <2>6. SearchOK(new)
    BY <2>1 DEF SearchOK
  <2>7. DeleteOK(new, "bfs")
    BY <2>1, <2>4, <2>5, <2>6 DEF DeleteOK
  <2> QED
    BY <1>1, <1>4, <2>7, ContinueOK DEF DeletePcs, new
<1> QED
  BY <1>1, <1>3, <1>4 DEF Purge, job

\* Cutting the edges of an entity that nothing uses takes away no edge that others
\* rest on.
LEMMA DeleteEdgesOK ==
  ASSUME NEW t \in Threads, Before(t), DeleteEdges(t)
  PROVE LineageInv'
<1>0. PICK job : job = deleting[t]
  OBVIOUS
<1>1. /\ job \in Deletion /\ DeleteOK(job, "edges") /\ TypeOK /\ TablesOK
      /\ Threads = {t} /\ Continue(t, "row", job) /\ DuplicatesAgree
  BY <1>0 DEF Before, TypeOK, LineageInv, ThreadOK, DeleteEdges, DeletePcs
<1>2. pc[t] = "edges" /\ pc'[t] = "row" /\ deleting'[t] = job
  BY <1>1 DEF DeleteEdges, Continue, Goto, TypeOK
<1>3. Leaving = {} /\ Leaving' = {job.start}
  BY <1>0, <1>1, <1>2 DEF Leaving
<1>4. entities' = entities /\ Rows' = Rows
  BY DEF DeleteEdges, Rows
<1>5. \A e : e \in edges' <=> e \in edges /\ e[1] # job.start /\ e[2] # job.start
  BY <1>0 DEF DeleteEdges, EdgesWithout
<1>6. DeletionOK(job, "edges") /\ Unused(job.start) /\ job.start \in Rows
  BY <1>1 DEF DeleteOK, DeletionOK
<1>7. EndsExist'
  BY <1>1, <1>4, <1>5 DEF TablesOK, EndsExist
<1>8. EdgesByType'
  BY <1>1, <1>4, <1>5 DEF TablesOK, EdgesByType
<1>9. FeaturesFollowAnchor'
  <2> SUFFICES ASSUME NEW s \in Rows, NEW a \in Rows, NEW f \in Rows,
                      <<s, a, "Produces">> \in edges', <<a, f, "Contains">> \in edges'
               PROVE <<s, f, "Produces">> \in edges'
    BY <1>4 DEF FeaturesFollowAnchor
  <2>1. <<s, a, "Produces">> \in edges /\ s # job.start
    BY <1>5
  <2>2. <<a, f, "Contains">> \in edges /\ f # job.start
    BY <1>5
  <2>3. <<s, f, "Produces">> \in edges
    BY <1>1, <2>1, <2>2 DEF TablesOK, FeaturesFollowAnchor
  <2> QED
    BY <1>5, <2>1, <2>2, <2>3
<1>10. AnchorsHaveSource'
  <2> SUFFICES ASSUME NEW a \in Rows, a # job.start, entities[a].type = "Anchor"
               PROVE \E s \in Rows : <<a, s, "Consumes">> \in edges'
    BY <1>3, <1>4 DEF AnchorsHaveSource
  <2>1. PICK s \in Rows : <<a, s, "Consumes">> \in edges
    BY <1>1, <1>3 DEF TablesOK, AnchorsHaveSource
  <2>2. <<s, a, "Produces">> \in edges
    BY <2>1, MirroredEnds
  <2>3. s # job.start
    BY <1>6, <2>2 DEF Unused
  <2> QED
    BY <1>5, <2>1, <2>3
<1>11. DuplicatesAgree'
  BY <1>1, <1>4 DEF DuplicatesAgree
<1>12. DeletionOK(job, "row")'
  BY <1>4, <1>6 DEF DeletionOK, Probing, OfType
<1>13. job.goal # "dependents" => ProbedOK(job, "row")'
  <2> SUFFICES ASSUME job.goal # "dependents", NEW c \in Rows,
                      <<job.target, c, DependentsBy(entities[job.target].type)>> \in edges'
               PROVE /\ entities[c].type = "Anchor" =>
                          \/ c \in job.anchors
                          \/ Probing(job, "row") /\ job.start = c
                          \/ \E f \in Rows : <<c, f, "Contains">> \in edges'
                     /\ entities[c].type = "Source" =>
                          \/ c \in job.sources
                          \/ Probing(job, "row") /\ job.start = c
                          \/ /\ job.anchors = {}
                             /\ Probing(job, "row") => entities[job.start].type = "Source"
                             /\ \E u \in Rows : <<c, u, "Produces">> \in edges'
    BY <1>4 DEF ProbedOK, Probing
  <2>1. /\ <<job.target, c, DependentsBy(entities[job.target].type)>> \in edges
        /\ c # job.start /\ job.target # job.start
    BY <1>5
  <2>2. job.goal = "probe"
    BY <1>6, <2>1 DEF DeletionOK
  <2>3. ProbedOK(job, "edges") /\ Probing(job, "edges") /\ Probing(job, "row")
    BY <1>1, <2>2 DEF DeleteOK, Probing
  <2>4. ASSUME entities[c].type = "Anchor", c \notin job.anchors
        PROVE \E f \in Rows : <<c, f, "Contains">> \in edges'
    <3>1. PICK f \in Rows : <<c, f, "Contains">> \in edges
      BY <2>1, <2>3, <2>4 DEF ProbedOK
    <3>2. entities[f].type = "AnchorFeature"
      BY <2>4, <3>1, ContainsByType DEF MayContain
    <3>3. f # job.start
      BY <1>6, <2>3, <3>2 DEF DeletionOK
    <3> QED
      BY <1>5, <2>1, <3>1, <3>3
  <2>5. ASSUME entities[c].type = "Source", c \notin job.sources
        PROVE /\ job.anchors = {} /\ entities[job.start].type = "Source"
              /\ \E u \in Rows : <<c, u, "Produces">> \in edges'
    <3>1. job.anchors = {} /\ entities[job.start].type = "Source"
      BY <2>1, <2>3, <2>5 DEF ProbedOK
    <3>2. PICK u \in Rows : <<c, u, "Produces">> \in edges
      BY <2>1, <2>3, <2>5 DEF ProbedOK
    <3>3. entities[u].type # "Source"
      BY <2>5, <3>2, ProducesByType DEF MayProduce, FeatureTypes
    <3>4. <<c, u, "Produces">> \in edges'
      BY <1>5, <2>1, <3>1, <3>2, <3>3
    <3> QED
      BY <3>1, <3>4
  <2> QED
    BY <2>4, <2>5
<1>14. Untouched(job.start)'
  BY <1>5 DEF Untouched
<1>15. DeleteOK(job, "row")'
  BY <1>1, <1>12, <1>13, <1>14 DEF DeleteOK
<1>16. ThreadOK(t)'
  BY <1>2, <1>15 DEF ThreadOK, CreatePcs
<1> QED
  BY <1>1, <1>7, <1>8, <1>9, <1>10, <1>11, <1>16 DEF LineageInv, TablesOK, DeleteEdges

\* The row that goes is at the end of no edge.
LEMMA DeleteEntityRowOK ==
  ASSUME NEW t \in Threads, Before(t), DeleteEntityRow(t)
  PROVE LineageInv'
<1>0. PICK job : job = deleting[t]
  OBVIOUS
<1>1. /\ job \in Deletion /\ DeleteOK(job, "row") /\ TypeOK /\ TablesOK
      /\ Threads = {t} /\ pc[t] = "row" /\ DuplicatesAgree
  BY <1>0 DEF Before, TypeOK, LineageInv, ThreadOK, DeleteEntityRow, DeletePcs
<1>2. Leaving = {job.start}
  BY <1>0, <1>1 DEF Leaving
<1>3. edges' = edges /\ Rows' = Rows \ {job.start} /\ nextId' = nextId
  BY <1>0 DEF DeleteEntityRow, Rows
<1>4. \A id \in Rows' : entities'[id] = entities[id]
  BY <1>0, <1>3 DEF DeleteEntityRow
<1>5. \/ job.goal = "probe" /\ Continue(t, "purge", job)
      \/ job.goal # "probe" /\ Finish(t, 200)
  BY <1>0 DEF DeleteEntityRow
<1>6. DeletionOK(job, "row") /\ Untouched(job.start) /\ job.start \in Rows
  BY <1>1 DEF DeleteOK, DeletionOK
<1>7. \A e \in edges : e[1] \in Rows' /\ e[2] \in Rows'
  BY <1>1, <1>3, <1>6 DEF TablesOK, EndsExist, Untouched
<1>8. EndsExist'
  BY <1>3, <1>7 DEF EndsExist
<1>9. EdgesByType'
  <2> SUFFICES ASSUME NEW a \in Rows', NEW b \in Rows'
               PROVE /\ <<a, b, "Contains">> \in edges' => MayContain(entities'[a].type, entities'[b].type)
                     /\ <<a, b, "Produces">> \in edges' => MayProduce(entities'[a].type, entities'[b].type)
    BY DEF EdgesByType, MayContain, MayProduce
  <2>1. <<a, b, "Contains">> \in edges' => MayContain(entities'[a].type, entities'[b].type)
    BY <1>3, <1>4, ContainsByType
  <2>2. <<a, b, "Produces">> \in edges' => MayProduce(entities'[a].type, entities'[b].type)
    BY <1>3, <1>4, ProducesByType
  <2> QED
    BY <2>1, <2>2
<1>10. FeaturesFollowAnchor'
  BY <1>1, <1>3 DEF TablesOK, FeaturesFollowAnchor
<1>11. AnchorsHaveSource'
  <2> SUFFICES ASSUME NEW a \in Rows', entities'[a].type = "Anchor"
               PROVE \E s \in Rows' : <<a, s, "Consumes">> \in edges
    BY <1>3 DEF AnchorsHaveSource
  <2>1. PICK s \in Rows : <<a, s, "Consumes">> \in edges
    BY <1>1, <1>2, <1>3, <1>4 DEF TablesOK, AnchorsHaveSource
  <2>2. s \in Rows'
    BY <1>7, <2>1
  <2> QED
    BY <2>1, <2>2
<1>12. DuplicatesAgree'
  BY <1>1, <1>3, <1>4 DEF DuplicatesAgree
<1>13. CASE job.goal = "probe" /\ Continue(t, "purge", job)
  <2>1. /\ job.start # job.target /\ job.start \notin job.anchors \cup job.sources
        /\ job.target \in Rows' /\ entities'[job.target] = entities[job.target]
    BY <1>3, <1>4, <1>6, <1>13 DEF DeletionOK, Probing
  <2>2. DeletionOK(job, "purge")'
    BY <1>3, <1>4, <1>6, <2>1 DEF DeletionOK, Probing, OfType
  <2>3. ProbedOK(job, "purge")'
    <3> SUFFICES ASSUME NEW c \in Rows', c # job.start,
                        <<job.target, c, DependentsBy(entities[job.target].type)>> \in edges
                 PROVE /\ entities[c].type = "Anchor" =>
                            c \in job.anchors \/ \E f \in Rows' : <<c, f, "Contains">> \in edges
                       /\ entities[c].type = "Source" =>
                            \/ c \in job.sources
                            \/ job.anchors = {} /\ \E u \in Rows' : <<c, u, "Produces">> \in edges
      BY <1>3, <1>4, <2>1 DEF ProbedOK, Probing
    <3>1. ProbedOK(job, "row")
      BY <1>1, <1>13 DEF DeleteOK
    <3>2. ASSUME NEW f \in Rows, <<c, f, "Contains">> \in edges PROVE f \in Rows'
      BY <1>7, <3>2
    <3>3. ASSUME NEW u \in Rows, <<c, u, "Produces">> \in edges PROVE u \in Rows'
      BY <1>7, <3>3
    <3> QED
      BY <1>3, <3>1, <3>2, <3>3 DEF ProbedOK
  <2>4. pc'[t] = "purge" /\ deleting'[t] = job
    BY <1>1, <1>13 DEF Continue, Goto, TypeOK
  <2>5. DeleteOK(job, "purge")'
    BY <1>1, <1>13, <2>2, <2>3 DEF DeleteOK
  <2>6. ThreadOK(t)'
    BY <2>4, <2>5 DEF ThreadOK, CreatePcs
  <2> QED
    BY <1>1, <1>8, <1>9, <1>10, <1>11, <1>12, <2>6 DEF LineageInv, TablesOK, DeleteEntityRow
<1>14. CASE Finish(t, 200)
  BY <1>1, <1>8, <1>9, <1>10, <1>11, <1>12, <1>14, FinishOK
     DEF LineageInv, TablesOK, DeleteEntityRow
<1> QED
  BY <1>5, <1>13, <1>14

-----------------------------------------------------------------------------
(* Every step *)

LEMMA LineageInit == Undisturbed /\ Init => LineageInv
<1> SUFFICES ASSUME Init PROVE LineageInv
  OBVIOUS
<1>1. Rows = {} /\ edges = {}
  BY DEF Init, Rows
<1>2. TablesOK /\ DuplicatesAgree
  BY <1>1 DEF TablesOK, EndsExist, EdgesByType, FeaturesFollowAnchor, AnchorsHaveSource,
              DuplicatesAgree
<1>3. \A t \in Threads : ThreadOK(t)
  BY DEF Init, ThreadOK, CreatePcs, DeletePcs
<1> QED
  BY <1>2, <1>3 DEF LineageInv

LEMMA LineageNext ==
  ASSUME NEW t \in Threads, Before(t), Request(t) \/ Step(t)
  PROVE LineageInv'
<1>1. CASE NewProject(t) \/ NewSource(t) \/ NewAnchor(t) \/ NewAnchorFeature(t)
             \/ NewDerivedFeature(t)
  BY <1>1, PostOK, QuietStep
<1>2. CASE NewDeletion(t)
  BY <1>2, NewDeletionOK, QuietStep
<1>3. CASE Check(t) \/ CheckRefs(t)
  BY <1>3, CheckOK, QuietStep
<1>4. CASE Commit(t)
  BY <1>4, CommitOK
<1>5. CASE BfsStep(t)
  BY <1>5, BfsStepOK, QuietStep
<1>6. CASE BfsDone(t)
  BY <1>6, BfsDoneOK, QuietStep
<1>7. CASE Purge(t)
  BY <1>7, PurgeOK, QuietStep
<1>8. CASE DeleteEdges(t)
  BY <1>8, DeleteEdgesOK
<1>9. CASE DeleteEntityRow(t)
  BY <1>9, DeleteEntityRowOK
<1> QED
  BY <1>1, <1>2, <1>3, <1>4, <1>5, <1>6, <1>7, <1>8, <1>9 DEF Request, Step

-----------------------------------------------------------------------------
(* Theorems *)

LEMMA OneThread ==
  ASSUME Undisturbed, TypeOK, Mirrored, EdgesByAge, LineageInv
  PROVE \E t : t \in Threads /\ Before(t)
BY DEF Undisturbed, Before

LEMMA LineageStep ==
  ASSUME Undisturbed, TypeOK, Mirrored, EdgesByAge, LineageInv, [Next]_vars
  PROVE LineageInv'
<1>1. CASE UNCHANGED vars
  <2>1. UNCHANGED tables /\ Rows' = Rows /\ Leaving' = Leaving
    BY <1>1 DEF vars, Rows, Leaving
  <2>2. TablesOK /\ DuplicatesAgree
    BY DEF LineageInv
  <2>3. EndsExist' /\ EdgesByType'
    BY <2>1, <2>2 DEF TablesOK, EndsExist, EdgesByType
  <2>4. FeaturesFollowAnchor' /\ AnchorsHaveSource'
    BY <2>1, <2>2 DEF TablesOK, FeaturesFollowAnchor, AnchorsHaveSource
  <2>5. DuplicatesAgree'
    BY <2>1, <2>2 DEF DuplicatesAgree
  <2>6. ASSUME NEW t \in Threads PROVE ThreadOK(t)'
    <3>1. pc'[t] = pc[t] /\ creating'[t] = creating[t] /\ deleting'[t] = deleting[t]
      BY <1>1 DEF vars
    <3>2. ThreadOK(t)
      BY DEF LineageInv
    <3>3. pc[t] \in CreatePcs => CreationOK(creating[t], pc[t])'
      BY <2>1, <3>1, <3>2, CreationFrame DEF ThreadOK
    <3>4. pc[t] \in DeletePcs => DeleteOK(deleting[t], pc[t])'
      BY <2>1, <3>1, <3>2, DeleteFrame DEF ThreadOK
    <3> QED
      BY <3>1, <3>3, <3>4 DEF ThreadOK
  <2> QED
    BY <1>1, <2>3, <2>4, <2>5, <2>6 DEF LineageInv, TablesOK
<1>2. CASE Next
  <2>1. PICK t \in Threads : Request(t) \/ Step(t) \/ Fail(t)
    BY <1>2 DEF Next
  <2>2. Before(t)
    BY <2>1 DEF Undisturbed, Before
  <2>3. ~Fail(t)
    BY DEF Fail, Undisturbed
  <2> QED
    BY <2>1, <2>2, <2>3, LineageNext
<1> QED
  BY <1>1, <1>2

\* The tables hold together, and what a handler goes by is true of them, for as long
\* as one request follows another.
THEOREM LineageInvAlways ==
  ASSUME Undisturbed PROVE Spec => []LineageInv
BY LineageInit, LineageStep, TypeCorrect, MirroredAlways, EdgesByAgeAlways, PTL DEF Spec

\* Outside a DELETE handler every entity can be read: an anchor whose source is gone
\* makes get_entity fail (db_registry.py:936-939), and no DELETE leaves one.
THEOREM ReadableAlways ==
  ASSUME Undisturbed PROVE Spec => []EveryEntityReadable
<1>1. TypeOK /\ LineageInv => EveryEntityReadable
  <2> SUFFICES ASSUME TypeOK, LineageInv, \A t \in Threads : pc[t] \notin DeletePcs,
                      NEW id \in Rows, entities[id].type = "Anchor"
               PROVE \E source \in Neighbors({id}, "Consumes") : source \in Rows
    BY DEF EveryEntityReadable, Readable
  <2>1. Leaving = {}
    BY DEF Leaving, DeletePcs
  <2>2. PICK s \in Rows : <<id, s, "Consumes">> \in edges
    BY <2>1 DEF LineageInv, TablesOK, AnchorsHaveSource
  <2>3. s \in Issued
    BY DEF TypeOK, Rows, Issued
  <2> QED
    BY <2>2, <2>3 DEF Neighbors
<1> QED
  BY <1>1, TypeCorrect, LineageInvAlways, PTL

\* What the name check of a POST has shown is still so when its row is committed.
NameChecked(t) ==
  pc[t] \in {"refs", "commit"} =>
    /\ \A id \in Named(creating[t].qn) : SameDefinition(id, creating[t])
    /\ creating[t].type = "Project" => Named(creating[t].qn) = {}

LEMMA NamesKept ==
  ASSUME TypeOK, NEW t \in Threads, Request(t) \/ Step(t) \/ Fail(t),
         DuplicatesAgree, NameChecked(t)
  PROVE DuplicatesAgree' /\ NameChecked(t)'
<1> DEFINE job == creating[t]
<1>1. ASSUME NEW label, Goto(t, label) PROVE pc'[t] = label
  BY <1>1 DEF Goto, TypeOK
<1>2. ASSUME NEW code, Finish(t, code) PROVE pc'[t] = "idle"
  BY <1>2 DEF Finish, TypeOK
<1>3. ASSUME NEW label, NEW new, Continue(t, label, new) PROVE pc'[t] = label
  BY <1>1, <1>3 DEF Continue
<1>4. ASSUME NEW goal, NEW new, FindDependents(t, new, goal) PROVE pc'[t] \in {"bfs", "idle"}
  <2>1. CASE Finish(t, 404)
    BY <1>2, <2>1
  <2>2. CASE \E next : Continue(t, "bfs", next)
    BY <1>3, <2>2
  <2> QED
    BY <1>4, <2>1, <2>2 DEF FindDependents
<1>5. ASSUME entities' = entities, pc'[t] \notin {"refs", "commit"}
      PROVE DuplicatesAgree' /\ NameChecked(t)'
  BY <1>5 DEF DuplicatesAgree, NameChecked, Rows
<1>6. ASSUME Request(t) PROVE entities' = entities /\ pc'[t] \notin {"refs", "commit"}
  <2>1. CASE NewDeletion(t)
    <3>1. \E new : FindDependents(t, new, "dependents")
      BY <2>1 DEF NewDeletion
    <3> QED
      BY <1>4, <2>1, <3>1 DEF NewDeletion
  <2>2. ASSUME ~NewDeletion(t) PROVE Finish(t, 404) \/ \E new : Start(t, new)
    <3>1. CASE NewProject(t)
      BY <3>1 DEF NewProject, CreateProject
    <3>2. CASE NewSource(t)
      BY <3>2 DEF NewSource, CreateSource
    <3>3. CASE NewAnchor(t)
      BY <3>3 DEF NewAnchor, CreateAnchor
    <3>4. CASE NewAnchorFeature(t)
      BY <3>4 DEF NewAnchorFeature, CreateAnchorFeature
    <3>5. CASE NewDerivedFeature(t)
      BY <3>5 DEF NewDerivedFeature, CreateDerivedFeature
    <3> QED
      BY <1>6, <2>2, <3>1, <3>2, <3>3, <3>4, <3>5 DEF Request
  <2>3. ASSUME Finish(t, 404) \/ \E new : Start(t, new)
        PROVE pc'[t] \notin {"refs", "commit"}
    BY <1>1, <1>2, <2>3 DEF Start
  <2>4. entities' = entities
    BY <1>6 DEF Request, NewProject, NewSource, NewAnchor, NewAnchorFeature,
                NewDerivedFeature, NewDeletion, Accept
  <2> QED
    BY <2>1, <2>2, <2>3, <2>4
<1>7. ASSUME \/ BfsStep(t) \/ BfsDone(t) \/ Purge(t) \/ DeleteEdges(t) \/ Fail(t)
      PROVE entities' = entities /\ pc'[t] \notin {"refs", "commit"}
  <2>1. CASE BfsStep(t) \/ DeleteEdges(t)
    BY <1>3, <2>1 DEF BfsStep, DeleteEdges
  <2>2. CASE BfsDone(t)
    BY <1>2, <1>3, <2>2 DEF BfsDone, DeleteRow
  <2>3. CASE Purge(t)
    <3> DEFINE old == deleting[t]
               new(id) == Search([old EXCEPT !.anchors = @ \ {id}, !.sources = @ \ {id}], "probe",
                                 id, IF id \in old.anchors THEN "Contains" ELSE "Produces")
    <3>1. \/ FindDependents(t, old, "recheck")
          \/ \E id \in ToProbe(old) : Continue(t, "bfs", new(id))
      BY <2>3 DEF Purge
    <3> HIDE DEF new
    <3> QED
      BY <1>3, <1>4, <2>3, <3>1 DEF Purge
  <2>4. CASE Fail(t)
    BY <1>2, <2>4 DEF Fail
  <2> QED
    BY <1>7, <2>1, <2>2, <2>3, <2>4
<1>8. CASE Check(t) \/ CheckRefs(t)
  <2>1. entities' = entities /\ pc[t] \in {"check", "refs"}
    BY <1>8 DEF Check, CheckRefs
  <2>2. ASSUME NEW label \in {"refs", "commit"}, Advance(t, label)
        PROVE creating'[t] = job
    BY <2>2 DEF Advance
  <2>3. ASSUME NEW code, Finish(t, code) PROVE DuplicatesAgree' /\ NameChecked(t)'
    BY <1>2, <1>5, <2>1, <2>3
  <2>4. ASSUME NEW label \in {"refs", "commit"}, Advance(t, label),
               \A id \in Named(job.qn) : SameDefinition(id, job),
               job.type = "Project" => Named(job.qn) = {}
        PROVE DuplicatesAgree' /\ NameChecked(t)'
    BY <2>1, <2>2, <2>4 DEF DuplicatesAgree, NameChecked, Named, SameDefinition, Rows
  <2>5. CASE CheckRefs(t)
    BY <2>3, <2>4, <2>5 DEF CheckRefs, NameChecked
  <2>6. CASE Check(t)
    <3>1. CASE \E code \in {200, 409, 500} : Finish(t, code)
      BY <2>3, <3>1
    <3>2. CASE /\ \A id \in Named(job.qn) : SameDefinition(id, job)
               /\ ~(Named(job.qn) # {} /\ ReturnsExisting(job)) /\ Proceed(t, job)
      BY <2>3, <2>4, <3>2 DEF Proceed, ReturnsExisting
    <3> QED
      BY <2>6, <3>1, <3>2 DEF Check
  <2> QED
    BY <1>8, <2>5, <2>6
<1>9. CASE Commit(t)
  <2>1. nextId \notin Rows
    BY DEF TypeOK, Rows
  <2>2. /\ Rows' = Rows \cup {nextId}
        /\ \A id \in Rows : entities'[id] = entities[id]
        /\ entities'[nextId] = [type |-> job.type, qn |-> job.qn, name |-> job.name, def |-> job.def]
    BY <1>9, <2>1 DEF Commit, Rows
  <2>3. \A id \in Rows : entities[id].qn = job.qn =>
          /\ entities[id].type = job.type /\ entities[id].name = job.name
          /\ job.type # "Anchor" => entities[id].def = job.def
    BY <1>9 DEF Commit, NameChecked, Named, SameDefinition
  <2>4. DuplicatesAgree'
    BY <2>2, <2>3 DEF DuplicatesAgree
  <2> QED
    BY <1>2, <1>9, <2>4 DEF Commit, NameChecked
<1>10. CASE DeleteEntityRow(t)
  <2>1. Rows' \subseteq Rows /\ \A id \in Rows' : entities'[id] = entities[id]
    BY <1>10 DEF DeleteEntityRow, Rows
  <2>2. DuplicatesAgree'
    BY <2>1 DEF DuplicatesAgree
  <2>3. pc'[t] \in {"purge", "idle"}
    BY <1>2, <1>3, <1>10 DEF DeleteEntityRow
  <2> QED
    BY <2>2, <2>3 DEF NameChecked
<1> QED
  BY <1>5, <1>6, <1>7, <1>8, <1>9, <1>10 DEF Step

\* Rows that share a qualified name are copies of one definition
\* (db_registry.py:430-446) as long as no other handler runs between the name check
\* and the commit of a POST, whatever fails and whatever ids the clients pass.
THEOREM DuplicatesAgreeAlways ==
  ASSUME \E t : Threads = {t} PROVE Spec => []DuplicatesAgree
<1> DEFINE Inv == DuplicatesAgree /\ \A t \in Threads : NameChecked(t)
<1>1. Init => Inv
  BY DEF Init, DuplicatesAgree, NameChecked, Rows
<1>2. TypeOK /\ Inv /\ [Next]_vars => Inv'
  <2> SUFFICES ASSUME TypeOK, Inv, [Next]_vars PROVE Inv'
    OBVIOUS
  <2>1. CASE UNCHANGED vars
    <3>1. DuplicatesAgree'
      BY <2>1 DEF vars, DuplicatesAgree, Rows
    <3>2. \A t \in Threads : NameChecked(t)'
      BY <2>1 DEF vars, NameChecked, Named, SameDefinition, Rows
    <3> QED
      BY <3>1, <3>2
  <2>2. CASE Next
    <3>1. PICK t \in Threads : Request(t) \/ Step(t) \/ Fail(t)
      BY <2>2 DEF Next
    <3>2. Threads = {t}
      BY <3>1
    <3>3. DuplicatesAgree' /\ NameChecked(t)'
      BY <3>1, NamesKept
    <3> QED
      BY <3>2, <3>3
  <2> QED
    BY <2>1, <2>2
<1>3. Inv => DuplicatesAgree
  OBVIOUS
<1> QED
  BY <1>1, <1>2, <1>3, TypeCorrect, PTL DEF Spec

\* An entity whose edges a DELETE cuts has nothing downstream of it at that moment
\* (main.py:103-114): the search that said so is still right.
THEOREM DeletesOnlyUnusedAlways ==
  ASSUME Undisturbed PROVE Spec => DeletesOnlyUnused
<1>1. ASSUME LineageInv, NEW t \in Threads, pc[t] = "edges"
      PROVE Neighbors({deleting[t].start}, deleting[t].rel) \cap Rows = {}
  <2> DEFINE job == deleting[t]
  <2>1. DeletionOK(job, "edges") /\ Unused(job.start)
    BY <1>1 DEF LineageInv, ThreadOK, DeletePcs, DeleteOK
  <2>2. job.rel \in {"Contains", "Produces"}
    BY <2>1 DEF DeletionOK, DependentsBy
  <2> HIDE DEF job
  <2>3. \A b \in Rows : <<job.start, b, job.rel>> \notin edges
    <3>1. \A b \in Rows : <<job.start, b, "Contains">> \notin edges
      BY <2>1 DEF Unused
    <3>2. \A b \in Rows : <<job.start, b, "Produces">> \notin edges
      BY <2>1 DEF Unused
    <3>3. CASE job.rel = "Contains"
      BY <3>1, <3>3
    <3>4. CASE job.rel = "Produces"
      BY <3>2, <3>4
    <3> QED
      BY <2>2, <3>3, <3>4
  <2> QED
    BY <2>3 DEF Neighbors, job
<1>2. LineageInv => [\A t \in Threads : pc[t] = "edges" /\ pc'[t] = "row" =>
        Neighbors({deleting[t].start}, deleting[t].rel) \cap Rows = {}]_vars
  BY <1>1
<1> QED
  BY <1>2, LineageInvAlways, PTL DEF DeletesOnlyUnused

\* Only the end of the second search from the target refuses a DELETE.
LEMMA OnlyRecheckRefuses ==
  ASSUME TypeOK, [Next]_vars, NEW t \in Threads, reply'[t] = 412, reply[t] # 412
  PROVE /\ BfsDone(t) /\ deleting[t].goal = "recheck"
        /\ (deleting[t].seen \cap Rows) \ {deleting[t].start} # {}
<1>1. PICK u \in Threads : Request(u) \/ Step(u) \/ Fail(u)
  BY DEF Next, vars
<1>2. ASSUME NEW code, reply' = [reply EXCEPT ![u] = code], code # 412 PROVE FALSE
  BY <1>2 DEF TypeOK
<1>3. ASSUME NEW job, Start(u, job) PROVE FALSE
  BY <1>2, <1>3 DEF Start, Goto
<1>4. ASSUME NEW label, NEW job, Continue(u, label, job) PROVE FALSE
  BY <1>2, <1>4 DEF Continue, Goto
<1>5. ASSUME NEW code, Finish(u, code), code # 412 PROVE FALSE
  BY <1>2, <1>5 DEF Finish
<1>6. ASSUME NEW label, Advance(u, label) PROVE FALSE
  BY <1>2, <1>6 DEF Advance, Goto
<1>7. ASSUME NEW job, NEW goal, FindDependents(u, job, goal) PROVE FALSE
  <2>1. CASE Finish(u, 404)
    BY <1>5, <2>1
  <2>2. CASE \E new : Continue(u, "bfs", new)
    BY <1>4, <2>2
  <2> QED
    BY <1>7, <2>1, <2>2 DEF FindDependents
<1>8. ~Request(u)
  <2>1. ASSUME NewProject(u) PROVE FALSE
    <3>1. PICK job : Start(u, job)
      BY <2>1 DEF NewProject, CreateProject
    <3> QED
      BY <1>3, <3>1
  <2>2. ASSUME \/ NewSource(u) \/ NewAnchor(u) \/ NewAnchorFeature(u) \/ NewDerivedFeature(u)
        PROVE Finish(u, 404) \/ \E job : Start(u, job)
    <3>1. CASE NewSource(u)
      BY <3>1 DEF NewSource, CreateSource
    <3>2. CASE NewAnchor(u)
      BY <3>2 DEF NewAnchor, CreateAnchor
    <3>3. CASE NewAnchorFeature(u)
      BY <3>3 DEF NewAnchorFeature, CreateAnchorFeature
    <3>4. CASE NewDerivedFeature(u)
      BY <3>4 DEF NewDerivedFeature, CreateDerivedFeature
    <3> QED
      BY <2>2, <3>1, <3>2, <3>3, <3>4
  <2>3. ASSUME NewDeletion(u) PROVE FALSE
    <3>1. PICK job : FindDependents(u, job, "dependents")
      BY <2>3 DEF NewDeletion
    <3> QED
      BY <1>7, <3>1
  <2> QED
    BY <1>3, <1>5, <2>1, <2>2, <2>3 DEF Request
<1>9. ~Check(u) /\ ~CheckRefs(u) /\ ~Commit(u) /\ ~Fail(u)
  BY <1>5, <1>6 DEF Check, Proceed, CheckRefs, Commit, Fail
<1>10. ~BfsStep(u) /\ ~Purge(u) /\ ~DeleteEdges(u) /\ ~DeleteEntityRow(u)
  <2>1. ~BfsStep(u) /\ ~DeleteEdges(u)
    BY <1>4 DEF BfsStep, DeleteEdges
  <2>2. ~DeleteEntityRow(u)
    BY <1>4, <1>5 DEF DeleteEntityRow
  <2>3. ASSUME Purge(u) PROVE FALSE
    <3> DEFINE job == deleting[u]
               new(id) == Search([job EXCEPT !.anchors = @ \ {id}, !.sources = @ \ {id}], "probe",
                                 id, IF id \in job.anchors THEN "Contains" ELSE "Produces")
    <3>1. \/ FindDependents(u, job, "recheck")
          \/ \E id \in ToProbe(job) : Continue(u, "bfs", new(id))
      BY <2>3 DEF Purge
    <3> HIDE DEF new
    <3> QED
      BY <1>4, <1>7, <3>1
  <2> QED
    BY <2>1, <2>2, <2>3
<1>11. BfsDone(u)
  BY <1>1, <1>8, <1>9, <1>10 DEF Step
<1>12. /\ Finish(u, 412) /\ deleting[u].goal = "recheck"
       /\ (deleting[u].seen \cap Rows) \ {deleting[u].start} # {}
  BY <1>4, <1>5, <1>11 DEF BfsDone, DeleteRow
<1>13. u = t
  BY <1>12 DEF Finish, TypeOK
<1> QED
  BY <1>11, <1>12, <1>13

\* What is left downstream of a target that is refused.
Justified(t) ==
  \E id \in deleting[t].seen \cap Rows :
    \/ entities[id].type \in FeatureTypes
    \/ (Neighbors({id}, "Produces") \cap Rows) \ deleting[t].seen # {}

LEMMA RefusalHasReason ==
  ASSUME NEW t \in Threads, Before(t), BfsDone(t), deleting[t].goal = "recheck",
         (deleting[t].seen \cap Rows) \ {deleting[t].start} # {}
  PROVE Justified(t)
<1>0. PICK job : job = deleting[t]
  OBVIOUS
<1> DEFINE target == job.target
           rel == DependentsBy(entities[target].type)
<1>1. /\ DeleteOK(job, "bfs") /\ job.frontier = {} /\ job.goal = "recheck"
      /\ (job.seen \cap Rows) \ {job.start} # {} /\ TablesOK /\ TypeOK
  BY <1>0 DEF Before, LineageInv, ThreadOK, BfsDone, DeletePcs
<1>2. /\ SearchOK(job) /\ ProbedOK(job, "bfs") /\ job.start = target /\ job.rel = rel
      /\ target \in Rows /\ job.anchors = {} /\ job.sources = {} /\ ~Probing(job, "bfs")
  BY <1>1 DEF DeleteOK, DeletionOK, Probing
<1>3. rel \in {"Contains", "Produces"}
  BY DEF DependentsBy
<1> HIDE DEF rel, target
<1>4. ASSUME NEW c, <<target, c, rel>> \in edges PROVE c \in job.seen \cap Rows
  BY <1>1, <1>2, <1>3, <1>4, SearchFound
<1>5. ASSUME NEW c, <<target, c, rel>> \in edges, entities[c].type = "Anchor"
      PROVE \E f \in job.seen \cap Rows : entities[f].type \in FeatureTypes
  <2>1. c \in job.seen /\ c \in Rows
    BY <1>4, <1>5
  <2>2. PICK f \in Rows : <<c, f, "Contains">> \in edges
    BY <1>2, <1>5, <2>1 DEF ProbedOK, rel, target
  <2>3. entities[f].type \in FeatureTypes
    BY <1>5, <2>2, ContainsByType DEF MayContain, FeatureTypes
  <2>4. f \in job.seen
    <3>1. CASE rel = "Contains"
      BY <1>1, <1>2, <2>1, <2>2, <3>1 DEF SearchOK
    <3>2. CASE rel = "Produces"
      <4>1. <<target, c, "Produces">> \in edges
        BY <1>5, <3>2
      <4>2. <<target, f, "Produces">> \in edges
        BY <1>1, <1>2, <2>1, <2>2, <4>1 DEF TablesOK, FeaturesFollowAnchor
      <4> QED
        BY <1>4, <3>2, <4>2
    <3> QED
      BY <1>3, <3>1, <3>2
  <2> QED
    BY <2>3, <2>4
<1>6. PICK c \in Rows : <<target, c, rel>> \in edges
  BY <1>1, <1>2 DEF SearchOK
<1>7. c \in job.seen
  BY <1>4, <1>6
<1>8. \/ entities[c].type \in FeatureTypes \cup {"Anchor"}
      \/ /\ rel = "Contains" /\ entities[c].type = "Source"
         /\ entities[target].type = "Project"
  <2>1. CASE rel = "Contains"
    <3>1. MayContain(entities[target].type, entities[c].type)
      BY <1>6, <2>1, ContainsByType
    <3>2. entities[c].type \in EntityType
      BY <1>1, <1>6 DEF TypeOK, Rows, Entity
    <3> QED
      BY <2>1, <3>1, <3>2 DEF MayContain, FeatureTypes, EntityType
  <2>2. CASE rel = "Produces"
    <3>1. MayProduce(entities[target].type, entities[c].type)
      BY <1>6, <2>2, ProducesByType
    <3> QED
      BY <3>1 DEF MayProduce, FeatureTypes
  <2> QED
    BY <1>3, <2>1, <2>2
<1>9. CASE entities[c].type \in FeatureTypes
  BY <1>0, <1>7, <1>9 DEF Justified
<1>10. CASE entities[c].type = "Anchor"
  BY <1>0, <1>5, <1>6, <1>10 DEF Justified
<1>11. CASE /\ rel = "Contains" /\ entities[c].type = "Source"
            /\ entities[target].type = "Project"
  <2>1. PICK u \in Rows : <<c, u, "Produces">> \in edges
    BY <1>2, <1>6, <1>11 DEF ProbedOK, rel, target
  <2>2. CASE u \notin job.seen
    <3>1. u \in Neighbors({c}, "Produces")
      BY <1>1, <2>1 DEF Neighbors, TypeOK, Rows, Issued
    <3> QED
      BY <1>0, <1>7, <2>2, <3>1 DEF Justified
  <2>3. CASE u \in job.seen /\ entities[u].type \in FeatureTypes
    BY <1>0, <2>3 DEF Justified
  <2>4. CASE u \in job.seen /\ entities[u].type = "Anchor"
    <3>1. PICK a \in job.seen : <<a, u, "Contains">> \in edges
      BY <1>2, <1>11, <2>4 DEF SearchOK
    <3>2. entities[a].type = "Project"
      BY <2>4, <3>1, ContainsByType DEF MayContain
    <3>3. a = target
      <4>1. SUFFICES ASSUME a # target PROVE FALSE
        OBVIOUS
      <4>2. PICK b \in job.seen : <<b, a, "Contains">> \in edges
        BY <1>2, <1>11, <3>1, <4>1 DEF SearchOK
      <4> QED
        BY <3>2, <4>2, ContainsByType DEF MayContain
    <3> QED
      BY <1>0, <1>5, <1>11, <2>4, <3>1, <3>3 DEF Justified
  <2>5. MayProduce(entities[c].type, entities[u].type)
    BY <2>1, ProducesByType
  <2> QED
    BY <1>11, <2>2, <2>3, <2>4, <2>5 DEF MayProduce, FeatureTypes
<1> QED
  BY <1>8, <1>9, <1>10, <1>11

\* A DELETE is refused (412) only for a feature downstream of its target, or for an
\* anchor or source there that something else uses: what was merely empty is gone by
\* then (main.py:108-113).
THEOREM RefusalIsJustifiedAlways ==
  ASSUME Undisturbed PROVE Spec => RefusalIsJustified
<1>1. ASSUME TypeOK, Mirrored, EdgesByAge, LineageInv, [Next]_vars,
             NEW t \in Threads, reply'[t] = 412, reply[t] # 412
      PROVE Justified(t)
  <2>1. Before(t)
    BY <1>1 DEF Undisturbed, Before
  <2>2. /\ BfsDone(t) /\ deleting[t].goal = "recheck"
        /\ (deleting[t].seen \cap Rows) \ {deleting[t].start} # {}
    BY <1>1, OnlyRecheckRefuses
  <2> QED
    BY <2>1, <2>2, RefusalHasReason
<1>2. TypeOK /\ Mirrored /\ EdgesByAge /\ LineageInv /\ [Next]_vars =>
        [\A t \in Threads : reply'[t] = 412 /\ reply[t] # 412 => Justified(t)]_vars
  BY <1>1
<1> QED
  BY <1>2, TypeCorrect, MirroredAlways, EdgesByAgeAlways, LineageInvAlways, PTL
     DEF Spec, RefusalIsJustified, Justified

-----------------------------------------------------------------------------
(* Refinement *)

\* Of the edges, those that LineageStore knows lead to what contains an entity and
\* to what it consumes.
Refs == {<<e[1], e[2]>> : e \in {f \in edges : f[3] \in {"BelongsTo", "Consumes"}}}
Nodes == Rows \ Leaving

\* A step that leaves the edges, the ids and the entities that stay alone is a
\* stuttering step of LineageStore.
Stutters == Nodes' = Nodes /\ edges' = edges /\ nextId' = nextId

LEMMA NewBackwards ==
  ASSUME NEW id, NEW owners, NEW inputs, NEW e \in NewEdges(id, owners, inputs),
         e[3] \in {"BelongsTo", "Consumes"}
  PROVE e[1] = id /\ e[2] \in owners \cup inputs
BY DEF NewEdges, BothWays

LEMMA CommitCreates ==
  ASSUME NEW t \in Threads, Before(t), Commit(t)
  PROVE Lineage!Create
<1> DEFINE job == creating[t]
           added == NewEdges(nextId, job.owners, job.inputs)
<1>1. TypeOK /\ CreationOK(job, "commit") /\ Threads = {t} /\ pc[t] = "commit"
  BY DEF Before, LineageInv, ThreadOK, Commit, CreatePcs
<1>2. pc'[t] = "idle"
  BY <1>1, FinishOK DEF Commit
<1>3. Leaving = {} /\ Leaving' = {}
  BY <1>1, <1>2 DEF Leaving, Commit
<1>4. Rows' = Rows \cup {nextId} /\ edges' = edges \cup added /\ nextId' = nextId + 1
  BY DEF Commit, Rows
<1>5. job.owners \cup job.inputs \subseteq Rows
  BY <1>1 DEF CreationOK
<1>6. Nodes' = Nodes \cup {nextId}
  BY <1>3, <1>4 DEF Nodes
<1> HIDE DEF added
<1>7. Refs \subseteq Refs'
  BY <1>4 DEF Refs
<1>8. Refs' \ Refs \subseteq {nextId} \X Nodes
  <2> SUFFICES ASSUME NEW r \in Refs', r \notin Refs PROVE r \in {nextId} \X Nodes
    OBVIOUS
  <2>1. PICK e \in edges' : e[3] \in {"BelongsTo", "Consumes"} /\ r = <<e[1], e[2]>>
    BY DEF Refs
  <2>2. e \notin edges
    BY <2>1 DEF Refs
  <2>3. e[1] = nextId /\ e[2] \in job.owners \cup job.inputs
    BY <1>4, <2>1, <2>2, NewBackwards DEF added
  <2>4. e[2] \in Nodes
    BY <1>3, <1>5, <2>3 DEF Nodes
  <2> QED
    BY <2>1, <2>3, <2>4
<1> QED
  BY <1>4, <1>6, <1>7, <1>8 DEF Lineage!Create, Nodes, Refs

LEMMA DeleteEdgesDeletes ==
  ASSUME NEW t \in Threads, Before(t), DeleteEdges(t)
  PROVE Lineage!Delete
<1> DEFINE gone == deleting[t].start
<1>1. /\ DeleteOK(deleting[t], "edges") /\ TypeOK
      /\ Threads = {t} /\ Continue(t, "row", deleting[t])
  BY DEF Before, TypeOK, LineageInv, ThreadOK, DeleteEdges, DeletePcs
<1>2. pc[t] = "edges" /\ pc'[t] = "row" /\ deleting'[t] = deleting[t]
  BY <1>1 DEF DeleteEdges, Continue, Goto, TypeOK
<1>3. Leaving = {} /\ Leaving' = {gone}
  BY <1>1, <1>2 DEF Leaving
<1>4. Rows' = Rows /\ nextId' = nextId
  BY DEF DeleteEdges, Rows
<1>5. Unused(gone) /\ gone \in Rows
  BY <1>1 DEF DeleteOK, DeletionOK
<1> HIDE DEF gone
<1>6. gone \in Nodes /\ Nodes' = Nodes \ {gone}
  BY <1>3, <1>4, <1>5 DEF Nodes
<1>7. \A e : e \in edges' <=> e \in edges /\ e[1] # gone /\ e[2] # gone
  BY DEF DeleteEdges, EdgesWithout, gone
<1>8. ASSUME NEW e \in edges, e[3] \in {"BelongsTo", "Consumes"} PROVE e[2] # gone
  <2>1. e = <<e[1], e[2], e[3]>> /\ e[1] \in Rows
    BY <1>1 DEF TypeOK, Before, LineageInv, TablesOK, EndsExist
  <2>2. e[3] = "BelongsTo" => <<e[2], e[1], "Contains">> \in edges
    <3>1. e[3] = "BelongsTo" => <<e[1], e[2], "BelongsTo">> \in edges
      BY <2>1
    <3> QED
      BY <3>1, MirroredEnds
  <2>3. e[3] = "Consumes" => <<e[2], e[1], "Produces">> \in edges
    <3>1. e[3] = "Consumes" => <<e[1], e[2], "Consumes">> \in edges
      BY <2>1
    <3> QED
      BY <3>1, MirroredEnds
  <2>4. <<gone, e[1], "Contains">> \notin edges /\ <<gone, e[1], "Produces">> \notin edges
    BY <1>5, <2>1 DEF Unused
  <2>5. e[2] = gone => <<gone, e[1], "Contains">> = <<e[2], e[1], "Contains">>
    OBVIOUS
  <2>6. e[2] = gone => <<gone, e[1], "Produces">> = <<e[2], e[1], "Produces">>
    OBVIOUS
  <2> QED
    BY <1>8, <2>2, <2>3, <2>4, <2>5, <2>6
<1>9. \A r \in Refs : r[2] # gone
  BY <1>8 DEF Refs
<1>10. Refs' = {r \in Refs : r[1] # gone}
  <2>1. ASSUME NEW r \in Refs' PROVE r \in Refs /\ r[1] # gone
    BY <1>7, <2>1 DEF Refs
  <2>2. ASSUME NEW r \in Refs, r[1] # gone PROVE r \in Refs'
    <3>1. PICK e \in edges : e[3] \in {"BelongsTo", "Consumes"} /\ r = <<e[1], e[2]>>
      BY <2>2 DEF Refs
    <3>2. e[1] # gone /\ e[2] # gone
      BY <1>8, <2>2, <3>1
    <3>3. e \in edges'
      BY <1>7, <3>1, <3>2
    <3> QED
      BY <3>1, <3>3 DEF Refs
  <2> QED
    BY <2>1, <2>2
<1> QED
  BY <1>4, <1>6, <1>9, <1>10 DEF Lineage!Delete, Nodes, Refs

\* The row of an entity goes when LineageStore has let go of it already.
LEMMA RowStutters ==
  ASSUME NEW t \in Threads, Before(t), DeleteEntityRow(t)
  PROVE Stutters
<1>1. TypeOK /\ Threads = {t} /\ pc[t] = "row"
  BY DEF Before, DeleteEntityRow
<1>2. pc'[t] \in {"purge", "idle"}
  BY <1>1 DEF DeleteEntityRow, Continue, Goto, Finish, TypeOK
<1>3. Leaving = {deleting[t].start} /\ Leaving' = {}
  BY <1>1, <1>2 DEF Leaving, DeleteEntityRow
<1>4. Rows' = Rows \ {deleting[t].start}
  BY DEF DeleteEntityRow, Rows
<1> QED
  BY <1>3, <1>4 DEF Stutters, Nodes, DeleteEntityRow

LEMMA QuietStutters ==
  ASSUME NEW t \in Threads, Before(t), UNCHANGED tables, pc[t] # "row", pc'[t] # "row"
  PROVE Stutters
<1>1. Leaving = {} /\ Leaving' = {}
  BY DEF Before, Leaving
<1> QED
  BY <1>1 DEF Stutters, Nodes, Rows

\* The registry implements LineageStore: an entity appears with its references, all
\* to entities that are there, and when its edges are cut none refers to it.
THEOREM LineageImplemented ==
  ASSUME Undisturbed PROVE Spec => ImplementsLineageStore
<1>1. Init => Lineage!Init
  BY DEF Init, Lineage!Init, Rows, Leaving
<1>2. TypeOK /\ Mirrored /\ EdgesByAge /\ LineageInv /\ [Next]_vars =>
        [Lineage!Next]_<<Nodes, Refs, nextId>>
  <2> SUFFICES ASSUME TypeOK, Mirrored, EdgesByAge, LineageInv, [Next]_vars
               PROVE Lineage!Create \/ Lineage!Delete \/ UNCHANGED <<Nodes, Refs, nextId>>
    BY DEF Lineage!Next
  <2>1. Stutters => UNCHANGED <<Nodes, Refs, nextId>>
    BY DEF Stutters, Refs
  <2>2. CASE UNCHANGED vars
    BY <2>1, <2>2 DEF vars, Stutters, Nodes, Rows, Leaving
  <2>3. CASE Next
    <3>1. PICK t \in Threads : Request(t) \/ Step(t) \/ Fail(t)
      BY <2>3 DEF Next
    <3>2. Before(t) /\ ~Fail(t)
      BY <3>1 DEF Undisturbed, Before, Fail
    <3>3. CASE NewProject(t) \/ NewSource(t) \/ NewAnchor(t) \/ NewAnchorFeature(t)
                 \/ NewDerivedFeature(t)
      BY <2>1, <3>2, <3>3, PostOK, QuietStutters
    <3>4. CASE NewDeletion(t)
      BY <2>1, <3>2, <3>4, NewDeletionOK, QuietStutters
    <3>5. CASE Check(t) \/ CheckRefs(t)
      BY <2>1, <3>2, <3>5, CheckOK, QuietStutters
    <3>6. CASE Commit(t)
      BY <3>2, <3>6, CommitCreates
    <3>7. CASE BfsStep(t)
      BY <2>1, <3>2, <3>7, BfsStepOK, QuietStutters
    <3>8. CASE BfsDone(t)
      BY <2>1, <3>2, <3>8, BfsDoneOK, QuietStutters
    <3>9. CASE Purge(t)
      BY <2>1, <3>2, <3>9, PurgeOK, QuietStutters
    <3>10. CASE DeleteEdges(t)
      BY <3>2, <3>10, DeleteEdgesDeletes
    <3>11. CASE DeleteEntityRow(t)
      BY <2>1, <3>2, <3>11, RowStutters
    <3> QED
      BY <3>1, <3>2, <3>3, <3>4, <3>5, <3>6, <3>7, <3>8, <3>9, <3>10, <3>11
         DEF Request, Step
  <2> QED
    BY <2>2, <2>3
<1> QED
  BY <1>1, <1>2, TypeCorrect, MirroredAlways, EdgesByAgeAlways, LineageInvAlways, PTL
     DEF Spec, ImplementsLineageStore, Lineage!Spec, Nodes, Refs
=============================================================================
