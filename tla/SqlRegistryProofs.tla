------------------------- MODULE SqlRegistryProofs -------------------------
(***************************************************************************)
(* What holds of the SQL registry for every number of threads, every set of *)
(* names and definitions, every id a request may pass, with faults.         *)
(***************************************************************************)
EXTENDS SqlRegistry, TLAPS

USE DEF tables

LEMMA AnyDefIsDef == AnyDef \in Defs
BY DefsAssumption DEF AnyDef

\* The idle values of a thread's locals have the type of the locals.
LEMMA IdleTypes ==
  ASSUME TypeOK
  PROVE NoCreation \in Creation /\ NoDeletion \in Deletion
<1>1. 0 \in Issued
  BY DEF TypeOK, Issued
<1>2. <<>> \in Seq(Parts)
  OBVIOUS
<1> QED
  BY <1>1, <1>2, AnyDefIsDef
  DEF NoCreation, NoDeletion, Creation, Deletion, EntityType, RelationshipType

\* A step leaves the locals of the threads well-typed for the ids issued so far.
LocalsTyped ==
  /\ pc' \in [Threads -> {"idle"} \cup CreatePcs \cup DeletePcs]
  /\ creating' \in [Threads -> Creation]
  /\ deleting' \in [Threads -> Deletion]
  /\ reply' \in [Threads -> Codes]

\* A handler that ends leaves well-typed locals behind.
LEMMA FinishType ==
  ASSUME TypeOK, NEW t \in Threads, NEW code \in Codes, Finish(t, code)
  PROVE LocalsTyped
BY IdleTypes DEF TypeOK, Finish, LocalsTyped

\* So does one that goes on, whatever well-typed local it changes.
LEMMA GotoType ==
  ASSUME TypeOK, NEW t \in Threads, NEW label \in CreatePcs \cup DeletePcs,
         Goto(t, label)
  PROVE /\ pc' \in [Threads -> {"idle"} \cup CreatePcs \cup DeletePcs]
        /\ reply' \in [Threads -> Codes]
BY DEF TypeOK, Goto, Codes

LEMMA ContinueType ==
  ASSUME TypeOK, NEW t \in Threads, NEW label \in CreatePcs \cup DeletePcs,
         NEW job \in Deletion, Continue(t, label, job)
  PROVE LocalsTyped
BY GotoType DEF TypeOK, Continue, LocalsTyped

LEMMA AdvanceType ==
  ASSUME TypeOK, NEW t \in Threads, NEW label \in CreatePcs \cup DeletePcs,
         Advance(t, label)
  PROVE LocalsTyped
BY GotoType DEF TypeOK, Advance, LocalsTyped

LEMMA StartType ==
  ASSUME TypeOK, NEW t \in Threads, NEW job \in Creation, Start(t, job)
  PROVE LocalsTyped
<1>1. "check" \in CreatePcs \cup DeletePcs
  BY DEF CreatePcs
<1>2. Goto(t, "check")
  BY DEF Start
<1> QED
  BY <1>1, <1>2, GotoType DEF TypeOK, Start, LocalsTyped

\* While the tables stay as they are, types do not move.
LEMMA TablesFrame ==
  ASSUME TypeOK, UNCHANGED tables, LocalsTyped
  PROVE TypeOK'
BY DEF TypeOK, Issued, Creation, Deletion, LocalsTyped

-----------------------------------------------------------------------------
(* Type correctness *)

\* A search starts from the id it is given, with well-typed locals.
LEMMA SearchType ==
  ASSUME TypeOK, NEW job \in Deletion, NEW start \in Issued,
         NEW goal \in {"dependents", "probe", "recheck"},
         NEW rel \in RelationshipType
  PROVE Search(job, goal, start, rel) \in Deletion
BY DEF Search, Deletion

LEMMA FindDependentsType ==
  ASSUME TypeOK, NEW t \in Threads, NEW job \in Deletion,
         NEW goal \in {"dependents", "recheck"},
         FindDependents(t, job, goal)
  PROVE LocalsTyped
<1>1. CASE Finish(t, 404)
  BY <1>1, FinishType DEF Codes
<1>2. CASE \E rel \in RelationshipType :
             Continue(t, "bfs", Search(job, goal, job.target, rel))
  <2>1. PICK rel \in RelationshipType :
          Continue(t, "bfs", Search(job, goal, job.target, rel))
    BY <1>2
  <2>2. Search(job, goal, job.target, rel) \in Deletion
    BY SearchType DEF Deletion
  <2> QED
    BY <2>1, <2>2, ContinueType DEF DeletePcs
<1>3. DependentsBy(entities[job.target].type) \in RelationshipType
  BY DEF DependentsBy, RelationshipType
<1> QED
  BY <1>1, <1>2, <1>3 DEF FindDependents

LEMMA NeighborsType ==
  ASSUME NEW ids, NEW rel
  PROVE Neighbors(ids, rel) \subseteq Issued
BY DEF Neighbors

LEMMA ProceedType ==
  ASSUME TypeOK, NEW t \in Threads, NEW job, Proceed(t, job)
  PROVE LocalsTyped
<1>1. CASE Advance(t, "commit")
  BY <1>1, AdvanceType DEF CreatePcs
<1>2. CASE Advance(t, "refs")
  BY <1>2, AdvanceType DEF CreatePcs
<1>3. CASE Finish(t, 500)
  BY <1>3, FinishType DEF Codes
<1> QED
  BY <1>1, <1>2, <1>3 DEF Proceed

\* The row a POST handler is going to insert refers to ids given out already.
LEMMA NewJobType ==
  ASSUME TypeOK, NEW type \in EntityType, NEW qn \in Seq(Parts),
         NEW name \in Seq(Parts), NEW def \in Defs,
         NEW owners \in SUBSET Issued, NEW inputs \in SUBSET Issued
  PROVE [type |-> type, qn |-> qn, name |-> name, def |-> def,
         owners |-> owners, inputs |-> inputs] \in Creation
BY DEF Creation

LEMMA QualifiedNameType ==
  ASSUME TypeOK, NEW parent, Readable(parent), NEW name \in Names
  PROVE /\ parent \in Issued
        /\ entities[parent].qn \o name \in Seq(Parts)
        /\ name \in Seq(Parts)
<1>1. parent \in DOMAIN entities /\ parent \in Issued
  BY DEF TypeOK, Readable, Rows, Issued
<1>2. entities[parent].qn \in Seq(Parts)
  BY <1>1 DEF TypeOK, Entity
<1>3. name \in Seq(Parts)
  BY NamesAssumption
<1> QED
  BY <1>1, <1>2, <1>3

LEMMA ArgsType ==
  ASSUME TypeOK, NEW types
  PROVE Args(types) \subseteq Issued
BY DEF TypeOK, Args, OfType, Rows, Issued

LEMMA RequestType ==
  ASSUME TypeOK, NEW t \in Threads, Request(t)
  PROVE TypeOK'
<1>1. CASE NewProject(t)
  <2>1. PICK name \in Names :
          Start(t, [type |-> "Project", qn |-> name, name |-> name, def |-> AnyDef,
                    owners |-> {}, inputs |-> {}])
    BY <1>1 DEF NewProject, CreateProject
  <2>2. [type |-> "Project", qn |-> name, name |-> name, def |-> AnyDef,
         owners |-> {}, inputs |-> {}] \in Creation
    BY NamesAssumption, AnyDefIsDef, NewJobType DEF EntityType
  <2>3. LocalsTyped
    BY <2>1, <2>2, StartType
  <2> QED
    BY <1>1, <2>3, TablesFrame DEF NewProject, Accept
<1>2. CASE NewSource(t)
  <2>1. PICK project \in Args({"Project"}), name \in Names, def \in Defs :
          \/ /\ Readable(project)
             /\ Start(t, [type |-> "Source", qn |-> entities[project].qn \o name,
                          name |-> name, def |-> def, owners |-> {project}, inputs |-> {}])
          \/ ~Readable(project) /\ Finish(t, 404)
    BY <1>2 DEF NewSource, CreateSource
  <2>2. ASSUME Readable(project) PROVE LocalsTyped
    <3>1. [type |-> "Source", qn |-> entities[project].qn \o name,
           name |-> name, def |-> def, owners |-> {project}, inputs |-> {}] \in Creation
      BY <2>2, QualifiedNameType, NewJobType DEF EntityType
    <3> QED
      BY <2>1, <2>2, <3>1, StartType
  <2>3. ASSUME ~Readable(project) PROVE LocalsTyped
    BY <2>1, <2>3, FinishType DEF Codes
  <2> QED
    BY <1>2, <2>2, <2>3, TablesFrame DEF NewSource, Accept
<1>3. CASE NewAnchor(t)
  <2>1. PICK project \in Args({"Project"}), name \in Names,
             source \in Args({"Source"}) :
          \/ /\ Readable(project)
             /\ Start(t, [type |-> "Anchor", qn |-> entities[project].qn \o name,
                          name |-> name, def |-> AnyDef, owners |-> {project},
                          inputs |-> {source}])
          \/ ~Readable(project) /\ Finish(t, 404)
    BY <1>3 DEF NewAnchor, CreateAnchor
  <2>2. ASSUME Readable(project) PROVE LocalsTyped
    <3>1. [type |-> "Anchor", qn |-> entities[project].qn \o name,
           name |-> name, def |-> AnyDef, owners |-> {project}, inputs |-> {source}] \in Creation
      BY <2>2, QualifiedNameType, NewJobType, AnyDefIsDef, ArgsType DEF EntityType
    <3> QED
      BY <2>1, <2>2, <3>1, StartType
  <2>3. ASSUME ~Readable(project) PROVE LocalsTyped
    BY <2>1, <2>3, FinishType DEF Codes
  <2> QED
    BY <1>3, <2>2, <2>3, TablesFrame DEF NewAnchor, Accept
<1>4. CASE NewAnchorFeature(t)
  <2> DEFINE inputs(a) == IF entities[a].type = "Anchor"
                          THEN Neighbors({a}, "Consumes") ELSE {}
             job(a, p, n, d) ==
               [type |-> "AnchorFeature", qn |-> entities[a].qn \o n,
                name |-> n, def |-> d, owners |-> {p, a}, inputs |-> inputs(a)]
  <2>1. PICK anchor \in Args({"Anchor"}), name \in Names, def \in Defs :
          \E project \in ProjectArgsFor(anchor) :
            \/ /\ Readable(anchor)
               /\ Start(t, job(anchor, project, name, def))
            \/ ~Readable(anchor) /\ Finish(t, 404)
    BY <1>4 DEF NewAnchorFeature, CreateAnchorFeature
  <2>2. ASSUME Readable(anchor) PROVE LocalsTyped
    <3>1. PICK project \in ProjectArgsFor(anchor) :
            Start(t, job(anchor, project, name, def))
      BY <2>1, <2>2
    <3>2. project \in Issued /\ anchor \in Issued
      BY ArgsType DEF ProjectArgsFor, OfType, Rows, TypeOK, Issued
    <3>3. inputs(anchor) \subseteq Issued
      BY NeighborsType
    <3>4. job(anchor, project, name, def) \in Creation
      <4> HIDE DEF inputs
      <4> QED
        BY <2>2, <3>2, <3>3, QualifiedNameType, NewJobType DEF EntityType
    <3> QED
      BY <3>1, <3>4, StartType
  <2>3. ASSUME ~Readable(anchor) PROVE LocalsTyped
    BY <2>1, <2>3, FinishType DEF Codes
  <2> QED
    BY <1>4, <2>2, <2>3, TablesFrame DEF NewAnchorFeature, Accept
<1>5. CASE NewDerivedFeature(t)
  <2>1. PICK project \in Args({"Project"}), name \in Names, def \in Defs,
             inputs \in {s \in SUBSET Args(FeatureTypes) : Cardinality(s) <= MaxInputs} :
          \/ /\ Readable(project)
             /\ Start(t, [type |-> "DerivedFeature",
                          qn |-> entities[project].qn \o name,
                          name |-> name, def |-> def, owners |-> {project}, inputs |-> inputs])
          \/ ~Readable(project) /\ Finish(t, 404)
    BY <1>5 DEF NewDerivedFeature, CreateDerivedFeature
  <2>2. ASSUME Readable(project) PROVE LocalsTyped
    <3>1. inputs \in SUBSET Issued
      BY ArgsType
    <3>2. [type |-> "DerivedFeature", qn |-> entities[project].qn \o name,
           name |-> name, def |-> def, owners |-> {project}, inputs |-> inputs] \in Creation
      BY <2>2, <3>1, QualifiedNameType, NewJobType DEF EntityType
    <3> QED
      BY <2>1, <2>2, <3>2, StartType
  <2>3. ASSUME ~Readable(project) PROVE LocalsTyped
    BY <2>1, <2>3, FinishType DEF Codes
  <2> QED
    BY <1>5, <2>2, <2>3, TablesFrame DEF NewDerivedFeature, Accept
<1>6. CASE NewDeletion(t)
  <2>1. PICK id \in Issued :
          FindDependents(t, [NoDeletion EXCEPT !.target = id], "dependents")
    BY <1>6 DEF NewDeletion
  <2>2. [NoDeletion EXCEPT !.target = id] \in Deletion
    BY IdleTypes DEF Deletion
  <2> QED
    BY <1>6, <2>1, <2>2, FindDependentsType, TablesFrame DEF NewDeletion
<1> QED
  BY <1>1, <1>2, <1>3, <1>4, <1>5, <1>6 DEF Request

\* The tables grow by one row: what was well-typed stays so, with one id more.
LEMMA CommitType ==
  ASSUME TypeOK, NEW t \in Threads, Commit(t)
  PROVE TypeOK'
<1> DEFINE job == creating[t]
<1>1. nextId \in Nat \ {0} /\ nextId' = nextId + 1
  BY DEF Commit, TypeOK
<1>2. Issued' = Issued \cup {nextId}
  BY <1>1 DEF Issued
<1>3. job \in Creation /\ job.owners \subseteq Issued /\ job.inputs \subseteq Issued
  BY DEF TypeOK, Creation
<1>4. /\ DOMAIN entities' \subseteq 1..(nextId' - 1)
      /\ entities' \in [DOMAIN entities' -> Entity]
  <2>1. DOMAIN entities' = Rows \cup {nextId}
    BY DEF Commit
  <2>2. DOMAIN entities \subseteq 1..(nextId - 1)
    BY DEF TypeOK
  <2>3. [type |-> job.type, qn |-> job.qn, name |-> job.name,
        def |-> job.def] \in Entity
    BY <1>3 DEF Creation, Entity
  <2>4. ASSUME NEW id \in Rows PROVE entities[id] \in Entity
    BY DEF Rows, TypeOK
  <2> QED
    BY <1>1, <2>1, <2>2, <2>3, <2>4 DEF Commit, Rows
<1>5. edges' \subseteq Issued' \X Issued' \X RelationshipType
  <2>1. edges \subseteq Issued \X Issued \X RelationshipType
    BY DEF TypeOK
  <2>2. edges' = edges \cup NewEdges(nextId, job.owners, job.inputs)
    BY DEF Commit
  <2>3. NewEdges(nextId, job.owners, job.inputs)
          \subseteq Issued' \X Issued' \X RelationshipType
    BY <1>2, <1>3 DEF NewEdges, BothWays, RelationshipType
  <2> QED
    BY <1>2, <2>1, <2>2, <2>3
<1>6. LocalsTyped
  BY FinishType DEF Commit, Codes
<1>7. Creation \subseteq Creation' /\ Deletion \subseteq Deletion'
  BY <1>2 DEF Creation, Deletion
<1> QED
  BY <1>1, <1>4, <1>5, <1>6, <1>7 DEF TypeOK, LocalsTyped

\* A delete takes rows and edges away, and hands no id out.
LEMMA ShrinkType ==
  ASSUME TypeOK, LocalsTyped, nextId' = nextId, edges' \subseteq edges,
         NEW gone, entities' = [id \in Rows \ gone |-> entities[id]]
  PROVE TypeOK'
<1>1. Issued' = Issued /\ Creation' = Creation /\ Deletion' = Deletion
  BY DEF Issued, Creation, Deletion
<1>2. /\ DOMAIN entities' \subseteq 1..(nextId' - 1)
      /\ entities' \in [DOMAIN entities' -> Entity]
  BY DEF TypeOK, Rows
<1> QED
  BY <1>1, <1>2 DEF TypeOK, LocalsTyped

LEMMA StepType ==
  ASSUME TypeOK, NEW t \in Threads, Step(t)
  PROVE TypeOK'
<1> DEFINE job == deleting[t]
<1>1. job \in Deletion
  BY DEF TypeOK
<1>2. CASE Check(t)
  <2>1. LocalsTyped
    BY <1>2, FinishType, ProceedType DEF Check, Codes
  <2> QED
    BY <1>2, <2>1, TablesFrame DEF Check
<1>3. CASE CheckRefs(t)
  <2>1. LocalsTyped
    BY <1>3, FinishType, AdvanceType DEF CheckRefs, Codes, CreatePcs
  <2> QED
    BY <1>3, <2>1, TablesFrame DEF CheckRefs
<1>4. CASE Commit(t)
  BY <1>4, CommitType
<1>5. CASE BfsStep(t)
  <2> DEFINE next == Neighbors(job.frontier, job.rel)
  <2>1. [job EXCEPT !.frontier = next, !.seen = @ \cup next] \in Deletion
    BY <1>1, NeighborsType DEF Deletion
  <2>2. LocalsTyped
    BY <1>5, <2>1, ContinueType DEF BfsStep, DeletePcs
  <2> QED
    BY <1>5, <2>2, TablesFrame DEF BfsStep
<1>6. CASE BfsDone(t)
  <2> DEFINE others == (job.seen \cap Rows) \ {job.start}
             found == [job EXCEPT !.anchors = others \cap OfType({"Anchor"}),
                                  !.sources = others \cap OfType({"Source"})]
  <2>1. found \in Deletion
    BY <1>1 DEF Deletion
  <2>2. \/ Finish(t, 404) \/ Finish(t, 412)
        \/ Continue(t, "edges", job)
        \/ Continue(t, "purge", found) \/ Continue(t, "purge", job)
    BY <1>6 DEF BfsDone, DeleteRow
  <2>3. LocalsTyped
    BY <1>1, <2>1, <2>2, FinishType, ContinueType DEF Codes, DeletePcs
  <2> QED
    BY <1>6, <2>3, TablesFrame DEF BfsDone
<1>7. CASE Purge(t)
  <2>1. ASSUME NEW id \in ToProbe(job), NEW rel \in RelationshipType,
               Continue(t, "bfs",
                 Search([job EXCEPT !.anchors = @ \ {id}, !.sources = @ \ {id}],
                        "probe", id, rel))
        PROVE LocalsTyped
    <3>1. id \in Issued
      BY <1>1 DEF ToProbe, Deletion
    <3>2. [job EXCEPT !.anchors = @ \ {id}, !.sources = @ \ {id}] \in Deletion
      BY <1>1 DEF Deletion
    <3> QED
      BY <2>1, <3>1, <3>2, SearchType, ContinueType DEF DeletePcs
  <2>2. ASSUME FindDependents(t, job, "recheck") PROVE LocalsTyped
    BY <1>1, <2>2, FindDependentsType
  <2>3. LocalsTyped
    BY <1>7, <2>1, <2>2 DEF Purge, RelationshipType
  <2> QED
    BY <1>7, <2>3, TablesFrame DEF Purge
<1>8. CASE DeleteEdges(t)
  <2>1. LocalsTyped
    BY <1>1, <1>8, ContinueType DEF DeleteEdges, DeletePcs
  <2>2. edges' \subseteq edges /\ nextId' = nextId
    BY <1>8 DEF DeleteEdges, EdgesWithout
  <2>3. entities' = [id \in Rows \ {} |-> entities[id]]
    BY <1>8 DEF DeleteEdges, Rows, TypeOK
  <2> QED
    BY <2>1, <2>2, <2>3, ShrinkType
<1>9. CASE DeleteEntityRow(t)
  <2>1. LocalsTyped
    BY <1>1, <1>9, ContinueType, FinishType DEF DeleteEntityRow, DeletePcs, Codes
  <2>2. edges' \subseteq edges /\ nextId' = nextId
    BY <1>9 DEF DeleteEntityRow
  <2>3. entities' = [id \in Rows \ {job.start} |-> entities[id]]
    BY <1>9 DEF DeleteEntityRow
  <2> QED
    BY <2>1, <2>2, <2>3, ShrinkType
<1> QED
  BY <1>2, <1>3, <1>4, <1>5, <1>6, <1>7, <1>8, <1>9 DEF Step

LEMMA InitType == Init => TypeOK
<1> SUFFICES ASSUME Init PROVE TypeOK
  OBVIOUS
<1>1. Issued = {0}
  BY DEF Init, Issued
<1>2. <<>> \in Seq(Parts)
  OBVIOUS
<1>3. NoCreation \in Creation /\ NoDeletion \in Deletion
  BY <1>1, <1>2, AnyDefIsDef
  DEF NoCreation, NoDeletion, Creation, Deletion, EntityType, RelationshipType
<1> QED
  BY <1>3 DEF Init, TypeOK, Codes

LEMMA NextType == TypeOK /\ [Next]_vars => TypeOK'
<1> SUFFICES ASSUME TypeOK, [Next]_vars PROVE TypeOK'
  OBVIOUS
<1>1. ASSUME NEW t \in Threads, Request(t) PROVE TypeOK'
  BY <1>1, RequestType
<1>2. ASSUME NEW t \in Threads, Step(t) PROVE TypeOK'
  BY <1>2, StepType
<1>3. ASSUME NEW t \in Threads, Fail(t) PROVE TypeOK'
  <2>1. LocalsTyped
    BY <1>3, FinishType DEF Fail, Codes
  <2> QED
    BY <1>3, <2>1, TablesFrame DEF Fail
<1>4. CASE UNCHANGED vars
  BY <1>4 DEF vars, TypeOK, Issued, Creation, Deletion
<1> QED
  BY <1>1, <1>2, <1>3, <1>4 DEF Next

\* The tables and the locals of every handler are well-typed at all times: no row
\* and no edge holds an id that was not given out.
THEOREM TypeCorrect == Spec => []TypeOK
BY InitType, NextType, PTL DEF Spec

-----------------------------------------------------------------------------
(* Edges: only a commit adds any, and only a delete of an end takes any away. *)

\* What a step may do to the edges, whichever handler it belongs to.
EdgesKept == edges' = edges /\ nextId' = nextId
EdgesAdded ==
  /\ nextId' = nextId + 1
  /\ \E owners, inputs \in SUBSET Issued :
       edges' = edges \cup NewEdges(nextId, owners, inputs)
EdgesCut == nextId' = nextId /\ \E id \in Issued : edges' = EdgesWithout(id)

LEMMA EdgeSteps ==
  ASSUME TypeOK, [Next]_vars
  PROVE EdgesKept \/ EdgesAdded \/ EdgesCut
<1>1. ASSUME NEW t \in Threads, Request(t) PROVE EdgesKept
  BY <1>1 DEF Request, NewProject, NewSource, NewAnchor, NewAnchorFeature,
              NewDerivedFeature, NewDeletion, Accept, EdgesKept
<1>2. ASSUME NEW t \in Threads, Commit(t) PROVE EdgesAdded
  BY <1>2 DEF Commit, EdgesAdded, TypeOK, Creation
<1>3. ASSUME NEW t \in Threads, DeleteEdges(t) PROVE EdgesCut
  BY <1>3 DEF DeleteEdges, EdgesCut, TypeOK, Deletion
<1>4. ASSUME NEW t \in Threads, Step(t), ~Commit(t), ~DeleteEdges(t)
      PROVE EdgesKept
  BY <1>4 DEF Step, Check, CheckRefs, BfsStep, BfsDone, Purge, DeleteEntityRow,
              EdgesKept
<1>5. ASSUME NEW t \in Threads, Fail(t) PROVE EdgesKept
  BY <1>5 DEF Fail, EdgesKept
<1>6. CASE UNCHANGED vars
  BY <1>6 DEF vars, EdgesKept
<1> QED
  BY <1>1, <1>2, <1>3, <1>4, <1>5, <1>6 DEF Next

\* With any number of threads and with faults, every relation is stored in both
\* directions or not at all.
THEOREM MirroredAlways == Spec => []Mirrored
<1>1. Init => Mirrored
  BY DEF Init, Mirrored
<1>2. TypeOK /\ Mirrored /\ [Next]_vars => Mirrored'
  <2> SUFFICES ASSUME TypeOK, Mirrored, [Next]_vars,
                      NEW a \in Issued', NEW b \in Issued'
               PROVE /\ <<a, b, "Contains">> \in edges' <=> <<b, a, "BelongsTo">> \in edges'
                     /\ <<a, b, "Produces">> \in edges' <=> <<b, a, "Consumes">> \in edges'
    BY DEF Mirrored
  <2>1. /\ <<a, b, "Contains">> \in edges <=> <<b, a, "BelongsTo">> \in edges
        /\ <<a, b, "Produces">> \in edges <=> <<b, a, "Consumes">> \in edges
    BY DEF Mirrored, TypeOK
  <2>2. CASE EdgesKept
    BY <2>1, <2>2 DEF EdgesKept
  <2>3. CASE EdgesAdded
    BY <2>1, <2>3 DEF EdgesAdded, NewEdges, BothWays
  <2>4. CASE EdgesCut
    BY <2>1, <2>4 DEF EdgesCut, EdgesWithout
  <2> QED
    BY <2>2, <2>3, <2>4, EdgeSteps
<1> QED
  BY <1>1, <1>2, TypeCorrect, PTL DEF Spec

\* With any number of threads and with faults, downstream edges lead from an
\* older entity to a younger one, so that every search of _bfs comes to an end.
THEOREM EdgesByAgeAlways == Spec => []EdgesByAge
<1>1. Init => EdgesByAge
  BY DEF Init, EdgesByAge
<1>2. TypeOK /\ EdgesByAge /\ [Next]_vars => EdgesByAge'
  <2> SUFFICES ASSUME TypeOK, EdgesByAge, [Next]_vars, NEW e \in edges',
                      e[3] \in {"Contains", "Produces"}
               PROVE e[1] < e[2]
    BY DEF EdgesByAge
  <2>1. CASE e \in edges
    BY <2>1 DEF EdgesByAge
  <2>2. CASE e \notin edges
    <3>1. PICK owners \in SUBSET Issued, inputs \in SUBSET Issued :
            e \in NewEdges(nextId, owners, inputs)
      BY <2>2, EdgeSteps DEF EdgesKept, EdgesAdded, EdgesCut, EdgesWithout
    <3>2. e[2] = nextId /\ e[1] \in Issued
      BY <3>1 DEF NewEdges, BothWays
    <3> QED
      BY <3>2 DEF TypeOK, Issued
  <2> QED
    BY <2>1, <2>2
<1> QED
  BY <1>1, <1>2, TypeCorrect, PTL DEF Spec
=============================================================================
