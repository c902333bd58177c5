-------------------------- MODULE PurviewRegistry --------------------------
(***************************************************************************)
(* The Purview feature registry (registry/purview-registry): the handlers   *)
(* of main.py over PurviewRegistry.  It keeps no state of its own.  Entities *)
(* live in Microsoft Purview, an Apache Atlas, and every edge is an entity   *)
(* there too, a Process named REL__from__to; each is sought and put by a     *)
(* request of its own, so a POST is many steps, and a server that stops in   *)
(* between leaves what it has put.  An action changes Purview by one request *)
(* at most; reads that follow each other are one step where they ask for     *)
(* what a search or a handler needs as a whole (Readable, Search, Judge, the *)
(* reads that a POST starts with).                                          *)
(*                                                                         *)
(* Purview and its client are external.  A request of theirs is atomic; an   *)
(* entity uploaded with lastModifiedTS 0 is refused when its type has one of *)
(* its name, and a Process when one of its ends is gone; attributes come     *)
(* back as they were sent.  Guids are numbered in the order of creation.     *)
(***************************************************************************)
EXTENDS Integers, Sequences, FiniteSets, SequencesExt

CONSTANTS
  Threads,        \* worker threads of the server
  ProjectNames, Names,  \* names that requests give to projects and to the rest
  Defs,           \* what two definitions of one name may differ in
  Incomparable,   \* those of sources with an attribute Purview holds under
                  \* another name than it is compared by, as schemaStr
  Agrees,         \* <<sent, stored>>: two definitions no attribute of the first
                  \* of which differs in the second, which may have more
  Catalogues,     \* what Purview may hold at first: [entities, edges]
  MaxInputs,      \* bound: inputs of a derived feature
  MaxRequests     \* bound: requests the server accepts after that

ASSUME DefsAssumption == Incomparable \subseteq Defs /\ Defs \ Incomparable # {}
ASSUME AgreesAssumption == Agrees \subseteq Defs \X Defs
ASSUME BoundsAssumption == MaxRequests \in Nat /\ MaxInputs \in Nat

Features == {"AnchorFeature", "DerivedFeature"}
Types == {"Project", "Source", "Anchor"} \cup Features
Relations == {"Contains", "BelongsTo", "Consumes", "Produces"}
QualifiedNames == Seq(ProjectNames \cup Names) \ {<<>>}

\* What handlers that came before may have left in Purview.
ASSUME CataloguesAssumption ==
  \A c \in Catalogues : LET guids == DOMAIN c.entities IN
    /\ IsFiniteSet(guids) /\ guids = 1..Cardinality(guids)
    /\ \A id \in guids :
         /\ c.entities[id].type \in Types /\ c.entities[id].qn \in QualifiedNames
         /\ c.entities[id].def \in Defs
         /\ c.entities[id].refs \subseteq guids /\ \A r \in c.entities[id].refs : r < id
    /\ c.edges \subseteq guids \X guids \X Relations
    /\ \A e \in c.edges :
         /\ e[3] = "Produces" /\ {c.entities[e[1]].type, c.entities[e[2]].type} \subseteq Features
              => e[1] < e[2]
         /\ e[3] = "Consumes" /\ c.entities[e[1]].type = "Anchor"
              => c.entities[e[2]].type = "Source"

\* Those of them that no failure and no overlap disturbed left nothing half linked:
\* what an entity refers to is no project and no anchor, and leads to it.
Complete(c) ==
  \A id \in DOMAIN c.entities : \A r \in c.entities[id].refs :
    c.entities[r].type \notin {"Project", "Anchor"} /\ <<r, id, "Produces">> \in c.edges

VARIABLES
  entities,       \* guid -> [type, qn, def, refs]; refs: guids in its attributes
  edges,          \* the Processes: <<from, to, relation>>
  nextId,         \* the next guid
  requests,       \* how many requests may still come
  pc,             \* per thread: the request to Purview it makes next
  local,          \* per thread: the locals of its handler
  reply,          \* status code of the response the last step sent, 0 when none
  gone,           \* per thread: edges that others deleted since it gathered its own
  unlinked,       \* guids of which a DELETE removed the edges; history
  quiet           \* no request failed, no POST overlapped a DELETE; history

purview == <<entities, edges, nextId, requests>>
vars == <<entities, edges, nextId, requests, pc, local, reply, gone, unlinked, quiet>>

CreatePcs == {"seek", "put", "reread", "seekEdge", "putEdge"}
DeletePcs == {"bfs", "judge", "gather", "unlink", "remove"}
Issued == 0..(nextId - 1)
Rows == DOMAIN entities

TypeOK ==
  /\ nextId \in Nat \ {0} /\ requests \in 0..MaxRequests
  /\ Rows \subseteq Issued \ {0}
  /\ \A id \in Rows :
       /\ entities[id].type \in Types /\ entities[id].qn \in QualifiedNames
       /\ entities[id].def \in Defs /\ entities[id].refs \subseteq Issued
  /\ edges \subseteq Issued \X Issued \X Relations
  /\ pc \in [Threads -> {"idle"} \cup CreatePcs \cup DeletePcs]
  /\ \A t \in Threads :
       /\ pc[t] \in {"reread", "seekEdge", "putEdge"} => local[t].guid \in Issued \ {0}
       /\ pc[t] \in {"seekEdge", "putEdge"} =>
            local[t].todo \in Seq(Issued \X Issued \X Relations) \ {<<>>}
       /\ pc[t] \in DeletePcs => local[t].target \in Issued /\ local[t].seen \subseteq Issued
  /\ gone \in [Threads -> SUBSET (Issued \X Issued \X Relations)]
  /\ reply \in {0, 200, 404, 409, 412, 500}
  /\ unlinked \subseteq Issued /\ quiet \in BOOLEAN

Nothing == <<>>

Init ==
  /\ \E c \in Catalogues :
       /\ entities = c.entities /\ edges = c.edges
       /\ nextId = Cardinality(DOMAIN entities) + 1
  /\ requests = MaxRequests
  /\ pc = [t \in Threads |-> "idle"]
  /\ local = [t \in Threads |-> Nothing]
  /\ reply = 0
  /\ gone = [t \in Threads |-> {}]
  /\ unlinked = {} /\ quiet = TRUE

-----------------------------------------------------------------------------
OfType(types) == {id \in Rows : entities[id].type \in types}

\* get_neighbors: an end that is gone is no neighbour.
Neighbors(ids, rel) ==
  {to \in Rows : \E from \in ids : <<from, to, rel>> \in edges}

\* get_entity, and get_entity with recursive: only an anchor can fail there, for
\* want of a source it consumes.
Readable(id) ==
  /\ id \in Rows
  /\ entities[id].type = "Anchor" => Neighbors({id}, "Consumes") # {}

Finish(t, code) ==
  /\ pc' = [pc EXCEPT ![t] = "idle"]
  /\ reply' = code
  /\ local' = [local EXCEPT ![t] = Nothing]

Continue(t, label, locals) ==
  /\ pc' = [pc EXCEPT ![t] = label]
  /\ reply' = 0
  /\ local' = [local EXCEPT ![t] = locals]

Accept(t) ==
  /\ pc[t] = "idle" /\ requests > 0
  /\ requests' = requests - 1
  /\ UNCHANGED <<entities, edges, nextId, gone, unlinked>>
Refuse(t) == Finish(t, 404) /\ UNCHANGED quiet

-----------------------------------------------------------------------------
(* POST *)

StartPost(t, type, qn, def, refs, owners, inputs) ==
  /\ Continue(t, "seek",
       [type |-> type, qn |-> qn, def |-> def, refs |-> refs, owners |-> owners,
        inputs |-> inputs, guid |-> 0, todo |-> <<>>])
  /\ quiet' = (quiet /\ \A u \in Threads : pc[u] \notin DeletePcs)

\* Tags are part of the definition of a project and of an anchor, too.
CreateProject(t, name, def) ==
  StartPost(t, "Project", <<name>>, def, {}, <<>>, <<>>)

CreateSource(t, project, name, def) ==
  \/ /\ project \in Rows
     /\ StartPost(t, "Source", entities[project].qn \o <<name>>, def, {}, <<project>>, <<>>)
  \/ project \notin Rows /\ Refuse(t)

CreateAnchor(t, project, name, def, source) ==
  \/ /\ {project, source} \subseteq Rows
     /\ StartPost(t, "Anchor", entities[project].qn \o <<name>>, def,
                  {source}, <<project>>, <<source>>)
  \/ ~({project, source} \subseteq Rows) /\ Refuse(t)

\* The source is the first the anchor consumes.
CreateAnchorFeature(t, project, anchor, name, def) ==
  \/ /\ project \in Rows /\ Readable(anchor)
     /\ \E source \in Neighbors({anchor}, "Consumes") :
          StartPost(t, "AnchorFeature",
                    entities[project].qn \o <<Last(entities[anchor].qn), name>>,
                    def, {}, <<project, anchor>>, <<source>>)
  \/ ~(project \in Rows /\ Readable(anchor)) /\ Refuse(t)

CreateDerivedFeature(t, project, name, def, inputs) ==
  \/ /\ inputs \cup {project} \subseteq Rows
     /\ StartPost(t, "DerivedFeature", entities[project].qn \o <<name>>, def,
                  inputs, <<project>>, SetToSeq(inputs))
  \/ ~(inputs \cup {project} \subseteq Rows) /\ Refuse(t)

\* The ids a client has are those of entities of the right type, or of entities
\* that are gone.
Args(types) == OfType(types) \cup (Issued \ Rows)

Post(t) ==
  /\ Accept(t)
  /\ \/ \E name \in ProjectNames, def \in Defs \ Incomparable : CreateProject(t, name, def)
     \/ \E project \in Args({"Project"}), name \in Names :
          \/ \E def \in Defs : CreateSource(t, project, name, def)
          \/ \E def \in Defs \ Incomparable :
               \/ \E source \in Args({"Source"}) : CreateAnchor(t, project, name, def, source)
               \/ \E anchor \in Args({"Anchor"}) :
                    CreateAnchorFeature(t, project, anchor, name, def)
               \/ \E inputs \in {s \in SUBSET Args(Features) : Cardinality(s) <= MaxInputs} :
                    CreateDerivedFeature(t, project, name, def, inputs)

\* _upload_single_entity looks for an entity of the type and qualified name.
Found(t) == {id \in OfType({local[t].type}) : entities[id].qn = local[t].qn}

SameDefinition(id, post) ==
  entities[id].def = post.def \/ <<post.def, entities[id].def>> \in Agrees

\* The attributes sent are compared with those stored, references included; what is
\* stored may have attributes that were not sent.
SameAttributes(id, post) == SameDefinition(id, post) /\ entities[id].refs = post.refs

\* Both Processes of every edge of the entity: the owners contain it, and it
\* consumes its inputs.
Links(id, post) ==
  LET owned == Len(post.owners)
      there(i) == IF i <= owned THEN <<post.owners[i], id, "Contains">>
                  ELSE <<id, post.inputs[i - owned], "Consumes">>
      back(i) == IF i <= owned THEN <<id, post.owners[i], "BelongsTo">>
                 ELSE <<post.inputs[i - owned], id, "Produces">>
  IN [k \in 1..2 * (owned + Len(post.inputs)) |->
        IF k % 2 = 1 THEN there((k + 1) \div 2) ELSE back(k \div 2)]

FoundIsLinked(t, id) == Finish(t, 200)

\* An entity that was found is linked like a new one.
LinkFound(t, id) ==
  IF local[t].type = "Project" THEN Finish(t, 200)
  ELSE Continue(t, "reread", [local[t] EXCEPT !.guid = id])

\* An attribute missing from what is stored is a KeyError, and KeyError is what a
\* missing entity gives: the upload is tried, unless another attribute differed.
Seek(t) ==
  /\ pc[t] = "seek"
  /\ \/ /\ Found(t) = {} \/ local[t].def \in Incomparable
        /\ Continue(t, "put", local[t])
     \/ \E id \in Found(t) :
          \/ /\ local[t].def \notin Incomparable /\ SameAttributes(id, local[t])
             /\ LinkFound(t, id)
          \/ ~SameAttributes(id, local[t]) /\ Finish(t, 409)
  /\ UNCHANGED <<purview, gone, unlinked, quiet>>

Overwrites(t, id) ==
  /\ entities' = [entities EXCEPT ![id].def = local[t].def, ![id].refs = local[t].refs]
  /\ Finish(t, 200) /\ UNCHANGED nextId

\* lastModifiedTS is 0: what is there meanwhile is not updated.
Precondition(t, id) == Finish(t, 412) /\ UNCHANGED <<entities, nextId>>

Put(t) ==
  /\ pc[t] = "put"
  /\ \/ \E id \in Found(t) : Precondition(t, id)
     \/ /\ Found(t) = {}
        /\ entities' = [id \in Rows \cup {nextId} |->
             IF id = nextId THEN [type |-> local[t].type, qn |-> local[t].qn,
                                  def |-> local[t].def, refs |-> local[t].refs]
             ELSE entities[id]]
        /\ nextId' = nextId + 1
        /\ LinkFound(t, nextId)
  /\ UNCHANGED <<edges, requests, gone, unlinked, quiet>>

\* "change from AtlasEntity to Entity": the entity is read again, and some of
\* those it will be linked to.
ReadAgain(post) ==
  {post.guid}
    \cup (IF post.type \in {"Source", "DerivedFeature"} THEN Range(post.owners) ELSE {})
    \cup (IF post.type = "AnchorFeature" THEN Range(post.inputs) ELSE {})

Reread(t) ==
  /\ pc[t] = "reread"
  /\ IF ReadAgain(local[t]) \subseteq Rows
     THEN Continue(t, "seekEdge", [local[t] EXCEPT !.todo = Links(local[t].guid, local[t])])
     ELSE Finish(t, 404)
  /\ UNCHANGED <<purview, gone, unlinked, quiet>>

TakesNextEdge(t) == Continue(t, "seekEdge", [local[t] EXCEPT !.todo = Tail(@)])

NextEdge(t) ==
  IF Len(local[t].todo) = 1 THEN Finish(t, 200)
  ELSE Continue(t, "seekEdge", [local[t] EXCEPT !.todo = Tail(@)])

\* A lookup that fails with an AtlasException is passed over, and the upload is tried.
LookupFails(t) ==
  /\ pc[t] \in {"seek", "seekEdge"}
  /\ Continue(t, IF pc[t] = "seek" THEN "put" ELSE "putEdge", local[t])
  /\ quiet' = FALSE
  /\ UNCHANGED <<purview, gone, unlinked>>

\* Processes are sought and put like the entities they link.
SeekEdge(t) ==
  /\ pc[t] = "seekEdge"
  /\ IF Head(local[t].todo) \in edges THEN NextEdge(t) ELSE Continue(t, "putEdge", local[t])
  /\ UNCHANGED <<purview, gone, unlinked, quiet>>

PutEdge(t) ==
  LET edge == Head(local[t].todo) IN
  /\ pc[t] = "putEdge"
  /\ IF edge \notin edges /\ {edge[1], edge[2]} \subseteq Rows
     THEN edges' = edges \cup {edge} /\ NextEdge(t)
     ELSE Finish(t, 412) /\ UNCHANGED edges
  /\ UNCHANGED <<entities, nextId, requests, gone, unlinked, quiet>>

-----------------------------------------------------------------------------
(* DELETE *)

Downstream(type) == IF type \in {"Project", "Anchor"} THEN "Contains" ELSE "Produces"

\* get_dependent_entities starts a breadth-first search.
Delete(t) ==
  /\ Accept(t)
  /\ \E target \in Issued :
       \/ /\ target \in Rows
          /\ Continue(t, "bfs",
               [target |-> target, rel |-> Downstream(entities[target].type),
                frontier |-> {target}, seen |-> {target}, edges |-> {}])
          /\ quiet' = (quiet /\ \A u \in Threads : pc[u] \notin CreatePcs)
       \/ target \notin Rows /\ Refuse(t)

\* One level at a time, and no look at what was seen before.
Search(t) ==
  LET next == Neighbors(local[t].frontier, local[t].rel) IN
  /\ pc[t] = "bfs"
  /\ IF local[t].frontier \subseteq Rows
     THEN Continue(t, IF next = {} THEN "judge" ELSE "bfs",
                   [local[t] EXCEPT !.frontier = next, !.seen = @ \cup next])
     ELSE Finish(t, 404)
  /\ UNCHANGED <<purview, gone, unlinked, quiet>>

\* What was found is read, and must be nothing but the entity itself.
Judge(t) ==
  /\ pc[t] = "judge"
  /\ CASE \E id \in local[t].seen : ~Readable(id) -> Finish(t, 404)
       [] (\A id \in local[t].seen : Readable(id)) /\ local[t].seen # {local[t].target} ->
            Finish(t, 412)
       [] OTHER -> Continue(t, "gather", local[t])
  /\ UNCHANGED <<purview, gone, unlinked, quiet>>

OutEdges(id) == {e \in edges : e[1] = id}

\* get_all_neighbours.
Incident(id) == {e \in edges : e[1] = id \/ e[2] = id}

Gather(t) ==
  /\ pc[t] = "gather"
  /\ IF local[t].target \in Rows
     THEN Continue(t, "unlink", [local[t] EXCEPT !.edges = Incident(local[t].target)])
     ELSE Finish(t, 404)
  /\ gone' = [gone EXCEPT ![t] = {}]
  /\ UNCHANGED <<purview, unlinked, quiet>>

\* Edges are deleted by the guids that were gathered: one that another DELETE has
\* deleted and a POST has put again has a new guid, and stays.
Unlink(t) ==
  /\ pc[t] = "unlink"
  /\ edges' = edges \ (local[t].edges \ gone[t])
  /\ gone' = [u \in Threads |-> IF pc[u] = "unlink" /\ u # t
                                THEN gone[u] \cup (local[t].edges \ gone[t]) ELSE {}]
  /\ unlinked' = unlinked \cup {local[t].target}
  /\ Continue(t, "remove", local[t])
  /\ UNCHANGED <<entities, nextId, requests, quiet>>

DeleteEntity(t) ==
  /\ pc[t] = "remove"
  /\ entities' = [id \in Rows \ {local[t].target} |-> entities[id]]
  /\ Finish(t, 200)
  /\ UNCHANGED <<edges, nextId, requests, gone, unlinked, quiet>>

\* A request to Purview fails, or the server stops.
Fail(t) ==
  /\ pc[t] # "idle"
  /\ Finish(t, 500)
  /\ quiet' = FALSE
  /\ UNCHANGED <<purview, gone, unlinked>>

Step(t) ==
  \/ Seek(t) \/ Put(t) \/ Reread(t) \/ SeekEdge(t) \/ PutEdge(t)
  \/ Search(t) \/ Judge(t) \/ Gather(t) \/ Unlink(t) \/ DeleteEntity(t)

Next == \E t \in Threads : Post(t) \/ Delete(t) \/ Step(t) \/ LookupFails(t) \/ Fail(t)

Spec == Init /\ [][Next]_vars

-----------------------------------------------------------------------------
(* Properties *)

\* "we only support entity creation, update is not supported"
\* (purview_registry.py:617): whatever is posted at the same time, an entity
\* keeps the definition it was created with, and a type has one entity of a name.
NoUpdates ==
  [][/\ \A id \in Rows \cap DOMAIN entities' : entities'[id] = entities[id]
     /\ \A id \in DOMAIN entities' \ Rows, other \in Rows :
          <<entities[other].type, entities[other].qn>>
            # <<entities'[id].type, entities'[id].qn>>]_vars

\* A POST that is answered has linked its entity both ways to all it belongs to and
\* consumes, also when it found the entity, left half linked by a server that
\* stopped: a POST sent again repairs what the first left, if it is answered and not
\* refused, as that of a source in Incomparable always is.  Only a DELETE takes
\* edges away.
AnsweredIsLinked ==
  [][\A t \in Threads : pc[t] \in CreatePcs /\ pc'[t] = "idle" /\ reply' = 200 =>
       \A id \in IF local[t].guid = 0 THEN Found(t) ELSE {local[t].guid} :
         \A edge \in Range(Links(id, local[t])) :
           edge \in edges' \/ {edge[1], edge[2]} \cap unlinked # {}]_vars

\* As long as no request fails and no POST overlaps a DELETE, nothing leads to an
\* entity that is deleted (purview_registry.py:226-229, main.py:117-126): no edge,
\* and no reference but of an entity whose own DELETE is about to remove it.
NothingDangles ==
  quiet =>
    /\ \A edge \in edges : {edge[1], edge[2]} \subseteq Rows
    /\ \A id \in Rows \ unlinked : entities[id].refs \subseteq Rows

\* "WARN: There is no depth limit" (purview_registry.py:470): the search of a DELETE
\* never looks back, so it ends only because no feature leads to itself by what
\* features are made of, whatever POSTs are repeated with other inputs.
NoFeatureOfItself ==
  \A set \in (SUBSET OfType(Features)) \ {{}} :
    \E id \in set : Neighbors({id}, "Produces") \cap set = {}

=============================================================================
