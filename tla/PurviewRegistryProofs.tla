----------------------- MODULE PurviewRegistryProofs -----------------------
(***************************************************************************)
(* For any number of threads, requests and names, and whatever Purview holds *)
(* at first: an entity is never updated, and no second one of its type and   *)
(* name is put; what a POST answered is linked; no feature is made of itself; *)
(* and nothing leads to what a DELETE deleted while no POST overlapped it.   *)
(* The proofs go from what the guids are to what the locals of a handler     *)
(* are, and from there to one inductive invariant for each property.         *)
(***************************************************************************)
EXTENDS PurviewRegistry, FiniteSetTheorems, WellFoundedInduction, TLAPS

\* The next guid is of no entity: upload_entities gets a new one for each.
GuidsIssued == nextId \in Nat \ {0} /\ Rows \subseteq 1..(nextId - 1)

\* What a step does to the entities: nothing, one more of a type and name that no
\* entity has, or one less.
Untouched == entities' = entities /\ nextId' = nextId

PutsOne ==
  /\ nextId' = nextId + 1
  /\ \E entity :
       /\ entities' = [id \in Rows \cup {nextId} |-> IF id = nextId THEN entity ELSE entities[id]]
       /\ \A other \in Rows : ~(entities[other].type = entity.type /\ entities[other].qn = entity.qn)

RemovesOne ==
  /\ nextId' = nextId
  /\ \E target : entities' = [id \in Rows \ {target} |-> entities[id]]

-----------------------------------------------------------------------------

\* Only the upload of an entity and the last request of a DELETE change entities.
LEMMA StepOnEntities == [Next]_vars => Untouched \/ PutsOne \/ RemovesOne
<1> SUFFICES ASSUME [Next]_vars PROVE Untouched \/ PutsOne \/ RemovesOne
  OBVIOUS
<1>1. CASE UNCHANGED vars
  BY <1>1 DEF vars, Untouched
<1>2. ASSUME NEW t \in Threads, Post(t) \/ Delete(t) PROVE Untouched
  BY <1>2 DEF Post, Delete, Accept, Untouched
<1>3. ASSUME NEW t \in Threads, LookupFails(t) \/ Fail(t) PROVE Untouched
  BY <1>3 DEF LookupFails, Fail, purview, Untouched
<1>4. ASSUME NEW t \in Threads,
             Seek(t) \/ Reread(t) \/ SeekEdge(t) \/ Search(t) \/ Judge(t) \/ Gather(t)
      PROVE  Untouched
  BY <1>4 DEF Seek, Reread, SeekEdge, Search, Judge, Gather, purview, Untouched
<1>5. ASSUME NEW t \in Threads, PutEdge(t) \/ Unlink(t) PROVE Untouched
  BY <1>5 DEF PutEdge, Unlink, Untouched
<1>6. ASSUME NEW t \in Threads, Put(t) PROVE Untouched \/ PutsOne
  <2>1. CASE \E id \in Found(t) : Precondition(t, id)
    BY <2>1 DEF Precondition, Untouched
  <2>2. CASE /\ Found(t) = {}
             /\ nextId' = nextId + 1
             /\ entities' = [id \in Rows \cup {nextId} |->
                  IF id = nextId THEN [type |-> local[t].type, qn |-> local[t].qn,
                                       def |-> local[t].def, refs |-> local[t].refs]
                  ELSE entities[id]]
    <3> DEFINE entity == [type |-> local[t].type, qn |-> local[t].qn,
                          def |-> local[t].def, refs |-> local[t].refs]
    <3>1. \A other \in Rows :
            ~(entities[other].type = entity.type /\ entities[other].qn = entity.qn)
      BY <2>2 DEF Found, OfType
    <3> QED BY <2>2, <3>1 DEF PutsOne
  <2> QED BY <1>6, <2>1, <2>2 DEF Put
<1>7. ASSUME NEW t \in Threads, DeleteEntity(t) PROVE RemovesOne
  BY <1>7 DEF DeleteEntity, RemovesOne
<1> QED BY <1>1, <1>2, <1>3, <1>4, <1>5, <1>6, <1>7 DEF Next, Step

\* A guid is given once: an entity that is put is none of those there.
THEOREM GuidsAreNew == Spec => []GuidsIssued
<1>1. Init => GuidsIssued
  <2> SUFFICES ASSUME Init PROVE GuidsIssued
    OBVIOUS
  <2>1. PICK c \in Catalogues :
          entities = c.entities /\ nextId = Cardinality(DOMAIN entities) + 1
    BY DEF Init
  <2>2. IsFiniteSet(Rows) /\ Rows = 1..Cardinality(Rows)
    BY <2>1, CataloguesAssumption DEF Rows
  <2>3. Cardinality(Rows) \in Nat
    BY <2>2, FS_CardinalityType
  <2> QED BY <2>1, <2>2, <2>3 DEF GuidsIssued, Rows
<1>2. GuidsIssued /\ [Next]_vars => GuidsIssued'
  <2> SUFFICES ASSUME GuidsIssued, [Next]_vars PROVE GuidsIssued'
    OBVIOUS
  <2>1. CASE Untouched
    BY <2>1 DEF Untouched, GuidsIssued, Rows
  <2>2. CASE PutsOne
    BY <2>2 DEF PutsOne, GuidsIssued, Rows
  <2>3. CASE RemovesOne
    BY <2>3 DEF RemovesOne, GuidsIssued, Rows
  <2> QED BY <2>1, <2>2, <2>3, StepOnEntities
<1> QED BY <1>1, <1>2, PTL DEF Spec

\* "we only support entity creation, update is not supported"
\* (purview_registry.py:617), whatever POSTs and DELETEs are interleaved.
THEOREM PurviewNeverUpdates == Spec => NoUpdates
<1> DEFINE Kept ==
      /\ \A id \in Rows \cap DOMAIN entities' : entities'[id] = entities[id]
      /\ \A id \in DOMAIN entities' \ Rows, other \in Rows :
           <<entities[other].type, entities[other].qn>>
             # <<entities'[id].type, entities'[id].qn>>
<1>1. GuidsIssued /\ [Next]_vars => [Kept]_vars
  <2> SUFFICES ASSUME GuidsIssued, [Next]_vars PROVE Kept
    OBVIOUS
  <2>1. CASE Untouched
    BY <2>1 DEF Untouched, Rows
  <2>2. CASE PutsOne
    <3>1. PICK entity :
            /\ entities' = [id \in Rows \cup {nextId} |->
                              IF id = nextId THEN entity ELSE entities[id]]
            /\ \A other \in Rows :
                 ~(entities[other].type = entity.type /\ entities[other].qn = entity.qn)
      BY <2>2 DEF PutsOne
    <3>2. nextId \notin Rows
      BY DEF GuidsIssued
    <3>3. DOMAIN entities' = Rows \cup {nextId}
      BY <3>1
    <3>4. ASSUME NEW id \in Rows \cap DOMAIN entities' PROVE entities'[id] = entities[id]
      BY <3>1, <3>2, <3>4
    <3>5. ASSUME NEW id \in DOMAIN entities' \ Rows, NEW other \in Rows
          PROVE  <<entities[other].type, entities[other].qn>>
                   # <<entities'[id].type, entities'[id].qn>>
      <4>1. entities'[id] = entity
        BY <3>1, <3>3, <3>5
      <4> QED BY <3>1, <4>1
    <3> QED BY <3>4, <3>5
  <2>3. CASE RemovesOne
    BY <2>3 DEF RemovesOne, Rows
  <2> QED BY <2>1, <2>2, <2>3, StepOnEntities
<1> QED BY <1>1, GuidsAreNew, PTL DEF Spec, NoUpdates

-----------------------------------------------------------------------------
(* Least elements, and sets as sequences *)

LEMMA LeastOf ==
  ASSUME NEW T, T \subseteq Nat, T # {}
  PROVE \E x \in T : \A y \in T : x <= y
<1> DEFINE Less == OpToRel(<, Nat)
<1>1. PICK x \in T : \A y \in T : ~(<<y, x>> \in Less)
  BY WFMin, NatLessThanWellFounded
<1>2. ASSUME NEW y \in T, y < x PROVE <<y, x>> \in Less
  BY <1>2 DEF OpToRel
<1> HIDE DEF Less
<1>3. ASSUME NEW y \in T PROVE x <= y
  <2>1. x \in Nat /\ y \in Nat
    OBVIOUS
  <2>2. ~(y < x)
    BY <1>1, <1>2
  <2> QED
    BY <2>1, <2>2
<1> QED
  BY <1>3

LEMMA GreatestOf ==
  ASSUME NEW T, NEW n \in Nat, T \subseteq 0..n, T # {}
  PROVE \E x \in T : \A y \in T : y <= x
<1> DEFINE Below == {n - k : k \in T}
<1>1. Below \subseteq Nat
  <2>1. \A k \in T : k \in Int /\ 0 <= k /\ k <= n
    OBVIOUS
  <2>2. \A k \in T : n - k \in Nat
    BY <2>1
  <2> QED
    BY <2>2
<1>2. Below # {}
  OBVIOUS
<1> HIDE DEF Below
<1>3. PICK m \in Below : \A k \in Below : m <= k
  BY <1>1, <1>2, LeastOf
<1> USE DEF Below
<1>4. PICK x \in T : m = n - x
  OBVIOUS
<1>5. ASSUME NEW y \in T PROVE y <= x
  <2>1. m <= n - y
    BY <1>3
  <2>2. x \in Int /\ y \in Int
    BY <1>4, <1>5
  <2> QED
    BY <1>4, <2>1, <2>2
<1> QED
  BY <1>5

LEMMA SetToSeqOf ==
  ASSUME NEW S, IsFiniteSet(S)
  PROVE /\ SetToSeq(S) \in Seq(S) /\ \A i \in DOMAIN SetToSeq(S) : SetToSeq(S)[i] \in S
        /\ \A i, j \in DOMAIN SetToSeq(S) : SetToSeq(S)[i] = SetToSeq(S)[j] => i = j
        /\ \A x \in S : \E i \in DOMAIN SetToSeq(S) : SetToSeq(S)[i] = x
<1>1. \E f \in [1..Cardinality(S) -> S] : IsInjective(f)
  <2>1. PICK f : f \in Bijection(1..Cardinality(S), S)
    BY FS_NatBijection, FS_CountingElements, FS_CardinalityType DEF ExistsBijection
  <2> QED
    BY <2>1 DEF Bijection, Injection, IsInjective
<1>2. SetToSeq(S) \in [1..Cardinality(S) -> S] /\ IsInjective(SetToSeq(S))
  BY <1>1 DEF SetToSeq
<1>3. Cardinality(S) \in Nat /\ IsFiniteSet(1..Cardinality(S))
      /\ Cardinality(1..Cardinality(S)) = Cardinality(S)
  BY FS_CardinalityType, FS_Interval
<1>4. SetToSeq(S) \in Surjection(1..Cardinality(S), S)
  <2>1. SetToSeq(S) \in Injection(1..Cardinality(S), S)
    BY <1>2 DEF Injection, IsInjective
  <2> QED
    BY <1>3, <2>1, FS_Injection
<1>5. \A x \in S : \E i \in 1..Cardinality(S) : SetToSeq(S)[i] = x
  BY <1>4 DEF Surjection
<1> QED
  BY <1>2, <1>3, <1>5 DEF IsInjective

LEMMA SingletonToSeq ==
  ASSUME NEW x
  PROVE <<x>> = SetToSeq({x})
<1>1. IsFiniteSet({x}) /\ Cardinality({x}) = 1
  BY FS_Singleton
<1>2. \E f \in [1..1 -> {x}] : IsInjective(f)
  <2>1. [i \in 1..1 |-> x] \in [1..1 -> {x}] /\ IsInjective([i \in 1..1 |-> x])
    BY DEF IsInjective
  <2> QED
    BY <2>1
<1>3. SetToSeq({x}) \in [1..1 -> {x}]
  BY <1>1, <1>2 DEF SetToSeq
<1>4. \A f \in [1..1 -> {x}] : f = <<x>>
  BY Z3
<1> QED
  BY <1>3, <1>4

-----------------------------------------------------------------------------
(* Type correctness *)

\* What the locals of a handler are; TypeOK says of them only what is used.
Triples == Issued \X Issued \X Relations

PostType ==
  [type : Types, qn : QualifiedNames, def : Defs, refs : SUBSET Issued,
   owners : Seq(Issued), inputs : Seq(Issued), guid : Issued, todo : Seq(Triples)]

DeleteType ==
  [target : Issued, rel : Relations, frontier : SUBSET Issued, seen : SUBSET Issued,
   edges : SUBSET Triples]

LocalsOK(pcT, l) ==
  /\ pcT \in CreatePcs => l \in PostType /\ (l.type # "Project" => l.owners # <<>>)
  /\ pcT \in {"seek", "put"} => l.guid = 0
  /\ pcT \in {"reread", "seekEdge", "putEdge"} => l.guid # 0 /\ l.type # "Project"
  /\ pcT \in {"seekEdge", "putEdge"} => l.todo # <<>>
  /\ pcT \in DeletePcs => l \in DeleteType

TablesTyped ==
  /\ nextId \in Nat \ {0} /\ requests \in 0..MaxRequests
  /\ Rows \subseteq Issued \ {0}
  /\ \A id \in Rows :
       /\ entities[id].type \in Types /\ entities[id].qn \in QualifiedNames
       /\ entities[id].def \in Defs /\ entities[id].refs \subseteq Issued
  /\ edges \subseteq Triples
  /\ unlinked \subseteq Issued /\ quiet \in BOOLEAN

ThreadsTyped ==
  /\ pc \in [Threads -> {"idle"} \cup CreatePcs \cup DeletePcs]
  /\ local = [t \in Threads |-> local[t]]
  /\ reply \in {0, 200, 404, 409, 412, 500}
  /\ \A t \in Threads : LocalsOK(pc[t], local[t])

Typed == TablesTyped /\ ThreadsTyped

\* Guids are only ever added.
LEMMA TypesGrow ==
  ASSUME nextId \in Nat, nextId' \in Nat, nextId <= nextId'
  PROVE /\ Issued \subseteq Issued' /\ Triples \subseteq Triples'
        /\ PostType \subseteq PostType' /\ DeleteType \subseteq DeleteType'
<1>1. Issued \subseteq Issued'
  <2>1. ASSUME NEW m \in Nat, NEW n \in Nat, m <= n PROVE 0..(m - 1) \subseteq 0..(n - 1)
    BY <2>1
  <2> QED
    BY <2>1 DEF Issued
<1>2. Triples \subseteq Triples'
  BY <1>1 DEF Triples
<1>3. /\ Seq(Issued) \subseteq Seq(Issued') /\ Seq(Triples) \subseteq Seq(Triples')
      /\ SUBSET Issued \subseteq SUBSET Issued' /\ SUBSET Triples \subseteq SUBSET Triples'
  BY <1>1, <1>2
<1>4. PostType \subseteq PostType'
  BY <1>1, <1>3 DEF PostType
<1>5. DeleteType \subseteq DeleteType'
  BY <1>1, <1>3 DEF DeleteType
<1> QED
  BY <1>1, <1>2, <1>4, <1>5

LEMMA LocalsGrow ==
  ASSUME nextId \in Nat, nextId' \in Nat, nextId <= nextId', NEW label, NEW l,
         LocalsOK(label, l)
  PROVE LocalsOK(label, l)'
BY TypesGrow DEF LocalsOK

LEMMA FinishTyped ==
  ASSUME ThreadsTyped, nextId \in Nat, nextId' \in Nat, nextId <= nextId',
         NEW t \in Threads, NEW code \in {200, 404, 409, 412, 500}, Finish(t, code)
  PROVE ThreadsTyped'
<1>1. /\ pc' \in [Threads -> {"idle"} \cup CreatePcs \cup DeletePcs]
      /\ local' = [u \in Threads |-> local'[u]]
  BY DEF ThreadsTyped, Finish
<1>2. ASSUME NEW u \in Threads PROVE LocalsOK(pc[u], local[u])'
  <2>1. CASE u = t
    <3>1. pc'[u] = "idle"
      BY <2>1 DEF Finish, ThreadsTyped
    <3> QED
      BY <3>1 DEF LocalsOK, CreatePcs, DeletePcs
  <2>2. CASE u # t
    <3>1. pc'[u] = pc[u] /\ local'[u] = local[u]
      BY <2>2 DEF Finish, ThreadsTyped
    <3>2. LocalsOK(pc[u], local[u])
      BY DEF ThreadsTyped
    <3> QED
      BY <3>1, <3>2, LocalsGrow
  <2> QED
    BY <2>1, <2>2
<1> QED
  BY <1>1, <1>2 DEF ThreadsTyped, Finish

LEMMA ContinueTyped ==
  ASSUME ThreadsTyped, nextId \in Nat, nextId' \in Nat, nextId <= nextId',
         NEW t \in Threads, NEW label \in CreatePcs \cup DeletePcs, NEW l,
         Continue(t, label, l), LocalsOK(label, l)'
  PROVE ThreadsTyped'
<1>1. /\ pc' \in [Threads -> {"idle"} \cup CreatePcs \cup DeletePcs]
      /\ local' = [u \in Threads |-> local'[u]]
      /\ pc'[t] = label /\ local'[t] = l
  BY DEF ThreadsTyped, Continue
<1>2. ASSUME NEW u \in Threads PROVE LocalsOK(pc[u], local[u])'
  <2>1. CASE u = t
    BY <1>1, <2>1 DEF LocalsOK, PostType, DeleteType
  <2>2. CASE u # t
    <3>1. pc'[u] = pc[u] /\ local'[u] = local[u]
      BY <2>2 DEF Continue, ThreadsTyped
    <3>2. LocalsOK(pc[u], local[u])
      BY DEF ThreadsTyped
    <3> QED
      BY <3>1, <3>2, LocalsGrow
  <2> QED
    BY <2>1, <2>2
<1> QED
  BY <1>1, <1>2 DEF ThreadsTyped, Continue

\* A step that leaves the guids alone leaves the types of the locals alone.
LEMMA LocalsKept ==
  ASSUME nextId' = nextId, NEW label, NEW l, LocalsOK(label, l)
  PROVE LocalsOK(label, l)'
<1>1. PostType' = PostType /\ DeleteType' = DeleteType
  BY DEF PostType, DeleteType, Triples, Issued
<1> QED
  BY <1>1 DEF LocalsOK

LEMMA TablesKept ==
  ASSUME TablesTyped, UNCHANGED <<entities, edges, nextId, unlinked>>,
         requests' \in 0..MaxRequests, quiet' \in BOOLEAN
  PROVE TablesTyped'
BY DEF TablesTyped, Rows, Issued, Triples

\* The steps of the POST and DELETE handlers that change nothing but the locals.
LEMMA QuietTyped ==
  ASSUME Typed, NEW t \in Threads, UNCHANGED <<entities, edges, nextId, unlinked>>,
         requests' \in 0..MaxRequests, quiet' \in BOOLEAN,
         \/ \E code \in {200, 404, 409, 412, 500} : Finish(t, code)
         \/ \E label \in CreatePcs \cup DeletePcs : \E l :
              Continue(t, label, l) /\ LocalsOK(label, l)
  PROVE Typed'
<1>1. nextId \in Nat /\ nextId' = nextId /\ ThreadsTyped
  BY DEF Typed, TablesTyped
<1>2. CASE \E code \in {200, 404, 409, 412, 500} : Finish(t, code)
  BY <1>1, <1>2, FinishTyped, TablesKept DEF Typed
<1>3. CASE \E label \in CreatePcs \cup DeletePcs : \E l :
             Continue(t, label, l) /\ LocalsOK(label, l)
  <2>0. PICK label \in CreatePcs \cup DeletePcs : \E l :
          Continue(t, label, l) /\ LocalsOK(label, l)
    BY <1>3
  <2>1. PICK l : Continue(t, label, l) /\ LocalsOK(label, l)
    BY <2>0
  <2>2. LocalsOK(label, l)'
    BY <1>1, <2>1, LocalsKept
  <2> QED
    BY <1>1, <2>1, <2>2, ContinueTyped, TablesKept DEF Typed
<1> QED
  BY <1>2, <1>3

\* What a POST handler holds when it starts, besides values of the right types.
AskedRefs(type, refs, owners, inputs) ==
  /\ Range(owners) \cup Range(inputs) \cup refs \subseteq Rows
  /\ \A r \in refs : entities[r].type \notin {"Project", "Anchor"}
  /\ IF type \in {"Anchor", "DerivedFeature"}
     THEN Len(owners) = 1 /\ inputs = SetToSeq(refs)
     ELSE refs = {}

Asked(type, refs, owners, inputs) ==
  /\ AskedRefs(type, refs, owners, inputs)
  /\ IF type = "Project" THEN owners = <<>> /\ inputs = <<>> ELSE owners # <<>>
  /\ type = "Source" => inputs = <<>>
  /\ type = "Anchor" => \A i \in Range(inputs) : i \in OfType({"Source"})
  /\ type = "AnchorFeature" =>
       \E anchor \in OfType({"Anchor"}) : Range(inputs) \subseteq Neighbors({anchor}, "Consumes")
  /\ type = "DerivedFeature" => Range(inputs) \subseteq refs

AskedFor(l) == l.guid = 0 /\ l.todo = <<>> /\ Asked(l.type, l.refs, l.owners, l.inputs)

LEMMA StartsTyped ==
  ASSUME TablesTyped, NEW t, NEW type \in Types, NEW qn \in QualifiedNames, NEW def \in Defs,
         NEW refs \in SUBSET Issued, NEW owners \in Seq(Issued), NEW inputs \in Seq(Issued),
         StartPost(t, type, qn, def, refs, owners, inputs),
         Asked(type, refs, owners, inputs)
  PROVE /\ \E l : Continue(t, "seek", l) /\ LocalsOK("seek", l) /\ AskedFor(l)
        /\ quiet' = (quiet /\ \A u \in Threads : pc[u] \notin DeletePcs)
<1> DEFINE l == [type |-> type, qn |-> qn, def |-> def, refs |-> refs, owners |-> owners,
                 inputs |-> inputs, guid |-> 0, todo |-> <<>>]
<1>1. 0 \in Issued
  BY DEF TablesTyped, Issued
<1>2. <<>> \in Seq(Triples)
  OBVIOUS
<1>3. LocalsOK("seek", l)
  BY <1>1, <1>2 DEF LocalsOK, PostType, CreatePcs, DeletePcs, Asked
<1>4. AskedFor(l)
  BY DEF AskedFor
<1>5. Continue(t, "seek", l)
  BY DEF StartPost
<1> HIDE DEF l
<1> QED
  BY <1>3, <1>4, <1>5 DEF StartPost

\* The project, the name of an entity and what it is made of are of the right types.
LEMMA NameTyped ==
  ASSUME TablesTyped, NEW id \in Rows, NEW name \in ProjectNames \cup Names
  PROVE /\ entities[id].qn \o <<name>> \in QualifiedNames
        /\ Last(entities[id].qn) \in ProjectNames \cup Names
        /\ id \in Issued
<1> DEFINE qn == entities[id].qn
<1>1. qn \in Seq(ProjectNames \cup Names) /\ qn # <<>> /\ id \in Issued
  BY DEF TablesTyped, QualifiedNames
<1> HIDE DEF qn
<1>2. qn \o <<name>> \in Seq(ProjectNames \cup Names) /\ Len(qn \o <<name>>) = Len(qn) + 1
  BY <1>1
<1>3. qn \o <<name>> # <<>>
  BY <1>1, <1>2
<1>4. Last(qn) \in ProjectNames \cup Names
  BY <1>1 DEF Last
<1> QED
  BY <1>1, <1>2, <1>3, <1>4 DEF QualifiedNames, qn

LEMMA PostShape ==
  ASSUME TablesTyped, NEW t \in Threads, Post(t)
  PROVE \/ Refuse(t)
        \/ /\ \E l : Continue(t, "seek", l) /\ LocalsOK("seek", l) /\ AskedFor(l)
           /\ quiet' = (quiet /\ \A u \in Threads : pc[u] \notin DeletePcs)
<1> DEFINE Good == \/ Refuse(t)
                   \/ /\ \E l : Continue(t, "seek", l) /\ LocalsOK("seek", l) /\ AskedFor(l)
                      /\ quiet' = (quiet /\ \A u \in Threads : pc[u] \notin DeletePcs)
<1> HIDE DEF Good
<1> SUFFICES Good
  BY DEF Good
<1>0. Rows \subseteq Issued /\ 0 \in Issued
  BY DEF TablesTyped, Issued
<1>1. ASSUME NEW type \in Types, NEW qn \in QualifiedNames, NEW def \in Defs,
             NEW refs \in SUBSET Issued, NEW owners \in Seq(Issued), NEW inputs \in Seq(Issued),
             StartPost(t, type, qn, def, refs, owners, inputs),
             Asked(type, refs, owners, inputs)
      PROVE Good
  BY <1>1, StartsTyped DEF Good
<1>2. ASSUME NEW name \in ProjectNames, NEW def \in Defs, CreateProject(t, name, def) PROVE Good
  <2>1. <<name>> \in QualifiedNames
    BY DEF QualifiedNames
  <2>2. StartPost(t, "Project", <<name>>, def, {}, <<>>, <<>>)
    BY <1>2 DEF CreateProject
  <2>3. <<>> \in Seq(Issued) /\ Asked("Project", {}, <<>>, <<>>)
    BY DEF Asked, AskedRefs, Range
  <2> QED
    BY <1>1, <2>1, <2>2, <2>3 DEF Types
<1>3. ASSUME NEW project \in Args({"Project"}), NEW name \in Names, NEW def \in Defs,
             CreateSource(t, project, name, def)
      PROVE Good
  <2>1. CASE Refuse(t)
    BY <2>1 DEF Good
  <2>2. CASE /\ project \in Rows
             /\ StartPost(t, "Source", entities[project].qn \o <<name>>, def, {}, <<project>>, <<>>)
    <3>1. Range(<<project>>) = {project} /\ Range(<<>>) = {}
      BY DEF Range
    <3>2. AskedRefs("Source", {}, <<project>>, <<>>)
      BY <2>2, <3>1 DEF AskedRefs
    <3>3. /\ <<>> \in Seq(Issued) /\ <<project>> \in Seq(Issued)
          /\ Asked("Source", {}, <<project>>, <<>>)
      BY <1>0, <2>2, <3>2 DEF Asked
    <3> QED
      BY <1>1, <2>2, <3>3, NameTyped DEF Types
  <2> QED
    BY <1>3, <2>1, <2>2 DEF CreateSource
<1>4. ASSUME NEW project \in Args({"Project"}), NEW name \in Names, NEW def \in Defs,
             NEW source \in Args({"Source"}), CreateAnchor(t, project, name, def, source)
      PROVE Good
  <2>1. CASE Refuse(t)
    BY <2>1 DEF Good
  <2>2. CASE /\ {project, source} \subseteq Rows
             /\ StartPost(t, "Anchor", entities[project].qn \o <<name>>, def,
                          {source}, <<project>>, <<source>>)
    <3> DEFINE qn == entities[project].qn \o <<name>>
               refs == {source}
               owners == <<project>>
               inputs == <<source>>
    <3>1. inputs \in Seq(Issued) /\ owners \in Seq(Issued) /\ refs \in SUBSET Issued
      BY <1>0, <2>2
    <3>2. source \in OfType({"Source"})
      BY <1>4, <2>2 DEF Args
    <3>3. \A i \in Range(inputs) : i \in OfType({"Source"})
      BY <3>2 DEF Range
    <3>4. qn \in QualifiedNames /\ StartPost(t, "Anchor", qn, def, refs, owners, inputs)
      BY <2>2, NameTyped
    <3>5. AskedRefs("Anchor", refs, owners, inputs)
      <4>1. Range(owners) = {project} /\ Range(inputs) = {source} /\ Len(owners) = 1
        BY DEF Range
      <4>2. inputs = SetToSeq(refs)
        BY SingletonToSeq
      <4>3. entities[source].type = "Source"
        BY <3>2 DEF OfType
      <4> QED
        BY <2>2, <4>1, <4>2, <4>3 DEF AskedRefs
    <3>6. Asked("Anchor", refs, owners, inputs)
      BY <3>3, <3>5 DEF Asked
    <3> HIDE DEF qn, refs, owners, inputs
    <3> QED
      BY <1>1, <3>1, <3>4, <3>6 DEF Types
  <2> QED
    BY <1>4, <2>1, <2>2 DEF CreateAnchor
<1>5. ASSUME NEW project \in Args({"Project"}), NEW name \in Names, NEW anchor \in Args({"Anchor"}),
             NEW def \in Defs, CreateAnchorFeature(t, project, anchor, name, def)
      PROVE Good
  <2>1. CASE Refuse(t)
    BY <2>1 DEF Good
  <2>2. CASE /\ project \in Rows /\ Readable(anchor)
             /\ \E source \in Neighbors({anchor}, "Consumes") :
                  StartPost(t, "AnchorFeature",
                            entities[project].qn \o <<Last(entities[anchor].qn), name>>,
                            def, {}, <<project, anchor>>, <<source>>)
    <3> DEFINE last == Last(entities[anchor].qn)
    <3>1. PICK source \in Neighbors({anchor}, "Consumes") :
            StartPost(t, "AnchorFeature", entities[project].qn \o <<last, name>>,
                      def, {}, <<project, anchor>>, <<source>>)
      BY <2>2
    <3>2. anchor \in Rows /\ anchor \in OfType({"Anchor"}) /\ source \in Issued
      BY <1>0, <1>5, <2>2 DEF Readable, Args, Neighbors
    <3>3. <<source>> \in Seq(Issued) /\ <<project, anchor>> \in Seq(Issued)
      BY <1>0, <2>2, <3>2
    <3>4. last \in ProjectNames \cup Names
      BY <1>5, <3>2, NameTyped
    <3> HIDE DEF last
    <3>5. entities[project].qn \o <<last, name>> \in QualifiedNames
      <4> DEFINE qn == entities[project].qn
      <4>1. qn \in Seq(ProjectNames \cup Names)
        BY <2>2 DEF TablesTyped, QualifiedNames
      <4> HIDE DEF qn
      <4>2. /\ qn \o <<last, name>> \in Seq(ProjectNames \cup Names)
            /\ Len(qn \o <<last, name>>) = Len(qn) + 2
        BY <3>4, <4>1
      <4>3. qn \o <<last, name>> # <<>>
        BY <4>1, <4>2
      <4> QED
        BY <4>2, <4>3 DEF QualifiedNames, qn
    <3>6. Range(<<source>>) \subseteq Neighbors({anchor}, "Consumes")
      BY DEF Range
    <3>7. \E a \in OfType({"Anchor"}) : Range(<<source>>) \subseteq Neighbors({a}, "Consumes")
      BY <3>2, <3>6
    <3> DEFINE qn == entities[project].qn \o <<last, name>>
               refs == {}
               owners == <<project, anchor>>
               inputs == <<source>>
    <3>8. AskedRefs("AnchorFeature", refs, owners, inputs)
      <4>1. Range(owners) = {project, anchor} /\ Range(inputs) = {source} /\ source \in Rows
        BY DEF Range, Neighbors
      <4> QED
        BY <2>2, <3>2, <4>1 DEF AskedRefs
    <3>9. /\ qn \in QualifiedNames /\ refs \in SUBSET Issued
          /\ owners \in Seq(Issued) /\ inputs \in Seq(Issued)
          /\ StartPost(t, "AnchorFeature", qn, def, refs, owners, inputs)
          /\ Asked("AnchorFeature", refs, owners, inputs)
      BY <3>1, <3>3, <3>5, <3>7, <3>8 DEF Asked
    <3> HIDE DEF qn, refs, owners, inputs
    <3> QED
      BY <1>1, <3>9 DEF Types, Features
  <2> QED
    BY <1>5, <2>1, <2>2 DEF CreateAnchorFeature
<1>6. ASSUME NEW project \in Args({"Project"}), NEW name \in Names, NEW def \in Defs,
             NEW inputs \in SUBSET Args(Features), CreateDerivedFeature(t, project, name, def, inputs)
      PROVE Good
  <2>1. CASE Refuse(t)
    BY <2>1 DEF Good
  <2>2. CASE /\ inputs \cup {project} \subseteq Rows
             /\ StartPost(t, "DerivedFeature", entities[project].qn \o <<name>>, def,
                          inputs, <<project>>, SetToSeq(inputs))
    <3>1. IsFiniteSet(inputs)
      <4>1. IsFiniteSet(0..(nextId - 1))
        BY FS_Interval DEF TablesTyped
      <4>2. inputs \subseteq 0..(nextId - 1)
        BY <1>0, <2>2 DEF Issued
      <4> QED
        BY <4>1, <4>2, FS_Subset
    <3>2. /\ SetToSeq(inputs) \in Seq(inputs)
          /\ \A i \in DOMAIN SetToSeq(inputs) : SetToSeq(inputs)[i] \in inputs
      BY <3>1, SetToSeqOf
    <3>3. Range(SetToSeq(inputs)) \subseteq inputs
      BY <3>2 DEF Range
    <3>4. inputs \in SUBSET Issued /\ SetToSeq(inputs) \in Seq(Issued) /\ <<project>> \in Seq(Issued)
      BY <1>0, <2>2, <3>2
    <3> DEFINE qn == entities[project].qn \o <<name>>
               owners == <<project>>
               seq == SetToSeq(inputs)
    <3>5. AskedRefs("DerivedFeature", inputs, owners, seq)
      <4>1. Range(owners) = {project} /\ Len(owners) = 1
        BY DEF Range
      <4>2. \A i \in inputs : entities[i].type \notin {"Project", "Anchor"}
        BY <2>2 DEF Args, OfType, Features
      <4> QED
        BY <2>2, <3>3, <4>1, <4>2 DEF AskedRefs
    <3>6. /\ qn \in QualifiedNames /\ owners \in Seq(Issued) /\ seq \in Seq(Issued)
          /\ Asked("DerivedFeature", inputs, owners, seq)
          /\ StartPost(t, "DerivedFeature", qn, def, inputs, owners, seq)
      BY <2>2, <3>3, <3>4, <3>5, NameTyped DEF Asked
    <3> HIDE DEF qn, owners, seq
    <3> QED
      BY <1>1, <3>4, <3>6 DEF Types, Features
  <2> QED
    BY <1>6, <2>1, <2>2 DEF CreateDerivedFeature
<1> QED
  BY <1>2, <1>3, <1>4, <1>5, <1>6 DEF Post

\* The Processes of a POST, one by one.
LEMMA LinkAt ==
  ASSUME NEW id, NEW l, l.owners \in Seq(Issued), l.inputs \in Seq(Issued),
         NEW k \in DOMAIN Links(id, l)
  PROVE \/ \E i \in 1..Len(l.owners) :
             \/ Links(id, l)[k] = <<l.owners[i], id, "Contains">>
             \/ Links(id, l)[k] = <<id, l.owners[i], "BelongsTo">>
        \/ \E i \in 1..Len(l.inputs) :
             \/ Links(id, l)[k] = <<id, l.inputs[i], "Consumes">>
             \/ Links(id, l)[k] = <<l.inputs[i], id, "Produces">>
<1> DEFINE m == Len(l.owners)
           n == Len(l.inputs)
           there(i) == IF i <= m THEN <<l.owners[i], id, "Contains">>
                       ELSE <<id, l.inputs[i - m], "Consumes">>
           back(i) == IF i <= m THEN <<id, l.owners[i], "BelongsTo">>
                      ELSE <<l.inputs[i - m], id, "Produces">>
<1>1. m \in Nat /\ n \in Nat
  OBVIOUS
<1>2. k \in 1..2 * (m + n)
  BY DEF Links
<1>3. Links(id, l)[k] = IF k % 2 = 1 THEN there((k + 1) \div 2) ELSE back(k \div 2)
  BY <1>2 DEF Links
<1>4. PICK i \in 1..(m + n) : Links(id, l)[k] \in {there(i), back(i)}
  <2> HIDE DEF m, n, there, back
  <2>1. k \in Int /\ 1 <= k /\ k <= 2 * (m + n)
    BY <1>1, <1>2
  <2>2. CASE k % 2 = 1
    <3>1. (k + 1) \div 2 \in 1..(m + n)
      BY <1>1, <2>1, <2>2
    <3> QED
      BY <1>3, <2>2, <3>1
  <2>3. CASE k % 2 # 1
    <3>1. k \div 2 \in 1..(m + n)
      BY <1>1, <2>1, <2>3
    <3> QED
      BY <1>3, <2>3, <3>1
  <2> QED
    BY <2>2, <2>3
<1>5. CASE i <= m
  BY <1>1, <1>4, <1>5
<1>6. CASE ~(i <= m)
  <2>1. i - m \in 1..n
    <3> HIDE DEF m, n
    <3>1. i \in Int /\ i <= m + n /\ i > m
      BY <1>1, <1>4, <1>6
    <3> QED
      BY <1>1, <3>1
  <2> QED
    BY <1>4, <1>6, <2>1
<1> QED
  BY <1>5, <1>6

LEMMA LinksTyped ==
  ASSUME NEW id \in Issued, NEW l \in PostType, l.owners # <<>>
  PROVE Links(id, l) \in Seq(Triples) \ {<<>>}
<1> DEFINE m == Len(l.owners)
           n == Len(l.inputs)
<1>1. l.owners \in Seq(Issued) /\ l.inputs \in Seq(Issued)
  BY DEF PostType
<1>2. m \in Nat /\ n \in Nat /\ m > 0
  BY <1>1
<1>3. DOMAIN Links(id, l) = 1..2 * (m + n) /\ 2 * (m + n) \in Nat /\ 2 * (m + n) > 0
  <2>1. DOMAIN Links(id, l) = 1..2 * (m + n)
    BY DEF Links
  <2> HIDE DEF m, n
  <2>2. 2 * (m + n) \in Nat /\ 2 * (m + n) > 0
    BY <1>2
  <2> QED
    BY <2>1, <2>2
<1>4. ASSUME NEW k \in DOMAIN Links(id, l) PROVE Links(id, l)[k] \in Triples
  <2>1. \A a, b \in Issued, r \in Relations : <<a, b, r>> \in Triples
    BY DEF Triples
  <2>2. /\ \A i \in 1..Len(l.owners) : l.owners[i] \in Issued
        /\ \A i \in 1..Len(l.inputs) : l.inputs[i] \in Issued
        /\ {"Contains", "BelongsTo", "Consumes", "Produces"} \subseteq Relations
    BY <1>1 DEF Relations
  <2>3. CASE \E i \in 1..Len(l.owners) : Links(id, l)[k] = <<l.owners[i], id, "Contains">>
    BY <2>1, <2>2, <2>3
  <2>4. CASE \E i \in 1..Len(l.owners) : Links(id, l)[k] = <<id, l.owners[i], "BelongsTo">>
    BY <2>1, <2>2, <2>4
  <2>5. CASE \E i \in 1..Len(l.inputs) : Links(id, l)[k] = <<id, l.inputs[i], "Consumes">>
    BY <2>1, <2>2, <2>5
  <2>6. CASE \E i \in 1..Len(l.inputs) : Links(id, l)[k] = <<l.inputs[i], id, "Produces">>
    BY <2>1, <2>2, <2>6
  <2> QED
    BY <1>1, <2>3, <2>4, <2>5, <2>6, LinkAt
<1>5. Links(id, l) = [k \in 1..2 * (m + n) |-> Links(id, l)[k]]
  BY DEF Links
<1> HIDE DEF m, n
<1> QED
  BY <1>3, <1>4, <1>5

LEMMA NoLinks ==
  ASSUME NEW id, NEW l, l.owners = <<>>, l.inputs = <<>>
  PROVE Range(Links(id, l)) = {}
<1>1. DOMAIN Links(id, l) = 1..2 * (0 + 0)
  BY DEF Links
<1> QED
  BY <1>1 DEF Range

LEMMA NeighborsAreRows ==
  ASSUME NEW ids, NEW rel PROVE Neighbors(ids, rel) \subseteq Rows
BY DEF Neighbors

LEMMA TodoTyped ==
  ASSUME TablesTyped, NEW l \in PostType, l.todo # <<>>
  PROVE /\ Head(l.todo) \in Triples
        /\ Range(l.todo) = {Head(l.todo)} \cup Range(Tail(l.todo))
        /\ Len(l.todo) # 1 => Tail(l.todo) \in Seq(Triples) \ {<<>>}
        /\ Len(l.todo) = 1 => Range(l.todo) = {Head(l.todo)}
<1> DEFINE todo == l.todo
<1>1. todo \in Seq(Triples) /\ Len(todo) \in Nat /\ Len(todo) > 0
  BY DEF PostType
<1> HIDE DEF todo
<1>2. Head(todo) \in Triples /\ Tail(todo) \in Seq(Triples) /\ Len(Tail(todo)) = Len(todo) - 1
  BY <1>1
<1>3. Range(todo) = {Head(todo)} \cup Range(Tail(todo))
  <2>1. ASSUME NEW i \in DOMAIN todo PROVE todo[i] \in {Head(todo)} \cup Range(Tail(todo))
    <3>1. CASE i = 1
      BY <1>1, <3>1
    <3>2. CASE i # 1
      <4>1. i - 1 \in DOMAIN Tail(todo) /\ Tail(todo)[i - 1] = todo[i]
        BY <1>1, <1>2, <3>2
      <4> QED
        BY <4>1 DEF Range
    <3> QED
      BY <3>1, <3>2
  <2>2. Head(todo) \in Range(todo)
    BY <1>1 DEF Range
  <2>3. ASSUME NEW i \in DOMAIN Tail(todo) PROVE Tail(todo)[i] \in Range(todo)
    <3>1. i + 1 \in DOMAIN todo /\ Tail(todo)[i] = todo[i + 1]
      BY <1>1, <1>2
    <3> QED
      BY <3>1 DEF Range
  <2> QED
    BY <2>1, <2>2, <2>3 DEF Range
<1>4. Len(todo) # 1 => Tail(todo) # <<>>
  <2> SUFFICES ASSUME Len(todo) # 1, Tail(todo) = <<>> PROVE FALSE
    OBVIOUS
  <2>1. PICK s : s = Tail(todo)
    OBVIOUS
  <2>2. Len(s) = Len(todo) - 1
    BY <1>2, <2>1
  <2>3. Len(s) = 0
    <3>1. s = <<>>
      BY <2>1
    <3> QED
      BY <3>1
  <2> QED
    BY <1>1, <2>2, <2>3
<1>5. Len(todo) = 1 => Range(Tail(todo)) = {}
  <2> SUFFICES ASSUME Len(todo) = 1 PROVE Range(Tail(todo)) = {}
    OBVIOUS
  <2>1. PICK s : s = Tail(todo)
    OBVIOUS
  <2>2. s \in Seq(Triples) /\ Len(s) = 0
    BY <1>1, <1>2, <2>1
  <2>3. DOMAIN s = {}
    BY <2>2
  <2> QED
    BY <2>1, <2>3 DEF Range
<1> QED
  BY <1>2, <1>3, <1>4, <1>5 DEF todo

LEMMA NextEdgeTyped ==
  ASSUME Typed, NEW t \in Threads, local[t] \in PostType, local[t].todo # <<>>,
         LocalsOK("seekEdge", local[t]), NextEdge(t)
  PROVE \/ Finish(t, 200)
        \/ \E l : Continue(t, "seekEdge", l) /\ LocalsOK("seekEdge", l)
<1> DEFINE new == [local[t] EXCEPT !.todo = Tail(@)]
<1>1. CASE Len(local[t].todo) = 1
  BY <1>1 DEF NextEdge
<1>2. CASE Len(local[t].todo) # 1
  <2>1. Tail(local[t].todo) \in Seq(Triples) \ {<<>>}
    BY <1>2, TodoTyped DEF Typed
  <2>2. LocalsOK("seekEdge", new)
    BY <2>1 DEF LocalsOK, PostType, CreatePcs, DeletePcs
  <2>3. Continue(t, "seekEdge", new)
    BY <1>2 DEF NextEdge
  <2> QED
    BY <2>2, <2>3
<1> QED
  BY <1>1, <1>2

\* The handlers of POST, but for the upload of an entity and of a Process.
LEMMA PostStepTyped ==
  ASSUME Typed, NEW t \in Threads, Seek(t) \/ Reread(t) \/ SeekEdge(t) \/ LookupFails(t)
  PROVE Typed'
<1>1. /\ UNCHANGED <<entities, edges, nextId, unlinked>>
      /\ requests' \in 0..MaxRequests /\ quiet' \in BOOLEAN
  BY DEF Seek, Reread, SeekEdge, LookupFails, purview, Typed, TablesTyped
<1>2. LocalsOK(pc[t], local[t]) /\ TablesTyped
  BY DEF Typed, ThreadsTyped
<1>3. ASSUME NEW code \in {200, 404, 409, 412, 500}, Finish(t, code) PROVE Typed'
  BY <1>1, <1>3, QuietTyped
<1>4. ASSUME NEW label \in CreatePcs, NEW l, Continue(t, label, l), LocalsOK(label, l) PROVE Typed'
  BY <1>1, <1>4, QuietTyped
<1>5. CASE Seek(t)
  <2>1. LocalsOK("put", local[t])
    BY <1>2, <1>5 DEF LocalsOK, Seek, CreatePcs, DeletePcs
  <2>2. ASSUME NEW id \in Rows, local[t].type # "Project"
        PROVE LocalsOK("reread", [local[t] EXCEPT !.guid = id])
    <3>1. id \in Issued /\ id # 0
      BY <1>2 DEF TablesTyped
    <3> QED
      BY <1>2, <1>5, <2>2, <3>1 DEF LocalsOK, Seek, CreatePcs, DeletePcs, PostType
  <2>3. ASSUME NEW id \in Found(t), LinkFound(t, id) PROVE Typed'
    <3>1. id \in Rows
      BY DEF Found, OfType
    <3> DEFINE new == [local[t] EXCEPT !.guid = id]
    <3>2. local[t].type # "Project" => LocalsOK("reread", new)
      BY <2>2, <3>1
    <3>3. \/ Finish(t, 200)
          \/ local[t].type # "Project" /\ Continue(t, "reread", new)
      BY <2>3 DEF LinkFound
    <3> HIDE DEF new
    <3> QED
      BY <1>3, <1>4, <3>2, <3>3 DEF CreatePcs
  <2> QED
    BY <1>3, <1>4, <1>5, <2>1, <2>3 DEF Seek, CreatePcs
<1>6. CASE Reread(t)
  <2> DEFINE links == Links(local[t].guid, local[t])
             new == [local[t] EXCEPT !.todo = links]
  <2>1. local[t] \in PostType /\ local[t].guid # 0 /\ local[t].owners # <<>>
    BY <1>2, <1>6 DEF LocalsOK, Reread, CreatePcs
  <2>2. links \in Seq(Triples) \ {<<>>}
    BY <2>1, LinksTyped DEF PostType
  <2> HIDE DEF links
  <2>3. LocalsOK("seekEdge", new)
    <3>1. new \in PostType
      BY <2>1, <2>2 DEF PostType
    <3>2. /\ new.guid = local[t].guid /\ new.type = local[t].type
          /\ new.owners = local[t].owners /\ new.todo = links
      BY <2>1 DEF PostType
    <3>3. local[t].type # "Project"
      BY <1>2, <1>6 DEF LocalsOK, Reread
    <3> HIDE DEF new
    <3> QED
      BY <2>1, <2>2, <3>1, <3>2, <3>3 DEF LocalsOK, CreatePcs, DeletePcs
  <2>4. Finish(t, 404) \/ Continue(t, "seekEdge", new)
    BY <1>6 DEF Reread, links
  <2> HIDE DEF new
  <2> QED
    BY <1>3, <1>4, <2>3, <2>4 DEF CreatePcs
<1>7. CASE SeekEdge(t)
  <2>1. local[t] \in PostType /\ local[t].todo # <<>> /\ LocalsOK("seekEdge", local[t])
    BY <1>2, <1>7 DEF LocalsOK, SeekEdge, CreatePcs
  <2>2. LocalsOK("putEdge", local[t])
    BY <1>2, <1>7 DEF LocalsOK, SeekEdge, CreatePcs, DeletePcs
  <2>3. CASE NextEdge(t)
    BY <1>3, <1>4, <2>1, <2>3, NextEdgeTyped DEF CreatePcs
  <2>4. CASE Continue(t, "putEdge", local[t])
    BY <1>4, <2>2, <2>4 DEF CreatePcs
  <2> QED
    BY <1>7, <2>3, <2>4 DEF SeekEdge
<1>8. CASE LookupFails(t)
  <2>1. PICK label \in {"put", "putEdge"} : label = IF pc[t] = "seek" THEN "put" ELSE "putEdge"
    OBVIOUS
  <2>2. LocalsOK(label, local[t])
    BY <1>2, <1>8, <2>1 DEF LocalsOK, LookupFails, CreatePcs, DeletePcs
  <2>3. Continue(t, label, local[t])
    BY <1>8, <2>1 DEF LookupFails
  <2> QED
    BY <1>4, <2>2, <2>3 DEF CreatePcs
<1> QED
  BY <1>5, <1>6, <1>7, <1>8

\* The upload of an entity: the only step that gives a guid.
LEMMA PutTyped ==
  ASSUME Typed, NEW t \in Threads, Put(t)
  PROVE Typed'
<1>1. LocalsOK(pc[t], local[t]) /\ TablesTyped /\ ThreadsTyped
  BY DEF Typed, ThreadsTyped
<1>2. pc[t] = "put" /\ local[t] \in PostType
  BY <1>1 DEF Put, LocalsOK, CreatePcs
<1>3. CASE \E id \in Found(t) : Precondition(t, id)
  <2>1. UNCHANGED <<entities, edges, nextId, unlinked, requests, quiet>>
    BY <1>3 DEF Put, Precondition
  <2>2. Finish(t, 412)
    BY <1>3 DEF Precondition
  <2>3. requests' \in 0..MaxRequests /\ quiet' \in BOOLEAN
    BY <1>1, <2>1 DEF TablesTyped
  <2> QED
    BY <2>1, <2>2, <2>3, QuietTyped
<1>4. CASE /\ entities' = [id \in Rows \cup {nextId} |->
                IF id = nextId THEN [type |-> local[t].type, qn |-> local[t].qn,
                                     def |-> local[t].def, refs |-> local[t].refs]
                ELSE entities[id]]
           /\ nextId' = nextId + 1
           /\ LinkFound(t, nextId)
  <2>1. nextId \in Nat /\ nextId # 0 /\ nextId' \in Nat /\ nextId <= nextId' /\ nextId' # 0
    BY <1>1, <1>4 DEF TablesTyped
  <2>2. Issued \subseteq Issued' /\ Triples \subseteq Triples' /\ PostType \subseteq PostType'
    BY <2>1, TypesGrow
  <2>3. nextId \in Issued'
    BY <1>4, <2>1 DEF Issued
  <2>4. TablesTyped'
    <3>1. UNCHANGED <<edges, requests, unlinked, quiet>>
      BY DEF Put
    <3>2. Rows' = Rows \cup {nextId}
      BY <1>4 DEF Rows
    <3>3. Rows' \subseteq Issued' \ {0}
      BY <1>1, <2>1, <2>2, <2>3, <3>2 DEF TablesTyped
    <3>4. ASSUME NEW id \in Rows'
          PROVE /\ entities'[id].type \in Types /\ entities'[id].qn \in QualifiedNames
                /\ entities'[id].def \in Defs /\ entities'[id].refs \subseteq Issued'
      <4>1. CASE id = nextId
        BY <1>2, <1>4, <2>2, <4>1 DEF PostType
      <4>2. CASE id # nextId
        BY <1>1, <1>4, <2>2, <3>2, <4>2 DEF TablesTyped
      <4> QED
        BY <4>1, <4>2
    <3> QED
      BY <1>1, <2>1, <2>2, <3>1, <3>3, <3>4 DEF TablesTyped
  <2>5. ThreadsTyped'
    <3>1. CASE Finish(t, 200)
      BY <1>1, <2>1, <3>1, FinishTyped
    <3> PICK new : new = [local[t] EXCEPT !.guid = nextId]
      OBVIOUS
    <3>2. CASE local[t].type # "Project" /\ Continue(t, "reread", new)
      <4>1. new \in PostType'
        BY <1>2, <2>2, <2>3 DEF PostType
      <4>2. /\ new.guid = nextId /\ new.type = local[t].type /\ new.owners = local[t].owners
        BY <1>2 DEF PostType
      <4>3. local[t].owners # <<>>
        BY <1>1, <1>2, <3>2 DEF LocalsOK, CreatePcs
      <4>4. LocalsOK("reread", new)'
        BY <2>1, <3>2, <4>1, <4>2, <4>3 DEF LocalsOK, CreatePcs, DeletePcs
      <4> QED
        BY <1>1, <2>1, <3>2, <4>4, ContinueTyped DEF CreatePcs
    <3> QED
      BY <1>4, <3>1, <3>2 DEF LinkFound
  <2> QED
    BY <2>4, <2>5 DEF Typed
<1> QED
  BY <1>3, <1>4 DEF Put

\* The upload of a Process.
LEMMA PutEdgeTyped ==
  ASSUME Typed, NEW t \in Threads, PutEdge(t)
  PROVE Typed'
<1>1. LocalsOK(pc[t], local[t]) /\ TablesTyped /\ ThreadsTyped
  BY DEF Typed, ThreadsTyped
<1>2. /\ local[t] \in PostType /\ local[t].todo # <<>> /\ LocalsOK("seekEdge", local[t])
  BY <1>1 DEF PutEdge, LocalsOK, CreatePcs, DeletePcs
<1>3. Head(local[t].todo) \in Triples
  BY <1>1, <1>2, TodoTyped
<1>4. nextId \in Nat /\ nextId' = nextId
  BY <1>1 DEF PutEdge, TablesTyped
<1>5. TablesTyped'
  <2>1. edges' \subseteq Triples
    BY <1>1, <1>3 DEF PutEdge, TablesTyped
  <2> QED
    BY <1>1, <2>1 DEF PutEdge, TablesTyped, Rows, Issued, Triples
<1>6. CASE NextEdge(t)
  <2>1. CASE Finish(t, 200)
    BY <1>1, <1>4, <1>5, <2>1, FinishTyped DEF Typed
  <2>2. CASE \E l : Continue(t, "seekEdge", l) /\ LocalsOK("seekEdge", l)
    <3>1. PICK l : Continue(t, "seekEdge", l) /\ LocalsOK("seekEdge", l)
      BY <2>2
    <3>2. LocalsOK("seekEdge", l)'
      BY <1>4, <3>1, LocalsKept
    <3> QED
      BY <1>1, <1>4, <1>5, <3>1, <3>2, ContinueTyped DEF Typed, CreatePcs
  <2> QED
    BY <1>2, <1>6, <2>1, <2>2, NextEdgeTyped
<1>7. CASE Finish(t, 412)
  BY <1>1, <1>4, <1>5, <1>7, FinishTyped DEF Typed
<1> QED
  BY <1>6, <1>7 DEF PutEdge

\* The start of a handler.
LEMMA AcceptTyped ==
  ASSUME Typed, NEW t \in Threads, Post(t) \/ Delete(t)
  PROVE Typed'
<1>1. TablesTyped
  BY DEF Typed
<1>2. UNCHANGED <<entities, edges, nextId, unlinked>> /\ requests' \in 0..MaxRequests
  <2>1. Accept(t)
    BY DEF Post, Delete
  <2> QED
    BY <1>1, <2>1, BoundsAssumption DEF Accept, TablesTyped
<1>3. CASE Refuse(t)
  <2>1. Finish(t, 404) /\ quiet' \in BOOLEAN
    BY <1>1, <1>3 DEF Refuse, TablesTyped
  <2> QED
    BY <1>2, <2>1, QuietTyped
<1>4. CASE Post(t)
  <2>1. CASE /\ \E l : Continue(t, "seek", l) /\ LocalsOK("seek", l) /\ AskedFor(l)
             /\ quiet' = (quiet /\ \A u \in Threads : pc[u] \notin DeletePcs)
    <3>1. PICK l : Continue(t, "seek", l) /\ LocalsOK("seek", l)
      BY <2>1
    <3>2. quiet' \in BOOLEAN
      BY <1>1, <2>1 DEF TablesTyped
    <3> QED
      BY <1>2, <3>1, <3>2, QuietTyped DEF CreatePcs
  <2> QED
    BY <1>1, <1>3, <1>4, <2>1, PostShape
<1>5. CASE Delete(t)
  <2>1. PICK target \in Issued :
          \/ /\ target \in Rows
             /\ Continue(t, "bfs",
                  [target |-> target, rel |-> Downstream(entities[target].type),
                   frontier |-> {target}, seen |-> {target}, edges |-> {}])
             /\ quiet' = (quiet /\ \A u \in Threads : pc[u] \notin CreatePcs)
          \/ target \notin Rows /\ Refuse(t)
    BY <1>5 DEF Delete
  <2> DEFINE l == [target |-> target, rel |-> Downstream(entities[target].type),
                   frontier |-> {target}, seen |-> {target}, edges |-> {}]
  <2>2. Downstream(entities[target].type) \in Relations
    BY DEF Downstream, Relations
  <2>3. l \in DeleteType
    BY <2>2 DEF DeleteType
  <2>4. CASE Continue(t, "bfs", l) /\ quiet' = (quiet /\ \A u \in Threads : pc[u] \notin CreatePcs)
    <3> HIDE DEF l
    <3>1. LocalsOK("bfs", l)
      BY <2>3 DEF LocalsOK, CreatePcs, DeletePcs
    <3>2. quiet' \in BOOLEAN
      BY <1>1, <2>4 DEF TablesTyped
    <3> QED
      BY <1>2, <2>4, <3>1, <3>2, QuietTyped DEF DeletePcs
  <2> QED
    BY <1>3, <2>1, <2>4
<1> QED
  BY <1>4, <1>5

LEMMA DeleteStepTyped ==
  ASSUME Typed, NEW t \in Threads, Search(t) \/ Judge(t) \/ Gather(t)
  PROVE Typed'
<1>1. /\ UNCHANGED <<entities, edges, nextId, unlinked>>
      /\ requests' \in 0..MaxRequests /\ quiet' \in BOOLEAN
  BY DEF Search, Judge, Gather, purview, Typed, TablesTyped
<1>2. LocalsOK(pc[t], local[t]) /\ TablesTyped
  BY DEF Typed, ThreadsTyped
<1>3. local[t] \in DeleteType
  BY <1>2 DEF LocalsOK, Search, Judge, Gather, DeletePcs
<1>4. ASSUME NEW code \in {200, 404, 409, 412, 500}, Finish(t, code) PROVE Typed'
  BY <1>1, <1>4, QuietTyped
<1>5. ASSUME NEW label \in DeletePcs, NEW l \in DeleteType, Continue(t, label, l) PROVE Typed'
  <2>1. LocalsOK(label, l)
    BY <1>5 DEF LocalsOK, CreatePcs, DeletePcs
  <2> QED
    BY <1>1, <1>5, <2>1, QuietTyped
<1>6. CASE Search(t)
  <2> DEFINE next == Neighbors(local[t].frontier, local[t].rel)
             new == [local[t] EXCEPT !.frontier = next, !.seen = @ \cup next]
             label == IF next = {} THEN "judge" ELSE "bfs"
  <2>1. next \subseteq Issued
    BY <1>2, NeighborsAreRows DEF TablesTyped
  <2> HIDE DEF next
  <2>2. new \in DeleteType /\ label \in DeletePcs
    BY <1>3, <2>1 DEF DeleteType, DeletePcs
  <2>3. Finish(t, 404) \/ Continue(t, label, new)
    BY <1>6 DEF Search, next
  <2> HIDE DEF new, label
  <2> QED
    BY <1>4, <1>5, <2>2, <2>3
<1>7. CASE Judge(t)
  <2>1. Finish(t, 404) \/ Finish(t, 412) \/ Continue(t, "gather", local[t])
    BY <1>7 DEF Judge
  <2> QED
    BY <1>3, <1>4, <1>5, <2>1 DEF DeletePcs
<1>8. CASE Gather(t)
  <2> DEFINE found == Incident(local[t].target)
             new == [local[t] EXCEPT !.edges = found]
  <2>1. found \subseteq Triples
    BY <1>2 DEF Incident, TablesTyped
  <2> HIDE DEF found
  <2>2. new \in DeleteType
    BY <1>3, <2>1 DEF DeleteType
  <2>3. Finish(t, 404) \/ Continue(t, "unlink", new)
    BY <1>8 DEF Gather, found
  <2> HIDE DEF new
  <2> QED
    BY <1>4, <1>5, <2>2, <2>3 DEF DeletePcs
<1> QED
  BY <1>6, <1>7, <1>8

\* The steps of a DELETE that change what Purview holds.
LEMMA RemoveTyped ==
  ASSUME Typed, NEW t \in Threads, Unlink(t) \/ DeleteEntity(t)
  PROVE Typed'
<1>1. LocalsOK(pc[t], local[t]) /\ TablesTyped /\ ThreadsTyped
  BY DEF Typed, ThreadsTyped
<1>2. nextId \in Nat /\ nextId' = nextId /\ Issued' = Issued /\ Triples' = Triples
  BY <1>1 DEF Unlink, DeleteEntity, TablesTyped, Issued, Triples
<1>3. CASE Unlink(t)
  <2>1. local[t].target \in Issued
    BY <1>1, <1>3 DEF Unlink, LocalsOK, DeletePcs, DeleteType
  <2>2. TablesTyped'
    BY <1>1, <1>2, <1>3, <2>1 DEF Unlink, TablesTyped, Rows
  <2>3. LocalsOK("remove", local[t])'
    <3>1. LocalsOK("remove", local[t])
      BY <1>1, <1>3 DEF Unlink, LocalsOK, CreatePcs, DeletePcs
    <3>2. PICK l : l = local[t]
      OBVIOUS
    <3>3. LocalsOK("remove", l)'
      BY <1>2, <3>1, <3>2, LocalsKept
    <3> QED
      BY <1>1, <1>3, <3>2, <3>3 DEF Unlink, Continue, ThreadsTyped
  <2>4. Continue(t, "remove", local[t])
    BY <1>3 DEF Unlink
  <2>5. PICK l : l = local[t]
    OBVIOUS
  <2>6. LocalsOK("remove", l)'
    <3>1. LocalsOK("remove", l)
      BY <1>1, <1>3, <2>5 DEF Unlink, LocalsOK, CreatePcs, DeletePcs
    <3> QED
      BY <1>2, <3>1, LocalsKept
  <2>7. ThreadsTyped'
    BY <1>1, <1>2, <2>4, <2>5, <2>6, ContinueTyped DEF DeletePcs
  <2> QED
    BY <2>2, <2>7 DEF Typed
<1>4. CASE DeleteEntity(t)
  <2>1. Finish(t, 200)
    BY <1>4 DEF DeleteEntity
  <2>2. Rows' = Rows \ {local[t].target} /\ \A id \in Rows' : entities'[id] = entities[id]
    BY <1>4 DEF DeleteEntity, Rows
  <2>3. TablesTyped'
    BY <1>1, <1>2, <1>4, <2>2 DEF DeleteEntity, TablesTyped
  <2>4. ThreadsTyped'
    BY <1>1, <1>2, <2>1, FinishTyped
  <2> QED
    BY <2>3, <2>4 DEF Typed
<1> QED
  BY <1>3, <1>4

LEMMA FailTyped ==
  ASSUME Typed, NEW t \in Threads, Fail(t)
  PROVE Typed'
<1>1. UNCHANGED <<entities, edges, nextId, unlinked>> /\ requests' \in 0..MaxRequests
  BY DEF Fail, purview, Typed, TablesTyped
<1>2. Finish(t, 500) /\ quiet' \in BOOLEAN
  BY DEF Fail
<1> QED
  BY <1>1, <1>2, QuietTyped

\* The handlers are idle at first; what Purview holds then is typed.
LEMMA InitTyped == Init => Typed
<1> SUFFICES ASSUME Init PROVE Typed
  OBVIOUS
<1>1. PICK c \in Catalogues :
        /\ entities = c.entities /\ edges = c.edges
        /\ nextId = Cardinality(DOMAIN entities) + 1
  BY DEF Init
<1>2. /\ IsFiniteSet(Rows) /\ Rows = 1..Cardinality(Rows)
      /\ \A id \in Rows :
           /\ entities[id].type \in Types /\ entities[id].qn \in QualifiedNames
           /\ entities[id].def \in Defs /\ entities[id].refs \subseteq Rows
  BY <1>1, CataloguesAssumption DEF Rows
<1>3. Cardinality(Rows) \in Nat /\ nextId = Cardinality(Rows) + 1
  BY <1>1, <1>2, FS_CardinalityType DEF Rows
<1>4. nextId \in Nat \ {0} /\ Rows \subseteq Issued \ {0}
  BY <1>2, <1>3 DEF Issued
<1>5. edges \subseteq Triples
  <2>1. edges \subseteq Rows \X Rows \X Relations
    BY <1>1, CataloguesAssumption DEF Rows
  <2> QED
    BY <1>4, <2>1 DEF Triples
<1>6. TablesTyped
  BY <1>2, <1>4, <1>5, BoundsAssumption DEF Init, TablesTyped
<1>7. ThreadsTyped
  BY DEF Init, ThreadsTyped, LocalsOK, CreatePcs, DeletePcs
<1> QED
  BY <1>6, <1>7 DEF Typed

LEMMA NextTyped == Typed /\ [Next]_vars => Typed'
<1> SUFFICES ASSUME Typed, [Next]_vars PROVE Typed'
  OBVIOUS
<1>1. CASE UNCHANGED vars
  BY <1>1 DEF vars, Typed, TablesTyped, ThreadsTyped, Rows, Issued, Triples,
              LocalsOK, PostType, DeleteType
<1>2. ASSUME NEW t \in Threads, Post(t) \/ Delete(t) \/ Step(t) \/ LookupFails(t) \/ Fail(t) PROVE Typed'
  BY <1>2, AcceptTyped, PostStepTyped, PutTyped, PutEdgeTyped, DeleteStepTyped, RemoveTyped,
     FailTyped DEF Step
<1> QED
  BY <1>1, <1>2 DEF Next

LEMMA TypedAlways == Spec => []Typed
BY InitTyped, NextTyped, PTL DEF Spec

\* What others have deleted of the edges that a DELETE gathered.
GoneOK == gone \in [Threads -> SUBSET Triples]

LEMMA GoneOKAlways == Spec => []GoneOK
<1>1. Init => GoneOK
  BY DEF Init, GoneOK
<1>2. Typed /\ GoneOK /\ Typed' /\ [Next]_vars => GoneOK'
  <2> SUFFICES ASSUME Typed, GoneOK, Typed', [Next]_vars PROVE GoneOK'
    OBVIOUS
  <2>1. nextId \in Nat /\ nextId' \in Nat /\ nextId <= nextId'
    <3>1. nextId \in Nat /\ nextId' \in Nat
      BY DEF Typed, TablesTyped
    <3>2. nextId' = nextId \/ nextId' = nextId + 1
      BY StepOnEntities DEF Untouched, PutsOne, RemovesOne
    <3> QED
      BY <3>1, <3>2
  <2>2. Triples \subseteq Triples'
    BY <2>1, TypesGrow
  <2>3. CASE gone' = gone
    BY <2>2, <2>3 DEF GoneOK
  <2>4. ASSUME NEW t \in Threads, gone' = [gone EXCEPT ![t] = {}] PROVE GoneOK'
    BY <2>2, <2>4 DEF GoneOK
  <2>5. ASSUME NEW t \in Threads, Unlink(t) PROVE GoneOK'
    <3>1. local[t].edges \subseteq Triples
      BY <2>5 DEF Unlink, Typed, ThreadsTyped, LocalsOK, DeletePcs, DeleteType
    <3>2. gone' = [u \in Threads |-> IF pc[u] = "unlink" /\ u # t
                                    THEN gone[u] \cup (local[t].edges \ gone[t]) ELSE {}]
      BY <2>5 DEF Unlink
    <3>3. ASSUME NEW u \in Threads PROVE gone[u] \subseteq Triples
      BY DEF GoneOK
    <3>4. ASSUME NEW u \in Threads
          PROVE (IF pc[u] = "unlink" /\ u # t THEN gone[u] \cup (local[t].edges \ gone[t]) ELSE {})
                  \subseteq Triples'
      BY <2>2, <3>1, <3>3
    <3> QED
      BY <3>2, <3>4 DEF GoneOK
  <2>6. \/ gone' = gone
        \/ \E t \in Threads : gone' = [gone EXCEPT ![t] = {}]
        \/ \E t \in Threads : Unlink(t)
    BY DEF Next, Step, Post, Delete, Accept, LookupFails, Fail, Seek, Put, Reread, SeekEdge, PutEdge,
       Search, Judge, Gather, DeleteEntity, vars
  <2> QED
    BY <2>3, <2>4, <2>5, <2>6
<1> QED
  BY <1>1, <1>2, TypedAlways, PTL DEF Spec

\* The locals of every handler and what it has put in Purview have their types,
\* whatever the handlers of other threads do and whichever of them fail.
THEOREM PurviewTypeCorrectness == Spec => []TypeOK
<1>1. Typed /\ GoneOK => TypeOK
  <2> SUFFICES ASSUME Typed, GoneOK PROVE TypeOK
    OBVIOUS
  <2>1. ASSUME NEW t \in Threads
        PROVE /\ pc[t] \in {"reread", "seekEdge", "putEdge"} => local[t].guid \in Issued \ {0}
              /\ pc[t] \in {"seekEdge", "putEdge"} => local[t].todo \in Seq(Triples) \ {<<>>}
              /\ pc[t] \in DeletePcs => local[t].target \in Issued /\ local[t].seen \subseteq Issued
    <3>1. LocalsOK(pc[t], local[t])
      BY DEF Typed, ThreadsTyped
    <3> QED
      BY <3>1 DEF LocalsOK, CreatePcs, PostType, DeleteType
  <2> QED
    BY <2>1 DEF Typed, TablesTyped, ThreadsTyped, GoneOK, TypeOK, Triples
<1> QED
  BY <1>1, TypedAlways, GoneOKAlways, PTL

-----------------------------------------------------------------------------
(* Features are made of older ones *)

\* The features that an entity is made of are older.
RefsAreOlder == \A id \in Rows : \A r \in entities[id].refs : r < id

\* So is a feature that a Process says another is made of, and what an anchor
\* consumes are sources.
ProducedByOlder ==
  \A a, b \in OfType(Features) : <<a, b, "Produces">> \in edges => a < b
AnchorsConsumeSources ==
  \A a \in OfType({"Anchor"}), b \in Rows :
    <<a, b, "Consumes">> \in edges => entities[b].type = "Source"

\* A POST links its entity, which has the type it asked for, to older features or
\* to sources.
PostOK(l) ==
  /\ l.type = "Project" => l.owners = <<>> /\ l.inputs = <<>>
  /\ l.type = "Source" => l.inputs = <<>>
  /\ l.type \in {"Anchor", "AnchorFeature"} =>
       \A i \in Range(l.inputs) \cap Rows : entities[i].type = "Source"
  /\ l.type = "DerivedFeature" =>
       /\ Range(l.inputs) \subseteq l.refs
       /\ l.guid # 0 => \A r \in l.refs : r < l.guid
  /\ l.guid \in Rows => entities[l.guid].type = l.type
  /\ IF l.guid = 0 THEN l.todo = <<>> ELSE Range(l.todo) \subseteq Range(Links(l.guid, l))

FeatureInv ==
  /\ RefsAreOlder /\ ProducedByOlder /\ AnchorsConsumeSources
  /\ \A t \in Threads : pc[t] \in CreatePcs => PostOK(local[t])

\* No guid is that of another entity later.
Ageing == \A id \in Issued \cap Rows' : id \in Rows /\ entities'[id] = entities[id]

LEMMA LinksSame ==
  ASSUME NEW id, NEW l, NEW m, l.owners = m.owners, l.inputs = m.inputs
  PROVE Links(id, l) = Links(id, m)
BY DEF Links

LEMMA PostKept ==
  ASSUME Ageing, NEW l \in PostType, PostOK(l)
  PROVE PostOK(l)'
<1>1. l.guid \in Issued /\ Range(l.inputs) \subseteq Issued
  BY DEF PostType, Range
<1>2. \A i \in Range(l.inputs) \cap Rows' : i \in Rows /\ entities'[i] = entities[i]
  BY <1>1 DEF Ageing
<1>3. l.guid \in Rows' => l.guid \in Rows /\ entities'[l.guid] = entities[l.guid]
  BY <1>1 DEF Ageing
<1> QED
  BY <1>2, <1>3 DEF PostOK

\* A step of one thread leaves what the POSTs of the others know.
LEMMA FinishPosts ==
  ASSUME Typed, FeatureInv, Ageing, NEW t \in Threads, NEW code, Finish(t, code),
         NEW u \in Threads, pc'[u] \in CreatePcs
  PROVE PostOK(local[u])'
<1>1. u # t /\ pc'[u] = pc[u] /\ local'[u] = local[u]
  BY DEF Finish, Typed, ThreadsTyped, CreatePcs
<1>2. PICK l : l = local[u]
  OBVIOUS
<1>3. l \in PostType /\ PostOK(l)
  BY <1>1, <1>2 DEF Typed, ThreadsTyped, LocalsOK, FeatureInv
<1> QED
  BY <1>1, <1>2, <1>3, PostKept

LEMMA ContinuePosts ==
  ASSUME Typed, FeatureInv, Ageing, NEW t \in Threads, NEW label, NEW l, Continue(t, label, l),
         label \in CreatePcs => PostOK(l)',
         NEW u \in Threads, pc'[u] \in CreatePcs
  PROVE PostOK(local[u])'
<1>1. CASE u = t
  <2>1. pc'[u] = label /\ local'[u] = l
    BY <1>1 DEF Continue, Typed, ThreadsTyped
  <2> QED
    BY <2>1
<1>2. CASE u # t
  <2>1. pc'[u] = pc[u] /\ local'[u] = local[u]
    BY <1>2 DEF Continue, Typed, ThreadsTyped
  <2>2. PICK m : m = local[u]
    OBVIOUS
  <2>3. m \in PostType /\ PostOK(m)
    BY <2>1, <2>2 DEF Typed, ThreadsTyped, LocalsOK, FeatureInv
  <2> QED
    BY <2>1, <2>2, <2>3, PostKept
<1> QED
  BY <1>1, <1>2

\* A POST starts with the guids of what it belongs to and is made of.
LEMMA AskedIsOK ==
  ASSUME Typed, FeatureInv, NEW l \in PostType, AskedFor(l)
  PROVE PostOK(l)
<1>1. l.guid = 0 /\ l.todo = <<>> /\ 0 \notin Rows
  BY DEF AskedFor, Typed, TablesTyped
<1>2. CASE l.type = "AnchorFeature"
  <2>1. PICK anchor \in OfType({"Anchor"}) : Range(l.inputs) \subseteq Neighbors({anchor}, "Consumes")
    BY <1>2 DEF AskedFor, Asked
  <2>2. ASSUME NEW i \in Range(l.inputs) \cap Rows PROVE entities[i].type = "Source"
    <3>1. <<anchor, i, "Consumes">> \in edges
      BY <2>1 DEF Neighbors
    <3> QED
      BY <2>1, <3>1 DEF FeatureInv, AnchorsConsumeSources
  <2> QED
    BY <1>1, <1>2, <2>2 DEF PostOK
<1>3. CASE l.type = "Anchor"
  BY <1>1, <1>3 DEF PostOK, AskedFor, Asked, OfType
<1>4. CASE l.type \notin {"Anchor", "AnchorFeature"}
  BY <1>1, <1>4 DEF PostOK, AskedFor, Asked
<1> QED
  BY <1>2, <1>3, <1>4

\* The steps that leave what Purview holds, or take some of it away.
LEMMA LessIsOlder ==
  ASSUME Typed, FeatureInv, Ageing, edges' \subseteq edges, Rows' \subseteq Rows
  PROVE RefsAreOlder' /\ ProducedByOlder' /\ AnchorsConsumeSources'
<1>1. \A id \in Rows' : id \in Issued /\ id \in Rows /\ entities'[id] = entities[id]
  BY DEF Typed, TablesTyped, Ageing
<1>2. \A types : \A id \in OfType(types)' : id \in OfType(types)
  BY <1>1 DEF OfType
<1>3. RefsAreOlder'
  BY <1>1 DEF FeatureInv, RefsAreOlder
<1>4. ProducedByOlder'
  <2> SUFFICES ASSUME NEW a \in OfType(Features)', NEW b \in OfType(Features)',
                      <<a, b, "Produces">> \in edges'
               PROVE a < b
    BY DEF ProducedByOlder
  <2>1. <<a, b, "Produces">> \in edges
    OBVIOUS
  <2>2. a \in OfType(Features) /\ b \in OfType(Features)
    BY <1>2
  <2> QED
    BY <2>1, <2>2 DEF FeatureInv, ProducedByOlder
<1>5. AnchorsConsumeSources'
  <2> SUFFICES ASSUME NEW a \in OfType({"Anchor"})', NEW b \in Rows',
                      <<a, b, "Consumes">> \in edges'
               PROVE entities'[b].type = "Source"
    BY DEF AnchorsConsumeSources
  <2>1. <<a, b, "Consumes">> \in edges
    OBVIOUS
  <2>2. a \in OfType({"Anchor"}) /\ b \in Rows /\ entities'[b] = entities[b]
    BY <1>1, <1>2
  <2> QED
    BY <2>1, <2>2 DEF FeatureInv, AnchorsConsumeSources
<1> QED
  BY <1>3, <1>4, <1>5

\* The steps of a POST that change nothing but the locals.
LEMMA PostStepFeatures ==
  ASSUME Typed, FeatureInv, NEW t \in Threads, Seek(t) \/ Reread(t) \/ SeekEdge(t) \/ LookupFails(t)
  PROVE FeatureInv'
<1>1. UNCHANGED <<entities, edges>> /\ Rows' = Rows
  BY DEF Seek, Reread, SeekEdge, LookupFails, purview, Rows
<1>2. Ageing
  BY <1>1 DEF Ageing
<1>3. RefsAreOlder' /\ ProducedByOlder' /\ AnchorsConsumeSources'
  BY <1>1, <1>2, LessIsOlder
<1>4. PICK l : l = local[t]
  OBVIOUS
<1>5. pc[t] \in CreatePcs /\ l \in PostType /\ PostOK(l)
  BY <1>4 DEF Seek, Reread, SeekEdge, LookupFails, Typed, ThreadsTyped, LocalsOK, FeatureInv,
     CreatePcs
<1>6. ASSUME NEW code, Finish(t, code) PROVE FeatureInv'
  BY <1>2, <1>3, <1>6, FinishPosts DEF FeatureInv
<1>7. ASSUME NEW label, NEW new \in PostType, Continue(t, label, new), PostOK(new) PROVE FeatureInv'
  <2>1. PostOK(new)'
    BY <1>2, <1>7, PostKept
  <2> QED
    BY <1>2, <1>3, <1>7, <2>1, ContinuePosts DEF FeatureInv
<1>8. ASSUME NextEdge(t), l.todo # <<>>, l.guid # 0 PROVE FeatureInv'
  <2>1. PICK new : new = [l EXCEPT !.todo = Tail(@)]
    OBVIOUS
  <2>2. Len(l.todo) # 1 => Tail(l.todo) \in Seq(Triples)
    BY <1>5, <1>8, TodoTyped DEF Typed
  <2>3. Range(Tail(l.todo)) \subseteq Range(l.todo)
    BY <1>5, <1>8, TodoTyped DEF Typed
  <2>4. CASE Len(l.todo) = 1
    BY <1>4, <1>6, <1>8, <2>4 DEF NextEdge
  <2>5. CASE Len(l.todo) # 1
    <3>1. new \in PostType
      BY <1>5, <2>1, <2>2, <2>5 DEF PostType
    <3>2. /\ new.type = l.type /\ new.refs = l.refs /\ new.owners = l.owners
          /\ new.inputs = l.inputs /\ new.guid = l.guid /\ new.todo = Tail(l.todo)
      BY <1>5, <2>1 DEF PostType
    <3>3. Links(new.guid, new) = Links(l.guid, l)
      BY <3>2, LinksSame
    <3>4. PostOK(new)
      BY <1>5, <1>8, <2>3, <3>2, <3>3 DEF PostOK
    <3>5. Continue(t, "seekEdge", new)
      BY <1>4, <1>8, <2>1, <2>5 DEF NextEdge
    <3> QED
      BY <1>7, <3>1, <3>4, <3>5
  <2> QED
    BY <2>4, <2>5
<1>9. CASE Seek(t)
  <2>1. l.guid = 0
    BY <1>4, <1>9 DEF Seek, Typed, ThreadsTyped, LocalsOK
  <2>2. ASSUME NEW id \in Found(t), SameAttributes(id, local[t]), LinkFound(t, id)
        PROVE FeatureInv'
    <3>1. PICK new : new = [l EXCEPT !.guid = id]
      OBVIOUS
    <3>2. id \in Rows /\ entities[id].type = l.type /\ entities[id].refs = l.refs /\ id # 0
      BY <1>4, <2>2 DEF Found, OfType, SameAttributes, Typed, TablesTyped
    <3>3. new \in PostType
      BY <1>5, <3>1, <3>2 DEF PostType, Typed, TablesTyped
    <3>4. /\ new.type = l.type /\ new.refs = l.refs /\ new.owners = l.owners
          /\ new.inputs = l.inputs /\ new.guid = id /\ new.todo = l.todo
      BY <1>5, <3>1 DEF PostType
    <3>5. \A r \in l.refs : r < id
      BY <3>2 DEF FeatureInv, RefsAreOlder
    <3>6. l.todo = <<>> /\ Range(<<>>) = {}
      BY <1>5, <2>1 DEF PostOK, Range
    <3>7. PostOK(new)
      BY <1>5, <3>2, <3>4, <3>5, <3>6 DEF PostOK
    <3>8. Finish(t, 200) \/ Continue(t, "reread", new)
      BY <1>4, <2>2, <3>1 DEF LinkFound
    <3> QED
      BY <1>6, <1>7, <3>3, <3>7, <3>8
  <2>3. CASE Continue(t, "put", local[t])
    BY <1>4, <1>5, <1>7, <2>3
  <2> QED
    BY <1>6, <1>9, <2>2, <2>3 DEF Seek
<1>10. CASE Reread(t)
  <2>1. l.guid # 0 /\ l.owners # <<>> /\ l.guid \in Issued
    BY <1>4, <1>5, <1>10 DEF Reread, Typed, ThreadsTyped, LocalsOK, PostType
  <2>2. PICK new : new = [l EXCEPT !.todo = Links(l.guid, l)]
    OBVIOUS
  <2>3. Links(l.guid, l) \in Seq(Triples)
    BY <1>5, <2>1, LinksTyped
  <2>4. new \in PostType
    BY <1>5, <2>2, <2>3 DEF PostType
  <2>5. /\ new.type = l.type /\ new.refs = l.refs /\ new.owners = l.owners
        /\ new.inputs = l.inputs /\ new.guid = l.guid /\ new.todo = Links(l.guid, l)
    BY <1>5, <2>2 DEF PostType
  <2>6. Links(new.guid, new) = Links(l.guid, l)
    BY <2>5, LinksSame
  <2>7. PostOK(new)
    BY <1>5, <2>1, <2>5, <2>6 DEF PostOK
  <2>8. Finish(t, 404) \/ Continue(t, "seekEdge", new)
    BY <1>4, <1>10, <2>2 DEF Reread
  <2> QED
    BY <1>6, <1>7, <2>4, <2>7, <2>8
<1>11. CASE SeekEdge(t)
  <2>1. l.todo # <<>> /\ l.guid # 0
    BY <1>4, <1>11 DEF SeekEdge, Typed, ThreadsTyped, LocalsOK
  <2>2. NextEdge(t) \/ Continue(t, "putEdge", l)
    BY <1>4, <1>11 DEF SeekEdge
  <2> QED
    BY <1>5, <1>7, <1>8, <2>1, <2>2
<1>12. CASE LookupFails(t)
  <2>1. \E label : Continue(t, label, l)
    BY <1>4, <1>12 DEF LookupFails
  <2> QED
    BY <1>5, <1>7, <2>1
<1> QED
  BY <1>9, <1>10, <1>11, <1>12

LEMMA PutFeatures ==
  ASSUME Typed, FeatureInv, NEW t \in Threads, Put(t)
  PROVE FeatureInv'
<1>1. PICK l : l = local[t]
  OBVIOUS
<1>2. /\ pc[t] = "put" /\ l \in PostType /\ PostOK(l) /\ l.guid = 0 /\ edges' = edges
      /\ TablesTyped
  BY <1>1 DEF Put, Typed, ThreadsTyped, LocalsOK, FeatureInv, CreatePcs
<1>3. CASE \E id \in Found(t) : Precondition(t, id)
  <2>1. entities' = entities /\ Rows' = Rows /\ Finish(t, 412)
    BY <1>3 DEF Precondition, Rows
  <2>2. Ageing
    BY <2>1 DEF Ageing
  <2>3. RefsAreOlder' /\ ProducedByOlder' /\ AnchorsConsumeSources'
    BY <1>2, <2>1, <2>2, LessIsOlder
  <2> QED
    BY <2>1, <2>2, <2>3, FinishPosts DEF FeatureInv
<1>4. CASE /\ entities' = [id \in Rows \cup {nextId} |->
                IF id = nextId THEN [type |-> l.type, qn |-> l.qn, def |-> l.def, refs |-> l.refs]
                ELSE entities[id]]
           /\ nextId' = nextId + 1
           /\ LinkFound(t, nextId)
  <2>1. nextId \in Nat /\ nextId # 0 /\ nextId \notin Issued /\ Rows \subseteq Issued
        /\ \A r \in Issued : r < nextId
    BY <1>2 DEF TablesTyped, Issued
  <2>2. /\ Rows' = Rows \cup {nextId}
        /\ \A id \in Rows : entities'[id] = entities[id]
        /\ entities'[nextId] = [type |-> l.type, qn |-> l.qn, def |-> l.def, refs |-> l.refs]
    BY <1>4, <2>1 DEF Rows
  <2>3. Ageing
    BY <2>1, <2>2 DEF Ageing
  <2>4. RefsAreOlder'
    <3>1. \A r \in l.refs : r < nextId
      BY <1>2, <2>1 DEF PostType
    <3> QED
      BY <2>2, <3>1 DEF RefsAreOlder, FeatureInv
  <2>5. \A a, b : \A r \in Relations : <<a, b, r>> \in edges' => a \in Issued /\ b \in Issued
    BY <1>2 DEF TablesTyped, Triples
  <2>6. \A types : \A id \in OfType(types)' : id \in Issued => id \in OfType(types)
    BY <2>1, <2>2 DEF OfType
  <2>7. ProducedByOlder'
    <3> SUFFICES ASSUME NEW a \in OfType(Features)', NEW b \in OfType(Features)',
                        <<a, b, "Produces">> \in edges'
                 PROVE a < b
      BY DEF ProducedByOlder
    <3>1. a \in OfType(Features) /\ b \in OfType(Features)
      BY <2>5, <2>6 DEF Relations
    <3> QED
      BY <1>2, <3>1 DEF FeatureInv, ProducedByOlder
  <2>8. AnchorsConsumeSources'
    <3> SUFFICES ASSUME NEW a \in OfType({"Anchor"})', NEW b \in Rows',
                        <<a, b, "Consumes">> \in edges'
                 PROVE entities'[b].type = "Source"
      BY DEF AnchorsConsumeSources
    <3>1. a \in Issued /\ b \in Issued
      BY <2>5 DEF Relations
    <3>2. a \in OfType({"Anchor"}) /\ b \in Rows
      BY <2>1, <2>2, <2>6, <3>1
    <3> QED
      BY <1>2, <2>2, <3>2 DEF FeatureInv, AnchorsConsumeSources
  <2>9. PICK new : new = [l EXCEPT !.guid = nextId]
    OBVIOUS
  <2>10. PostOK(new)'
    <3>1. /\ new.type = l.type /\ new.refs = l.refs /\ new.owners = l.owners
          /\ new.inputs = l.inputs /\ new.guid = nextId /\ new.todo = l.todo
      BY <1>2, <2>9 DEF PostType
    <3>2. PostOK(l)'
      BY <1>2, <2>3, PostKept
    <3>3. \A r \in l.refs : r < nextId
      BY <1>2, <2>1 DEF PostType
    <3>4. l.todo = <<>> /\ Range(<<>>) = {}
      BY <1>2 DEF PostOK, Range
    <3>5. entities'[new.guid].type = new.type
      BY <2>2, <3>1
    <3> QED
      BY <2>1, <3>1, <3>2, <3>3, <3>4, <3>5 DEF PostOK
  <2>11. Finish(t, 200) \/ Continue(t, "reread", new)
    BY <1>1, <1>4, <2>9 DEF LinkFound
  <2>12. CASE Finish(t, 200)
    BY <2>3, <2>4, <2>7, <2>8, <2>12, FinishPosts DEF FeatureInv
  <2>13. CASE Continue(t, "reread", new)
    BY <2>3, <2>4, <2>7, <2>8, <2>10, <2>13, ContinuePosts DEF FeatureInv
  <2> QED
    BY <2>11, <2>12, <2>13
<1> QED
  BY <1>1, <1>3, <1>4 DEF Put

\* A Process that is put is one of those its POST has to put.
LEMMA NewEdgeIsOlder ==
  ASSUME Typed, NEW l \in PostType, PostOK(l), l.guid # 0, l.todo # <<>>,
         {Head(l.todo)[1], Head(l.todo)[2]} \subseteq Rows
  PROVE /\ \A a, b \in OfType(Features) : Head(l.todo) = <<a, b, "Produces">> => a < b
        /\ \A a \in OfType({"Anchor"}), b \in Rows :
             Head(l.todo) = <<a, b, "Consumes">> => entities[b].type = "Source"
<1> DEFINE edge == Head(l.todo)
<1>1. PICK k \in DOMAIN Links(l.guid, l) : edge = Links(l.guid, l)[k]
  <2>1. edge \in Range(l.todo)
    BY TodoTyped DEF Typed
  <2>2. edge \in Range(Links(l.guid, l))
    BY <2>1 DEF PostOK
  <2> QED
    BY <2>2 DEF Range
<1>2. l.owners \in Seq(Issued) /\ l.inputs \in Seq(Issued)
  BY DEF PostType
<1> HIDE DEF edge
<1>3. \A i \in 1..Len(l.inputs) : l.inputs[i] \in Range(l.inputs)
  BY <1>2 DEF Range
<1>4. {"Contains", "BelongsTo"} \cap {"Produces", "Consumes"} = {}
  OBVIOUS
<1>5. ASSUME NEW a \in OfType(Features), NEW b \in OfType(Features), edge = <<a, b, "Produces">>
      PROVE a < b
  <2>1. PICK i \in 1..Len(l.inputs) : edge = <<l.inputs[i], l.guid, "Produces">>
    <3>1. ASSUME NEW i \in 1..Len(l.owners) PROVE edge # <<l.owners[i], l.guid, "Contains">>
      BY <1>5
    <3>2. ASSUME NEW i \in 1..Len(l.owners) PROVE edge # <<l.guid, l.owners[i], "BelongsTo">>
      BY <1>5
    <3>3. ASSUME NEW i \in 1..Len(l.inputs) PROVE edge # <<l.guid, l.inputs[i], "Consumes">>
      BY <1>5
    <3> QED
      BY <1>1, <1>2, <3>1, <3>2, <3>3, LinkAt
  <2>2. a = l.inputs[i] /\ b = l.guid
    BY <1>5, <2>1
  <2>3. a \in Rows /\ b \in Rows /\ entities[a].type \in Features /\ entities[b].type \in Features
    BY <1>5 DEF OfType
  <2>4. l.type \in Features
    BY <2>2, <2>3 DEF PostOK
  <2>5. l.type = "DerivedFeature"
    <3>1. l.type = "AnchorFeature" => entities[a].type = "Source"
      BY <1>3, <2>2, <2>3 DEF PostOK
    <3> QED
      BY <2>3, <2>4, <3>1 DEF Features
  <2> QED
    BY <1>3, <2>2, <2>5 DEF PostOK
<1>6. ASSUME NEW a \in OfType({"Anchor"}), NEW b \in Rows, edge = <<a, b, "Consumes">>
      PROVE entities[b].type = "Source"
  <2>1. PICK i \in 1..Len(l.inputs) : edge = <<l.guid, l.inputs[i], "Consumes">>
    <3>1. ASSUME NEW i \in 1..Len(l.owners) PROVE edge # <<l.owners[i], l.guid, "Contains">>
      BY <1>6
    <3>2. ASSUME NEW i \in 1..Len(l.owners) PROVE edge # <<l.guid, l.owners[i], "BelongsTo">>
      BY <1>6
    <3>3. ASSUME NEW i \in 1..Len(l.inputs) PROVE edge # <<l.inputs[i], l.guid, "Produces">>
      BY <1>6
    <3> QED
      BY <1>1, <1>2, <3>1, <3>2, <3>3, LinkAt
  <2>2. a = l.guid /\ b = l.inputs[i]
    BY <1>6, <2>1
  <2>3. l.type = "Anchor"
    BY <1>6, <2>2 DEF PostOK, OfType
  <2> QED
    BY <1>3, <1>6, <2>2, <2>3 DEF PostOK
<1> QED
  BY <1>5, <1>6 DEF edge

LEMMA PutEdgeFeatures ==
  ASSUME Typed, FeatureInv, NEW t \in Threads, PutEdge(t)
  PROVE FeatureInv'
<1>1. PICK l : l = local[t]
  OBVIOUS
<1>2. /\ l \in PostType /\ PostOK(l) /\ l.guid # 0 /\ l.todo # <<>>
      /\ entities' = entities /\ Rows' = Rows
  BY <1>1 DEF PutEdge, Typed, ThreadsTyped, LocalsOK, FeatureInv, CreatePcs, Rows
<1>3. Ageing
  BY <1>2 DEF Ageing
<1>4. RefsAreOlder' /\ ProducedByOlder' /\ AnchorsConsumeSources'
  <2>1. CASE edges' = edges
    BY <1>2, <1>3, <2>1, LessIsOlder
  <2>2. CASE /\ {Head(l.todo)[1], Head(l.todo)[2]} \subseteq Rows
             /\ edges' = edges \cup {Head(l.todo)}
    <3>1. PICK edge : edge = Head(l.todo)
      OBVIOUS
    <3>2. /\ \A a, b \in OfType(Features) : edge = <<a, b, "Produces">> => a < b
          /\ \A a \in OfType({"Anchor"}), b \in Rows :
               edge = <<a, b, "Consumes">> => entities[b].type = "Source"
      BY <1>2, <2>2, <3>1, NewEdgeIsOlder
    <3>3. edges' = edges \cup {edge}
      BY <2>2, <3>1
    <3>4. \A types : OfType(types)' = OfType(types)
      BY <1>2 DEF OfType
    <3>5. RefsAreOlder'
      BY <1>2 DEF FeatureInv, RefsAreOlder
    <3>6. ProducedByOlder'
      BY <3>2, <3>3, <3>4 DEF FeatureInv, ProducedByOlder
    <3>7. AnchorsConsumeSources'
      BY <1>2, <3>2, <3>3, <3>4 DEF FeatureInv, AnchorsConsumeSources
    <3> QED
      BY <3>5, <3>6, <3>7
  <2> QED
    BY <1>1, <2>1, <2>2 DEF PutEdge
<1>5. CASE \E code \in {200, 412} : Finish(t, code)
  BY <1>3, <1>4, <1>5, FinishPosts DEF FeatureInv
<1>6. CASE NextEdge(t) /\ Len(l.todo) # 1
  <2>1. PICK new : new = [l EXCEPT !.todo = Tail(@)]
    OBVIOUS
  <2>2. Tail(l.todo) \in Seq(Triples) /\ Range(Tail(l.todo)) \subseteq Range(l.todo)
    BY <1>2, <1>6, TodoTyped DEF Typed
  <2>3. new \in PostType
    BY <1>2, <2>1, <2>2 DEF PostType
  <2>4. /\ new.type = l.type /\ new.refs = l.refs /\ new.owners = l.owners
        /\ new.inputs = l.inputs /\ new.guid = l.guid /\ new.todo = Tail(l.todo)
    BY <1>2, <2>1 DEF PostType
  <2>5. Links(new.guid, new) = Links(l.guid, l)
    BY <2>4, LinksSame
  <2>6. PostOK(new)
    BY <1>2, <2>2, <2>4, <2>5 DEF PostOK
  <2>7. PostOK(new)'
    BY <1>3, <2>3, <2>6, PostKept
  <2>8. Continue(t, "seekEdge", new)
    BY <1>1, <1>6, <2>1 DEF NextEdge
  <2> QED
    BY <1>3, <1>4, <2>7, <2>8, ContinuePosts DEF FeatureInv
<1> QED
  BY <1>1, <1>5, <1>6 DEF PutEdge, NextEdge

\* The start of handlers, DELETEs and failures put nothing.
LEMMA OtherFeatures ==
  ASSUME Typed, FeatureInv, NEW t \in Threads,
         \/ Post(t) \/ Delete(t) \/ Fail(t)
         \/ Search(t) \/ Judge(t) \/ Gather(t) \/ Unlink(t) \/ DeleteEntity(t)
  PROVE FeatureInv'
<1>1. Rows' \subseteq Rows /\ \A id \in Rows' : entities'[id] = entities[id]
  BY DEF Post, Delete, Accept, Fail, Search, Judge, Gather, Unlink, DeleteEntity, purview, Rows
<1>2. edges' \subseteq edges
  BY DEF Post, Delete, Accept, Fail, Search, Judge, Gather, Unlink, DeleteEntity, purview
<1>3. Ageing
  BY <1>1 DEF Ageing
<1>4. RefsAreOlder' /\ ProducedByOlder' /\ AnchorsConsumeSources'
  BY <1>1, <1>2, <1>3, LessIsOlder
<1>5. ASSUME NEW code, Finish(t, code) PROVE FeatureInv'
  BY <1>3, <1>4, <1>5, FinishPosts DEF FeatureInv
<1>6. ASSUME NEW label, NEW l, Continue(t, label, l), label \in CreatePcs => PostOK(l)'
      PROVE FeatureInv'
  BY <1>3, <1>4, <1>6, ContinuePosts DEF FeatureInv
<1>7. CASE Post(t)
  <2>1. CASE Refuse(t)
    BY <1>5, <2>1 DEF Refuse
  <2>2. CASE \E l : Continue(t, "seek", l) /\ LocalsOK("seek", l) /\ AskedFor(l)
    <3>1. PICK l : Continue(t, "seek", l) /\ LocalsOK("seek", l) /\ AskedFor(l)
      BY <2>2
    <3>2. l \in PostType
      BY <3>1 DEF LocalsOK, CreatePcs
    <3>3. PostOK(l)'
      BY <1>3, <3>1, <3>2, AskedIsOK, PostKept
    <3> QED
      BY <1>6, <3>1, <3>3
  <2> QED
    BY <1>7, <2>1, <2>2, PostShape DEF Typed
<1>8. CASE ~Post(t)
  <2>1. (\E code : Finish(t, code)) \/ (\E label \in DeletePcs : \E l : Continue(t, label, l))
    BY <1>8 DEF Delete, Refuse, Fail, Search, Judge, Gather, Unlink, DeleteEntity, DeletePcs
  <2>2. DeletePcs \cap CreatePcs = {}
    BY DEF DeletePcs, CreatePcs
  <2> QED
    BY <1>5, <1>6, <2>1, <2>2
<1> QED
  BY <1>7, <1>8

LEMMA InitFeatures == Init => FeatureInv
<1> SUFFICES ASSUME Init PROVE FeatureInv
  OBVIOUS
<1>1. PICK c \in Catalogues : entities = c.entities /\ edges = c.edges
  BY DEF Init
<1>2. /\ \A id \in Rows : entities[id].refs \subseteq Rows /\ \A r \in entities[id].refs : r < id
      /\ edges \subseteq Rows \X Rows \X Relations
      /\ \A e \in edges :
           /\ e[3] = "Produces" /\ {entities[e[1]].type, entities[e[2]].type} \subseteq Features
                => e[1] < e[2]
           /\ e[3] = "Consumes" /\ entities[e[1]].type = "Anchor"
                => entities[e[2]].type = "Source"
  BY <1>1, CataloguesAssumption DEF Rows
<1>3. ProducedByOlder
  BY <1>2 DEF ProducedByOlder, OfType
<1>4. AnchorsConsumeSources
  BY <1>2 DEF AnchorsConsumeSources, OfType
<1> QED
  BY <1>2, <1>3, <1>4 DEF FeatureInv, RefsAreOlder, Init, CreatePcs

LEMMA NextFeatures == Typed /\ FeatureInv /\ [Next]_vars => FeatureInv'
<1> SUFFICES ASSUME Typed, FeatureInv, [Next]_vars PROVE FeatureInv'
  OBVIOUS
<1>1. CASE UNCHANGED vars
  BY <1>1 DEF vars, FeatureInv, RefsAreOlder, ProducedByOlder, AnchorsConsumeSources, PostOK,
              Rows, OfType, Issued
<1>2. ASSUME NEW t \in Threads, Post(t) \/ Delete(t) \/ Step(t) \/ LookupFails(t) \/ Fail(t) PROVE FeatureInv'
  BY <1>2, PostStepFeatures, PutFeatures, PutEdgeFeatures, OtherFeatures DEF Step
<1> QED
  BY <1>1, <1>2 DEF Next

\* No feature is made of itself, however long the way: of any features there is one,
\* the latest, that none of them is made of.  So the search of a DELETE ends
\* (purview_registry.py:470), whatever POSTs are repeated with other inputs.
THEOREM PurviewSearchEnds == Spec => []NoFeatureOfItself
<1>1. Typed /\ FeatureInv => NoFeatureOfItself
  <2> SUFFICES ASSUME Typed, FeatureInv, NEW set \in (SUBSET OfType(Features)) \ {{}}
               PROVE \E id \in set : Neighbors({id}, "Produces") \cap set = {}
    BY DEF NoFeatureOfItself
  <2>1. nextId - 1 \in Nat /\ set \subseteq 0..(nextId - 1) /\ set # {}
    <3>1. nextId \in Nat \ {0} /\ Rows \subseteq Issued
      BY DEF Typed, TablesTyped
    <3>2. set \subseteq Rows
      BY DEF OfType
    <3>3. nextId - 1 \in Nat
      BY <3>1
    <3>4. set \subseteq Issued
      BY <3>1, <3>2
    <3>5. set # {}
      OBVIOUS
    <3>6. set \subseteq 0..(nextId - 1)
      BY ONLY <3>4, Zenon DEF Issued
    <3> QED
      BY <3>3, <3>5, <3>6
  <2>2. PICK id \in set : \A other \in set : other <= id
    BY <2>1, GreatestOf
  <2>3. ASSUME NEW to \in Neighbors({id}, "Produces") \cap set PROVE FALSE
    <3>1. <<id, to, "Produces">> \in edges
      BY <2>3 DEF Neighbors
    <3>2. id < to
      BY <2>3, <3>1 DEF FeatureInv, ProducedByOlder
    <3>3. to <= id
      BY <2>2, <2>3
    <3>4. id \in Int /\ to \in Int
      <4>1. \A i \in 0..(nextId - 1) : i \in Int
        OBVIOUS
      <4>2. id \in set /\ to \in set
        BY <2>3
      <4> QED
        BY <2>1, <4>1, <4>2
    <3> QED
      BY <3>2, <3>3, <3>4
  <2> QED
    BY <2>3
<1>2. Spec => []FeatureInv
  BY InitFeatures, NextFeatures, TypedAlways, PTL DEF Spec
<1> QED
  BY <1>1, <1>2, TypedAlways, PTL

-----------------------------------------------------------------------------
(* What is answered is linked *)

\* Of the edges of a POST those that are not there are still to do, or a DELETE
\* took them.
LinkedBut(l) ==
  \A e \in Range(Links(l.guid, l)) :
    e \in edges \/ {e[1], e[2]} \cap unlinked # {} \/ e \in Range(l.todo)

LinkOK(pcT, l) ==
  /\ pcT \in {"seekEdge", "putEdge"} => LinkedBut(l)
  /\ pcT = "unlink" => \A e \in l.edges : l.target \in {e[1], e[2]}

LinkInv == \A t \in Threads : LinkOK(pc[t], local[t])

\* Only a DELETE takes edges away, and it says of which entity.
Covered ==
  /\ unlinked \subseteq unlinked'
  /\ \A e \in edges : e \in edges' \/ {e[1], e[2]} \cap unlinked' # {}

LEMMA LinkKept ==
  ASSUME Covered, NEW label, NEW l, LinkOK(label, l)
  PROVE LinkOK(label, l)'
<1>1. ASSUME LinkedBut(l) PROVE LinkedBut(l)'
  <2> SUFFICES ASSUME NEW e \in Range(Links(l.guid, l))
               PROVE e \in edges' \/ {e[1], e[2]} \cap unlinked' # {} \/ e \in Range(l.todo)
    BY DEF LinkedBut
  <2>1. e \in edges \/ {e[1], e[2]} \cap unlinked # {} \/ e \in Range(l.todo)
    BY <1>1 DEF LinkedBut
  <2> QED
    BY <2>1 DEF Covered
<1> QED
  BY <1>1 DEF LinkOK

LEMMA FinishLinks ==
  ASSUME Typed, LinkInv, Covered, NEW t \in Threads, NEW code, Finish(t, code)
  PROVE LinkInv'
<1> SUFFICES ASSUME NEW u \in Threads PROVE LinkOK(pc[u], local[u])'
  BY DEF LinkInv
<1>1. CASE u = t
  <2>1. pc'[u] = "idle"
    BY <1>1 DEF Finish, Typed, ThreadsTyped
  <2> QED
    BY <2>1 DEF LinkOK
<1>2. CASE u # t
  <2>1. pc'[u] = pc[u] /\ local'[u] = local[u] /\ LinkOK(pc[u], local[u])
    BY <1>2 DEF Finish, Typed, ThreadsTyped, LinkInv
  <2> QED
    BY <2>1, LinkKept
<1> QED
  BY <1>1, <1>2

LEMMA ContinueLinks ==
  ASSUME Typed, LinkInv, Covered, NEW t \in Threads, NEW label, NEW l, Continue(t, label, l),
         LinkOK(label, l)'
  PROVE LinkInv'
<1> SUFFICES ASSUME NEW u \in Threads PROVE LinkOK(pc[u], local[u])'
  BY DEF LinkInv
<1>1. CASE u = t
  <2>1. pc'[u] = label /\ local'[u] = l
    BY <1>1 DEF Continue, Typed, ThreadsTyped
  <2> QED
    BY <2>1 DEF LinkOK, LinkedBut, Links
<1>2. CASE u # t
  <2>1. pc'[u] = pc[u] /\ local'[u] = local[u] /\ LinkOK(pc[u], local[u])
    BY <1>2 DEF Continue, Typed, ThreadsTyped, LinkInv
  <2> QED
    BY <2>1, LinkKept
<1> QED
  BY <1>1, <1>2

\* The next edge is taken when this one is there.
LEMMA NextEdgeLinks ==
  ASSUME Typed, LinkInv, Covered, NEW t \in Threads, pc[t] \in {"seekEdge", "putEdge"},
         NextEdge(t), Head(local[t].todo) \in edges'
  PROVE LinkInv'
<1>1. PICK l : l = local[t]
  OBVIOUS
<1>2. l \in PostType /\ l.todo # <<>> /\ LinkOK(pc[t], l) /\ TablesTyped
  BY <1>1 DEF Typed, ThreadsTyped, LocalsOK, LinkInv, CreatePcs
<1>3. CASE Len(l.todo) = 1
  BY <1>1, <1>3, FinishLinks DEF NextEdge
<1>4. CASE Len(l.todo) # 1
  <2>1. PICK new : new = [l EXCEPT !.todo = Tail(@)]
    OBVIOUS
  <2>2. /\ new.guid = l.guid /\ new.owners = l.owners /\ new.inputs = l.inputs
        /\ new.todo = Tail(l.todo)
    BY <1>2, <2>1 DEF PostType
  <2>3. Links(new.guid, new) = Links(l.guid, l)
    BY <2>2, LinksSame
  <2>4. Range(l.todo) = {Head(l.todo)} \cup Range(new.todo)
    BY <1>2, <2>2, TodoTyped
  <2>5. LinkedBut(new)'
    <3> SUFFICES ASSUME NEW e \in Range(Links(l.guid, l))
                 PROVE e \in edges' \/ {e[1], e[2]} \cap unlinked' # {} \/ e \in Range(new.todo)
      BY <2>3 DEF LinkedBut
    <3>1. e \in edges \/ {e[1], e[2]} \cap unlinked # {} \/ e \in Range(l.todo)
      BY <1>2 DEF LinkOK, LinkedBut
    <3>2. e = Head(l.todo) => e \in edges'
      BY <1>1
    <3> QED
      BY <2>4, <3>1, <3>2 DEF Covered
  <2>6. LinkOK("seekEdge", new)'
    BY <2>5 DEF LinkOK
  <2>7. Continue(t, "seekEdge", new)
    BY <1>1, <1>4, <2>1 DEF NextEdge
  <2> QED
    BY <2>6, <2>7, ContinueLinks
<1> QED
  BY <1>3, <1>4

LEMMA StepLinks ==
  ASSUME Typed, LinkInv, NEW t \in Threads, Post(t) \/ Delete(t) \/ Step(t) \/ LookupFails(t) \/ Fail(t)
  PROVE LinkInv'
<1>1. Covered
  <2>1. CASE UNCHANGED <<edges, unlinked>>
    BY <2>1 DEF Covered
  <2>2. CASE PutEdge(t)
    BY <2>2 DEF PutEdge, Covered
  <2>3. CASE Unlink(t)
    <3>1. \A e \in local[t].edges : local[t].target \in {e[1], e[2]}
      BY <2>3 DEF Unlink, LinkInv, LinkOK
    <3>2. /\ edges \ local[t].edges \subseteq edges'
          /\ unlinked' = unlinked \cup {local[t].target}
      BY <2>3 DEF Unlink
    <3> QED
      BY <3>1, <3>2 DEF Covered
  <2> QED
    BY <2>1, <2>2, <2>3 DEF Post, Delete, Accept, Step, LookupFails, Fail, Seek, Put, Reread,
       SeekEdge, Search, Judge, Gather, DeleteEntity, purview
<1>2. ASSUME NEW code, Finish(t, code) PROVE LinkInv'
  BY <1>1, <1>2, FinishLinks
<1>3. ASSUME NEW label, NEW l, Continue(t, label, l), label \notin {"seekEdge", "putEdge", "unlink"}
      PROVE LinkInv'
  <2>1. LinkOK(label, l)'
    BY <1>3 DEF LinkOK
  <2> QED
    BY <1>1, <1>3, <2>1, ContinueLinks
<1>4. CASE Post(t)
  BY <1>2, <1>3, <1>4, PostShape DEF Typed, Refuse
<1>5. CASE Delete(t) \/ Fail(t) \/ Search(t) \/ Judge(t) \/ Unlink(t) \/ DeleteEntity(t)
  <2>1. \/ \E code : Finish(t, code)
        \/ \E label \in {"bfs", "judge", "gather", "remove"} : \E l : Continue(t, label, l)
    BY <1>5 DEF Delete, Refuse, Fail, Search, Judge, Unlink, DeleteEntity
  <2> QED
    BY <1>2, <1>3, <2>1
<1>6. CASE Seek(t) \/ Put(t)
  <2>1. \/ \E code : Finish(t, code)
        \/ \E label \in {"put", "reread"} : \E l : Continue(t, label, l)
    BY <1>6 DEF Seek, Put, LinkFound, Precondition
  <2> QED
    BY <1>2, <1>3, <2>1
<1>7. CASE Reread(t)
  <2>1. PICK l : l = local[t]
    OBVIOUS
  <2>2. l \in PostType
    BY <1>7, <2>1 DEF Reread, Typed, ThreadsTyped, LocalsOK, CreatePcs
  <2>3. PICK new : new = [l EXCEPT !.todo = Links(l.guid, l)]
    OBVIOUS
  <2>4. /\ new.guid = l.guid /\ new.owners = l.owners /\ new.inputs = l.inputs
        /\ new.todo = Links(l.guid, l)
    BY <2>2, <2>3 DEF PostType
  <2>5. Links(new.guid, new) = new.todo
    BY <2>4, LinksSame
  <2>6. LinkOK("seekEdge", new)'
    BY <2>5 DEF LinkOK, LinkedBut
  <2>7. Finish(t, 404) \/ Continue(t, "seekEdge", new)
    BY <1>7, <2>1, <2>3 DEF Reread
  <2> QED
    BY <1>1, <1>2, <2>6, <2>7, ContinueLinks
<1>8. CASE SeekEdge(t)
  <2>1. CASE Head(local[t].todo) \in edges /\ NextEdge(t)
    <3>1. Head(local[t].todo) \in edges' /\ pc[t] = "seekEdge"
      BY <1>8, <2>1 DEF SeekEdge, purview
    <3> QED
      BY <1>1, <2>1, <3>1, NextEdgeLinks
  <2>2. CASE Continue(t, "putEdge", local[t])
    <3>1. PICK l : l = local[t]
      OBVIOUS
    <3>2. LinkOK("putEdge", l)
      BY <1>8, <3>1 DEF SeekEdge, LinkInv, LinkOK
    <3>3. LinkOK("putEdge", l)'
      BY <1>1, <3>2, LinkKept
    <3> QED
      BY <1>1, <2>2, <3>1, <3>3, ContinueLinks
  <2> QED
    BY <1>8, <2>1, <2>2 DEF SeekEdge
<1>9. CASE PutEdge(t)
  <2>1. CASE edges' = edges \cup {Head(local[t].todo)} /\ NextEdge(t)
    <3>1. Head(local[t].todo) \in edges' /\ pc[t] = "putEdge"
      BY <1>9, <2>1 DEF PutEdge
    <3> QED
      BY <1>1, <2>1, <3>1, NextEdgeLinks
  <2> QED
    BY <1>2, <1>9, <2>1 DEF PutEdge
<1>10. CASE Gather(t)
  <2>1. PICK l : l = local[t]
    OBVIOUS
  <2>2. l \in DeleteType
    BY <1>10, <2>1 DEF Gather, Typed, ThreadsTyped, LocalsOK, DeletePcs
  <2>3. PICK new : new = [l EXCEPT !.edges = Incident(l.target)]
    OBVIOUS
  <2>4. new.target = l.target /\ new.edges = Incident(l.target)
    BY <2>2, <2>3 DEF DeleteType
  <2>5. LinkOK("unlink", new)'
    BY <2>4 DEF LinkOK, Incident
  <2>6. Finish(t, 404) \/ Continue(t, "unlink", new)
    BY <1>10, <2>1, <2>3 DEF Gather
  <2> QED
    BY <1>1, <1>2, <2>5, <2>6, ContinueLinks
<1>11. CASE LookupFails(t)
  <2>1. PICK l, label : l = local[t] /\ label = IF pc[t] = "seek" THEN "put" ELSE "putEdge"
    OBVIOUS
  <2>2. LinkOK(label, l)
    BY <1>11, <2>1 DEF LookupFails, LinkInv, LinkOK
  <2>3. LinkOK(label, l)'
    BY <1>1, <2>2, LinkKept
  <2>4. Continue(t, label, l)
    BY <1>11, <2>1 DEF LookupFails
  <2> QED
    BY <1>1, <2>3, <2>4, ContinueLinks
<1> QED
  BY <1>4, <1>5, <1>6, <1>7, <1>8, <1>9, <1>10, <1>11 DEF Step

LEMMA LinkInvAlways == Spec => []LinkInv
<1>1. Init => LinkInv
  BY DEF Init, LinkInv, LinkOK
<1>2. Typed /\ LinkInv /\ [Next]_vars => LinkInv'
  <2> SUFFICES ASSUME Typed, LinkInv, [Next]_vars PROVE LinkInv'
    OBVIOUS
  <2>1. CASE UNCHANGED vars
    BY <2>1 DEF vars, LinkInv, LinkOK, LinkedBut, Links
  <2> QED
    BY <2>1, StepLinks DEF Next
<1> QED
  BY <1>1, <1>2, TypedAlways, PTL DEF Spec

\* Only its own thread ends a handler.
LEMMA OwnThreadEnds ==
  ASSUME Typed, NEW t \in Threads, NEW u \in Threads, pc[t] # pc'[t],
         Post(u) \/ Delete(u) \/ Step(u) \/ LookupFails(u) \/ Fail(u)
  PROVE u = t
<1>1. (\E code : Finish(u, code)) \/ (\E label, l : Continue(u, label, l))
  <2>1. CASE Post(u)
    BY <2>1, PostShape DEF Typed, Refuse
  <2>2. CASE ~Post(u)
    BY <2>2 DEF Delete, Refuse, Step, LookupFails, Fail, Seek, Put, Precondition, LinkFound,
                Reread, SeekEdge, PutEdge, NextEdge, Search, Judge, Gather, Unlink, DeleteEntity
  <2> QED
    BY <2>1, <2>2
<1> QED
  BY <1>1 DEF Finish, Continue, Typed, ThreadsTyped

\* The answer of a POST comes after its last edge, or at once for a project.
LEMMA AnswerIsLast ==
  ASSUME Typed, FeatureInv, NEW t \in Threads, Post(t) \/ Delete(t) \/ Step(t) \/ LookupFails(t) \/ Fail(t),
         pc[t] \in CreatePcs, pc'[t] = "idle", reply' = 200
  PROVE \/ local[t].type = "Project"
        \/ /\ pc[t] \in {"seekEdge", "putEdge"} /\ local[t].guid # 0
           /\ Range(local[t].todo) = {Head(local[t].todo)} /\ Head(local[t].todo) \in edges'
<1>1. Step(t)
  <2>1. ~LookupFails(t)
    BY DEF LookupFails, Continue, Typed, ThreadsTyped
  <2> QED
    BY <2>1 DEF Post, Delete, Accept, Fail, Finish, CreatePcs
<1>2. Seek(t) \/ Put(t) \/ Reread(t) \/ SeekEdge(t) \/ PutEdge(t)
  BY <1>1 DEF Step, Search, Judge, Gather, Unlink, DeleteEntity, CreatePcs
<1>3. \A label, l : Continue(t, label, l) => label = "idle"
  BY DEF Continue, Typed, ThreadsTyped
<1>4. \A code : Finish(t, code) => code = 200
  BY DEF Finish
<1>5. CASE Seek(t) \/ Put(t) \/ Reread(t)
  <2>1. ~Finish(t, 404) /\ ~Finish(t, 409) /\ ~Finish(t, 412)
    BY <1>4
  <2>2. \A label, l : label # "idle" => ~Continue(t, label, l)
    BY <1>3
  <2>3. ASSUME NEW id, LinkFound(t, id) PROVE local[t].type = "Project"
    BY <2>2, <2>3 DEF LinkFound
  <2>4. \E id : LinkFound(t, id)
    BY <1>5, <2>1, <2>2 DEF Seek, Put, Reread, Precondition
  <2> QED
    BY <2>3, <2>4
<1>6. CASE SeekEdge(t) \/ PutEdge(t)
  <2>1. /\ pc[t] \in {"seekEdge", "putEdge"} /\ local[t] \in PostType /\ local[t].guid # 0
        /\ local[t].todo # <<>>
    BY <1>6 DEF SeekEdge, PutEdge, Typed, ThreadsTyped, LocalsOK, CreatePcs
  <2>2. NextEdge(t) /\ Head(local[t].todo) \in edges'
    BY <1>3, <1>4, <1>6 DEF SeekEdge, PutEdge, purview
  <2>3. Len(local[t].todo) = 1
    BY <1>3, <2>2 DEF NextEdge
  <2>4. Range(local[t].todo) = {Head(local[t].todo)}
    BY <2>1, <2>3, TodoTyped DEF Typed
  <2> QED
    BY <2>1, <2>2, <2>4
<1> QED
  BY <1>2, <1>5, <1>6

\* A POST that is answered has linked its entity, also when it found one that a
\* server left half linked when it stopped; only a DELETE takes edges away.
THEOREM PurviewAnsweredIsLinked == Spec => AnsweredIsLinked
<1> DEFINE Linked(t) ==
      pc[t] \in CreatePcs /\ pc'[t] = "idle" /\ reply' = 200 =>
        \A id \in IF local[t].guid = 0 THEN Found(t) ELSE {local[t].guid} :
          \A edge \in Range(Links(id, local[t])) :
            edge \in edges' \/ {edge[1], edge[2]} \cap unlinked # {}
<1>1. ASSUME Typed, FeatureInv, LinkInv, [Next]_vars, vars' # vars, NEW t \in Threads
      PROVE  Linked(t)
  <2> SUFFICES ASSUME pc[t] \in CreatePcs, pc'[t] = "idle", reply' = 200,
                      NEW id \in IF local[t].guid = 0 THEN Found(t) ELSE {local[t].guid},
                      NEW edge \in Range(Links(id, local[t]))
               PROVE edge \in edges' \/ {edge[1], edge[2]} \cap unlinked # {}
    OBVIOUS
  <2>1. PICK u \in Threads : Post(u) \/ Delete(u) \/ Step(u) \/ LookupFails(u) \/ Fail(u)
    BY <1>1 DEF Next
  <2>2. pc[t] # pc'[t]
    BY DEF CreatePcs
  <2>3. u = t
    BY <1>1, <2>1, <2>2, OwnThreadEnds
  <2>4. \/ local[t].type = "Project"
        \/ /\ pc[t] \in {"seekEdge", "putEdge"} /\ local[t].guid # 0
           /\ Range(local[t].todo) = {Head(local[t].todo)} /\ Head(local[t].todo) \in edges'
    BY <1>1, <2>1, <2>3, AnswerIsLast
  <2>5. CASE local[t].type = "Project"
    <3>1. local[t].owners = <<>> /\ local[t].inputs = <<>>
      BY <1>1, <2>5 DEF FeatureInv, PostOK
    <3> QED
      BY <3>1, NoLinks
  <2>6. CASE /\ pc[t] \in {"seekEdge", "putEdge"} /\ local[t].guid # 0
             /\ Range(local[t].todo) = {Head(local[t].todo)} /\ Head(local[t].todo) \in edges'
    <3>1. edge \in Range(Links(local[t].guid, local[t]))
      BY <2>6
    <3>2. edge \in edges \/ {edge[1], edge[2]} \cap unlinked # {} \/ edge \in Range(local[t].todo)
      BY <1>1, <2>6, <3>1 DEF LinkInv, LinkOK, LinkedBut
    <3>3. edges \subseteq edges'
      BY <1>1, <2>1, <2>3, <2>6 DEF Post, Delete, Accept, Step, LookupFails, Fail, purview,
         Seek, Put, Reread, SeekEdge, PutEdge, Search, Judge, Gather, Unlink, DeleteEntity
    <3> QED
      BY <2>6, <3>2, <3>3
  <2> QED
    BY <2>4, <2>5, <2>6
<1>2. Typed /\ FeatureInv /\ LinkInv /\ [Next]_vars => [\A t \in Threads : Linked(t)]_vars
  BY <1>1
<1>3. Spec => []FeatureInv
  BY InitFeatures, NextFeatures, TypedAlways, PTL DEF Spec
<1> QED
  BY <1>2, <1>3, LinkInvAlways, TypedAlways, PTL DEF Spec, AnsweredIsLinked

-----------------------------------------------------------------------------
(* Nothing dangles while it is quiet *)

\* What is referred to, and so searched by the edges that lead to what is made of it.
MayBeMade(id) == id \in Rows => entities[id].type \notin {"Project", "Anchor"}
RefKinds == \A id \in Rows : \A r \in entities[id].refs : MayBeMade(r)

\* A POST of an entity with references has one owner, and an edge for each of them
\* in an order that depends on nothing else; it is as far as its todo says.
PostRefs(l) ==
  /\ \A r \in l.refs : MayBeMade(r)
  /\ IF l.type \in {"Anchor", "DerivedFeature"}
     THEN Len(l.owners) = 1 /\ l.inputs = SetToSeq(l.refs)
     ELSE l.refs = {}
  /\ l.guid \in Rows => entities[l.guid].refs = l.refs
  /\ l.todo # <<>> => \E k \in 0..Len(Links(l.guid, l)) :
       /\ Len(l.todo) = Len(Links(l.guid, l)) - k
       /\ \A j \in 1..Len(l.todo) : l.todo[j] = Links(l.guid, l)[j + k]

\* A DELETE that has found nothing so far has its target still to expand.
DeleteRefs(pcT, l) ==
  /\ l.target \in Rows => l.rel = Downstream(entities[l.target].type)
  /\ pcT = "bfs" /\ l.seen = {l.target} => l.frontier = {l.target}
  /\ l.target \in l.seen

RefInv ==
  /\ RefKinds
  /\ \A t \in Threads :
       /\ pc[t] \in CreatePcs => PostRefs(local[t])
       /\ pc[t] \in DeletePcs => DeleteRefs(pc[t], local[t])

\* As long as it is quiet, POSTs and DELETEs do not overlap.
Apart == \A t, u \in Threads : ~(pc[t] \in CreatePcs /\ pc[u] \in DeletePcs)

\* So what a POST links stays, and so does what a DELETE has seen.
QuietPost(l) ==
  /\ Range(l.owners) \cup Range(l.inputs) \cup l.refs \subseteq Rows
  /\ l.guid # 0 => l.guid \in Rows

QuietDelete(pcT, l) ==
  /\ (pcT = "judge" /\ l.seen = {l.target}) \/ pcT \in {"gather", "unlink", "remove"}
       => Neighbors({l.target}, l.rel) = {}
  /\ pcT = "unlink" => Incident(l.target) \subseteq l.edges
  /\ pcT = "remove" => Incident(l.target) = {}

\* The thread still has the edge to put, and will not be refused before.
Puts(t, id, edge) ==
  /\ pc[t] \in {"reread", "seekEdge", "putEdge"} /\ local[t].guid = id
  /\ pc[t] # "reread" => edge \in Range(local[t].todo)
  /\ pc[t] = "putEdge" => Head(local[t].todo) \notin edges

\* Everything that an entity refers to is there and leads to it, or will.
Leads(r, id) ==
  /\ r \in Rows
  /\ <<r, id, "Produces">> \in edges \/ \E t \in Threads : Puts(t, id, <<r, id, "Produces">>)

QuietInv ==
  quiet =>
    /\ Apart
    /\ \A e \in edges : {e[1], e[2]} \subseteq Rows
    /\ \A t \in Threads :
         /\ pc[t] \in CreatePcs => QuietPost(local[t])
         /\ pc[t] \in DeletePcs => QuietDelete(pc[t], local[t])
    /\ \A id \in Rows \ unlinked : \A r \in entities[id].refs : Leads(r, id)

LEMMA PostRefsKept ==
  ASSUME Ageing, NEW l \in PostType, PostRefs(l)
  PROVE PostRefs(l)'
<1>1. l.guid \in Issued /\ l.refs \subseteq Issued
  BY DEF PostType
<1>2. \A r \in l.refs : MayBeMade(r)'
  BY <1>1 DEF Ageing, MayBeMade, PostRefs
<1>3. l.guid \in Rows' => entities'[l.guid].refs = l.refs
  BY <1>1 DEF Ageing, PostRefs
<1> QED
  BY <1>2, <1>3 DEF PostRefs, Links

LEMMA DeleteRefsKept ==
  ASSUME Ageing, NEW label, NEW l \in DeleteType, DeleteRefs(label, l)
  PROVE DeleteRefs(label, l)'
<1>1. l.target \in Issued
  BY DEF DeleteType
<1>2. l.target \in Rows' => l.target \in Rows /\ entities'[l.target] = entities[l.target]
  BY <1>1 DEF Ageing
<1> QED
  BY <1>2 DEF DeleteRefs

\* What a handler knows stays true whatever the others do.
ThreadRefs(pcT, l) ==
  /\ pcT \in CreatePcs => PostRefs(l)
  /\ pcT \in DeletePcs => DeleteRefs(pcT, l)

LEMMA ThreadRefsKept ==
  ASSUME Ageing, NEW label, NEW l, LocalsOK(label, l), ThreadRefs(label, l)
  PROVE ThreadRefs(label, l)'
BY PostRefsKept, DeleteRefsKept DEF ThreadRefs, LocalsOK

LEMMA FinishRefs ==
  ASSUME Typed, RefInv, Ageing, RefKinds', NEW t \in Threads, NEW code, Finish(t, code)
  PROVE RefInv'
<1>1. ASSUME NEW u \in Threads PROVE ThreadRefs(pc[u], local[u])'
  <2>1. CASE u = t
    <3>1. pc'[u] = "idle"
      BY <2>1 DEF Finish, Typed, ThreadsTyped
    <3> QED
      BY <3>1 DEF ThreadRefs, CreatePcs, DeletePcs
  <2>2. CASE u # t
    <3>1. pc'[u] = pc[u] /\ local'[u] = local[u]
      BY <2>2 DEF Finish, Typed, ThreadsTyped
    <3>2. ThreadRefs(pc[u], local[u]) /\ LocalsOK(pc[u], local[u])
      BY DEF RefInv, ThreadRefs, Typed, ThreadsTyped
    <3>3. PICK label, l : label = pc[u] /\ l = local[u]
      OBVIOUS
    <3> QED
      BY <3>1, <3>2, <3>3, ThreadRefsKept
  <2> QED
    BY <2>1, <2>2
<1> QED
  BY <1>1 DEF RefInv, ThreadRefs

LEMMA ContinueRefs ==
  ASSUME Typed, RefInv, Ageing, RefKinds', NEW t \in Threads, NEW label, NEW l,
         Continue(t, label, l), ThreadRefs(label, l)'
  PROVE RefInv'
<1>1. ASSUME NEW u \in Threads PROVE ThreadRefs(pc[u], local[u])'
  <2>1. CASE u = t
    <3>1. pc'[u] = label /\ local'[u] = l
      BY <2>1 DEF Continue, Typed, ThreadsTyped
    <3> QED
      BY <3>1
  <2>2. CASE u # t
    <3>1. pc'[u] = pc[u] /\ local'[u] = local[u]
      BY <2>2 DEF Continue, Typed, ThreadsTyped
    <3>2. ThreadRefs(pc[u], local[u]) /\ LocalsOK(pc[u], local[u])
      BY DEF RefInv, ThreadRefs, Typed, ThreadsTyped
    <3>3. PICK pcU, m : pcU = pc[u] /\ m = local[u]
      OBVIOUS
    <3> QED
      BY <3>1, <3>2, <3>3, ThreadRefsKept
  <2> QED
    BY <2>1, <2>2
<1> QED
  BY <1>1 DEF RefInv, ThreadRefs

LEMMA AskedIsRefs ==
  ASSUME NEW l, AskedFor(l)
  PROVE AskedRefs(l.type, l.refs, l.owners, l.inputs) /\ l.guid = 0 /\ l.todo = <<>>
BY DEF AskedFor, Asked

\* A step that puts no entity makes nothing of another kind.
LEMMA LessIsKind ==
  ASSUME Typed, RefInv, Ageing, Rows' \subseteq Rows
  PROVE RefKinds'
<1>1. \A id \in Rows' : id \in Rows /\ entities'[id] = entities[id]
  BY DEF Ageing, Typed, TablesTyped
<1> QED
  BY <1>1 DEF RefInv, RefKinds, MayBeMade

\* The todo of a POST loses its first edge.
LEMMA TailRefs ==
  ASSUME Typed, NEW l \in PostType, PostRefs(l), l.todo # <<>>, Len(l.todo) # 1,
         NEW new, new = [l EXCEPT !.todo = Tail(@)]
  PROVE new \in PostType /\ PostRefs(new)
<1> DEFINE todo == l.todo
           n == Len(Links(l.guid, l))
<1>1. todo \in Seq(Triples) /\ Len(todo) \in Nat /\ Len(todo) > 1
  <2>1. todo \in Seq(Triples) /\ todo # <<>> /\ Len(todo) # 1
    BY DEF PostType
  <2>2. ASSUME NEW s \in Seq(Triples), s # <<>>, Len(s) # 1 PROVE Len(s) \in Nat /\ Len(s) > 1
    <3>1. Len(s) \in Nat /\ Len(s) # 0
      BY <2>2
    <3>2. \A m \in Nat : m # 0 /\ m # 1 => m > 1
      OBVIOUS
    <3> QED
      BY <2>2, <3>1, <3>2
  <2> HIDE DEF todo
  <2> QED
    BY <2>1, <2>2
<1>2. PICK k \in 0..n : /\ Len(todo) = n - k
                        /\ \A j \in 1..Len(todo) : todo[j] = Links(l.guid, l)[j + k]
  BY DEF PostRefs
<1>3. n \in Nat
  <2>1. DOMAIN Links(l.guid, l) = 1..2 * (Len(l.owners) + Len(l.inputs))
    BY DEF Links
  <2>2. 2 * (Len(l.owners) + Len(l.inputs)) \in Nat
    BY DEF PostType
  <2>3. Len(Links(l.guid, l)) = 2 * (Len(l.owners) + Len(l.inputs))
    BY <2>1, <2>2 DEF Links
  <2> QED
    BY <2>2, <2>3
<1>4. /\ Tail(todo) \in Seq(Triples) /\ Len(Tail(todo)) = Len(todo) - 1
      /\ \A j \in 1..(Len(todo) - 1) : Tail(todo)[j] = todo[j + 1]
  <2> HIDE DEF todo
  <2> QED
    BY <1>1
<1>5. new \in PostType
  BY <1>4 DEF PostType
<1>6. /\ new.type = l.type /\ new.refs = l.refs /\ new.owners = l.owners
      /\ new.inputs = l.inputs /\ new.guid = l.guid /\ new.todo = Tail(todo)
  BY DEF PostType
<1>7. Links(new.guid, new) = Links(l.guid, l)
  <2>1. Links(l.guid, new) = Links(l.guid, l)
    BY <1>6, LinksSame
  <2> QED
    BY <1>6, <2>1
<1>8. \E i \in 0..n : /\ Len(new.todo) = n - i
                      /\ \A j \in 1..Len(new.todo) : new.todo[j] = Links(l.guid, l)[j + i]
  <2> HIDE DEF n, todo
  <2>1. k + 1 \in 0..n /\ Len(new.todo) = n - (k + 1)
    BY <1>1, <1>2, <1>3, <1>4, <1>6
  <2>2. ASSUME NEW j \in 1..Len(new.todo) PROVE new.todo[j] = Links(l.guid, l)[j + (k + 1)]
    <3>1. j \in 1..(Len(todo) - 1)
      BY <1>4, <1>6
    <3>2. new.todo[j] = todo[j + 1]
      BY <1>4, <1>6, <3>1
    <3>3. j + 1 \in 1..Len(todo) /\ (j + 1) + k = j + (k + 1)
      BY <1>1, <1>3, <3>1
    <3>4. todo[j + 1] = Links(l.guid, l)[(j + 1) + k]
      BY <1>2, <3>3
    <3> QED
      BY <3>2, <3>3, <3>4
  <2> QED
    BY <2>1, <2>2
<1>9. PostRefs(new)
  <2> HIDE DEF n, todo
  <2> USE DEF n
  <2> QED
    BY <1>6, <1>7, <1>8 DEF PostRefs
<1> QED
  BY <1>5, <1>9

LEMMA NextEdgeRefs ==
  ASSUME Typed, RefInv, Ageing, RefKinds', NEW t \in Threads, pc[t] \in {"seekEdge", "putEdge"},
         NextEdge(t)
  PROVE RefInv'
<1>1. PICK l : l = local[t]
  OBVIOUS
<1>2. l \in PostType /\ l.todo # <<>> /\ PostRefs(l)
  BY <1>1 DEF Typed, ThreadsTyped, LocalsOK, RefInv, CreatePcs
<1>3. CASE Len(l.todo) = 1
  BY <1>1, <1>3, FinishRefs DEF NextEdge
<1>4. CASE Len(l.todo) # 1
  <2>1. PICK new : new = [l EXCEPT !.todo = Tail(@)]
    OBVIOUS
  <2>2. new \in PostType /\ PostRefs(new)
    BY <1>2, <1>4, <2>1, TailRefs
  <2>3. ThreadRefs("seekEdge", new)'
    BY <2>2, PostRefsKept DEF ThreadRefs, DeletePcs
  <2>4. Continue(t, "seekEdge", new)
    BY <1>1, <1>4, <2>1 DEF NextEdge
  <2> QED
    BY <2>3, <2>4, ContinueRefs
<1> QED
  BY <1>3, <1>4

\* The steps of a POST but for the upload of an entity.
LEMMA PostStepRefs ==
  ASSUME Typed, FeatureInv, RefInv, NEW t \in Threads,
         Seek(t) \/ Reread(t) \/ SeekEdge(t) \/ PutEdge(t) \/ LookupFails(t)
  PROVE RefInv'
<1>1. entities' = entities /\ Rows' = Rows
  BY DEF Seek, Reread, SeekEdge, PutEdge, LookupFails, purview, Rows
<1>2. Ageing
  BY <1>1 DEF Ageing
<1>3. RefKinds'
  BY <1>1, <1>2, LessIsKind
<1>4. PICK l : l = local[t]
  OBVIOUS
<1>5. pc[t] \in CreatePcs /\ l \in PostType /\ PostRefs(l) /\ PostOK(l)
  BY <1>4 DEF Seek, Reread, SeekEdge, PutEdge, LookupFails, Typed, ThreadsTyped, LocalsOK, RefInv,
     FeatureInv, CreatePcs
<1>6. ASSUME NEW code, Finish(t, code) PROVE RefInv'
  BY <1>2, <1>3, <1>6, FinishRefs
<1>7. ASSUME NEW label \in CreatePcs, NEW new \in PostType, Continue(t, label, new), PostRefs(new)
      PROVE RefInv'
  <2>1. label \notin DeletePcs
    BY <1>7 DEF CreatePcs, DeletePcs
  <2>2. ThreadRefs(label, new)'
    BY <1>2, <1>7, <2>1, PostRefsKept DEF ThreadRefs
  <2> QED
    BY <1>2, <1>3, <1>7, <2>2, ContinueRefs
<1>8. CASE Seek(t)
  <2>1. l.guid = 0 /\ l.todo = <<>>
    BY <1>4, <1>5, <1>8 DEF Seek, Typed, ThreadsTyped, LocalsOK, PostOK
  <2>2. ASSUME NEW id \in Found(t), SameAttributes(id, local[t]), LinkFound(t, id)
        PROVE RefInv'
    <3>1. PICK new : new = [l EXCEPT !.guid = id]
      OBVIOUS
    <3>2. id \in Rows /\ entities[id].refs = l.refs
      BY <1>4, <2>2 DEF Found, OfType, SameAttributes
    <3>3. new \in PostType
      BY <1>5, <3>1, <3>2 DEF PostType, Typed, TablesTyped
    <3>4. /\ new.type = l.type /\ new.refs = l.refs /\ new.owners = l.owners
          /\ new.inputs = l.inputs /\ new.guid = id /\ new.todo = <<>>
      BY <1>5, <2>1, <3>1 DEF PostType
    <3>5. PostRefs(new)
      BY <1>5, <3>2, <3>4 DEF PostRefs
    <3>6. Finish(t, 200) \/ Continue(t, "reread", new)
      BY <1>4, <2>2, <3>1 DEF LinkFound
    <3> QED
      BY <1>6, <1>7, <3>3, <3>5, <3>6 DEF CreatePcs
  <2>3. CASE Continue(t, "put", local[t])
    BY <1>4, <1>5, <1>7, <2>3 DEF CreatePcs
  <2> QED
    BY <1>6, <1>8, <2>2, <2>3 DEF Seek
<1>9. CASE Reread(t)
  <2>1. l.owners # <<>> /\ l.guid \in Issued
    BY <1>4, <1>5, <1>9 DEF Reread, Typed, ThreadsTyped, LocalsOK, PostType
  <2>2. PICK links : links = Links(l.guid, l)
    OBVIOUS
  <2>3. PICK new : new = [l EXCEPT !.todo = links]
    OBVIOUS
  <2>4. links \in Seq(Triples)
    BY <1>5, <2>1, <2>2, LinksTyped
  <2>5. new \in PostType
    BY <1>5, <2>3, <2>4 DEF PostType
  <2>6. /\ new.type = l.type /\ new.refs = l.refs /\ new.owners = l.owners
        /\ new.inputs = l.inputs /\ new.guid = l.guid /\ new.todo = links
    BY <1>5, <2>3 DEF PostType
  <2>7. Links(new.guid, new) = links
    <3>1. Links(l.guid, new) = Links(l.guid, l)
      BY <2>6, LinksSame
    <3> QED
      BY <2>2, <2>6, <3>1
  <2>8. PostRefs(new)
    <3>1. /\ Len(links) = Len(links) - 0 /\ 0 \in 0..Len(links)
          /\ \A j \in 1..Len(links) : links[j] = links[j + 0]
      BY <2>4
    <3> QED
      BY <1>5, <2>6, <2>7, <3>1 DEF PostRefs
  <2>9. Finish(t, 404) \/ Continue(t, "seekEdge", new)
    BY <1>4, <1>9, <2>2, <2>3 DEF Reread
  <2> QED
    BY <1>6, <1>7, <2>5, <2>8, <2>9 DEF CreatePcs
<1>10. CASE NextEdge(t) /\ (SeekEdge(t) \/ PutEdge(t))
  BY <1>2, <1>3, <1>10, NextEdgeRefs DEF SeekEdge, PutEdge
<1>11. CASE Continue(t, "putEdge", local[t]) \/ \E code : Finish(t, code)
  BY <1>4, <1>5, <1>6, <1>7, <1>11 DEF CreatePcs
<1>12. CASE LookupFails(t)
  <2>1. PICK label \in {"put", "putEdge"} : Continue(t, label, l)
    BY <1>4, <1>12 DEF LookupFails
  <2> QED
    BY <1>5, <1>7, <2>1 DEF CreatePcs
<1> QED
  BY <1>8, <1>9, <1>10, <1>11, <1>12 DEF SeekEdge, PutEdge

LEMMA PutRefs ==
  ASSUME Typed, FeatureInv, RefInv, NEW t \in Threads, Put(t)
  PROVE RefInv'
<1>1. PICK l : l = local[t]
  OBVIOUS
<1>2. /\ pc[t] = "put" /\ l \in PostType /\ PostRefs(l) /\ l.guid = 0 /\ l.todo = <<>>
      /\ TablesTyped
  BY <1>1 DEF Put, Typed, ThreadsTyped, LocalsOK, RefInv, FeatureInv, PostOK, CreatePcs
<1>3. CASE \E id \in Found(t) : Precondition(t, id)
  <2>1. entities' = entities /\ Rows' = Rows /\ Finish(t, 412)
    BY <1>3 DEF Precondition, Rows
  <2>2. Ageing
    BY <2>1 DEF Ageing
  <2>3. RefKinds'
    BY <2>1, <2>2, LessIsKind
  <2> QED
    BY <2>1, <2>2, <2>3, FinishRefs
<1>4. CASE /\ entities' = [id \in Rows \cup {nextId} |->
                IF id = nextId THEN [type |-> l.type, qn |-> l.qn, def |-> l.def, refs |-> l.refs]
                ELSE entities[id]]
           /\ nextId' = nextId + 1
           /\ LinkFound(t, nextId)
  <2>1. nextId \in Nat /\ nextId # 0 /\ nextId \notin Issued /\ Rows \subseteq Issued
    BY <1>2 DEF TablesTyped, Issued
  <2>2. /\ Rows' = Rows \cup {nextId}
        /\ \A id \in Rows : entities'[id] = entities[id]
        /\ entities'[nextId] = [type |-> l.type, qn |-> l.qn, def |-> l.def, refs |-> l.refs]
    BY <1>4, <2>1 DEF Rows
  <2>3. Ageing
    BY <2>1, <2>2 DEF Ageing
  <2>4. PostRefs(l)' /\ l.refs \subseteq Issued
    BY <1>2, <2>3, PostRefsKept DEF PostType
  <2>5. RefKinds'
    <3> SUFFICES ASSUME NEW id \in Rows', NEW r \in entities'[id].refs PROVE MayBeMade(r)'
      BY DEF RefKinds
    <3>1. CASE id = nextId
      BY <2>2, <2>4, <3>1 DEF PostRefs
    <3>2. CASE id # nextId
      <4>1. id \in Rows /\ r \in entities[id].refs /\ MayBeMade(r) /\ r \in Issued
        BY <1>2, <2>2, <3>2 DEF RefInv, RefKinds, TablesTyped
      <4> QED
        BY <2>3, <4>1 DEF Ageing, MayBeMade
    <3> QED
      BY <3>1, <3>2
  <2>6. PICK new : new = [l EXCEPT !.guid = nextId]
    OBVIOUS
  <2>7. PostRefs(new)'
    <3>1. /\ new.type = l.type /\ new.refs = l.refs /\ new.owners = l.owners
          /\ new.inputs = l.inputs /\ new.guid = nextId /\ new.todo = <<>>
      BY <1>2, <2>6 DEF PostType
    <3>2. entities'[new.guid].refs = new.refs
      BY <2>2, <3>1
    <3> QED
      BY <2>4, <3>1, <3>2 DEF PostRefs
  <2>8. ThreadRefs("reread", new)'
    BY <2>7 DEF ThreadRefs, DeletePcs
  <2>9. Finish(t, 200) \/ Continue(t, "reread", new)
    BY <1>1, <1>4, <2>6 DEF LinkFound
  <2> QED
    BY <2>3, <2>5, <2>8, <2>9, FinishRefs, ContinueRefs
<1> QED
  BY <1>1, <1>3, <1>4 DEF Put

LEMMA OtherRefs ==
  ASSUME Typed, RefInv, NEW t \in Threads,
         \/ Post(t) \/ Delete(t) \/ Fail(t)
         \/ Search(t) \/ Judge(t) \/ Gather(t) \/ Unlink(t) \/ DeleteEntity(t)
  PROVE RefInv'
<1>1. Rows' \subseteq Rows /\ \A id \in Rows' : entities'[id] = entities[id]
  BY DEF Post, Delete, Accept, Fail, Search, Judge, Gather, Unlink, DeleteEntity, purview, Rows
<1>2. Ageing
  BY <1>1 DEF Ageing
<1>3. RefKinds'
  BY <1>1, <1>2, LessIsKind
<1>4. ASSUME NEW code, Finish(t, code) PROVE RefInv'
  BY <1>2, <1>3, <1>4, FinishRefs
<1>5. CASE Post(t)
  <2>1. CASE Refuse(t)
    BY <1>4, <2>1 DEF Refuse
  <2>2. CASE \E l : Continue(t, "seek", l) /\ LocalsOK("seek", l) /\ AskedFor(l)
    <3>1. PICK l : Continue(t, "seek", l) /\ LocalsOK("seek", l) /\ AskedFor(l)
      BY <2>2
    <3>2. l \in PostType
      BY <3>1 DEF LocalsOK, CreatePcs
    <3>3. PostRefs(l)
      <4>1. AskedRefs(l.type, l.refs, l.owners, l.inputs) /\ l.guid = 0 /\ l.todo = <<>>
        BY <3>1, AskedIsRefs
      <4>2. 0 \notin Rows
        BY DEF Typed, TablesTyped
      <4> QED
        BY <4>1, <4>2 DEF PostRefs, AskedRefs, MayBeMade
    <3>4. ThreadRefs("seek", l)'
      BY <1>2, <3>2, <3>3, PostRefsKept DEF ThreadRefs, DeletePcs
    <3> QED
      BY <1>2, <1>3, <3>1, <3>4, ContinueRefs
  <2> QED
    BY <1>5, <2>1, <2>2, PostShape DEF Typed
<1>6. CASE Delete(t)
  <2>1. PICK target \in Issued :
          \/ /\ target \in Rows
             /\ Continue(t, "bfs",
                  [target |-> target, rel |-> Downstream(entities[target].type),
                   frontier |-> {target}, seen |-> {target}, edges |-> {}])
          \/ Refuse(t)
    BY <1>6 DEF Delete
  <2>2. CASE Refuse(t)
    BY <1>4, <2>2 DEF Refuse
  <2>3. CASE /\ target \in Rows
             /\ Continue(t, "bfs",
                  [target |-> target, rel |-> Downstream(entities[target].type),
                   frontier |-> {target}, seen |-> {target}, edges |-> {}])
    <3>1. PICK l : l = [target |-> target, rel |-> Downstream(entities[target].type),
                        frontier |-> {target}, seen |-> {target}, edges |-> {}]
      OBVIOUS
    <3>2. DeleteRefs("bfs", l)
      BY <3>1 DEF DeleteRefs
    <3>3. l \in DeleteType
      <4>1. Downstream(entities[target].type) \in Relations
        BY DEF Downstream, Relations
      <4> QED
        BY <3>1, <4>1 DEF DeleteType
    <3>4. ThreadRefs("bfs", l)'
      BY <1>2, <3>2, <3>3, DeleteRefsKept DEF ThreadRefs, CreatePcs
    <3> QED
      BY <1>2, <1>3, <2>3, <3>1, <3>4, ContinueRefs
  <2> QED
    BY <2>1, <2>2, <2>3
<1>7. CASE Fail(t)
  BY <1>4, <1>7 DEF Fail
<1>8. CASE Search(t) \/ Judge(t) \/ Gather(t) \/ Unlink(t) \/ DeleteEntity(t)
  <2>1. PICK l : l = local[t]
    OBVIOUS
  <2>2. l \in DeleteType /\ DeleteRefs(pc[t], l)
    BY <1>8, <2>1 DEF Search, Judge, Gather, Unlink, DeleteEntity, Typed, ThreadsTyped, LocalsOK,
       RefInv, DeletePcs
  <2>3. ASSUME NEW label \in DeletePcs, NEW new \in DeleteType, Continue(t, label, new),
               DeleteRefs(label, new)
        PROVE RefInv'
    <3>1. label \notin CreatePcs
      BY <2>3 DEF CreatePcs, DeletePcs
    <3>2. ThreadRefs(label, new)'
      BY <1>2, <2>3, <3>1, DeleteRefsKept DEF ThreadRefs
    <3> QED
      BY <1>2, <1>3, <2>3, <3>2, ContinueRefs
  <2>4. CASE Search(t)
    <3>1. PICK next : next = Neighbors(l.frontier, l.rel)
      OBVIOUS
    <3>2. PICK new : new = [l EXCEPT !.frontier = next, !.seen = @ \cup next]
      OBVIOUS
    <3>3. PICK label \in {"bfs", "judge"} : label = IF next = {} THEN "judge" ELSE "bfs"
      OBVIOUS
    <3>4. /\ new.target = l.target /\ new.rel = l.rel /\ new.frontier = next
          /\ new.seen = l.seen \cup next
      BY <2>2, <3>2 DEF DeleteType
    <3>5. new \in DeleteType
      <4>1. next \subseteq Issued
        BY <3>1, NeighborsAreRows DEF Typed, TablesTyped
      <4> QED
        BY <2>2, <3>2, <4>1 DEF DeleteType
    <3>6. DeleteRefs(label, new)
      BY <2>2, <3>3, <3>4 DEF DeleteRefs
    <3>7. Finish(t, 404) \/ Continue(t, label, new)
      BY <2>1, <2>4, <3>1, <3>2, <3>3 DEF Search
    <3> QED
      BY <1>4, <2>3, <3>3, <3>5, <3>6, <3>7 DEF DeletePcs
  <2>5. CASE Judge(t)
    <3>1. DeleteRefs("gather", l)
      BY <2>2 DEF DeleteRefs
    <3>2. Finish(t, 404) \/ Finish(t, 412) \/ Continue(t, "gather", l)
      BY <2>1, <2>5 DEF Judge
    <3> QED
      BY <1>4, <2>2, <2>3, <3>1, <3>2 DEF DeletePcs
  <2>6. CASE Gather(t)
    <3>1. PICK found : found = Incident(l.target)
      OBVIOUS
    <3>2. PICK new : new = [l EXCEPT !.edges = found]
      OBVIOUS
    <3>3. new.target = l.target /\ new.rel = l.rel /\ new.seen = l.seen
      BY <2>2, <3>2 DEF DeleteType
    <3>4. new \in DeleteType
      <4>1. found \subseteq Triples
        BY <3>1 DEF Incident, Typed, TablesTyped
      <4> QED
        BY <2>2, <3>2, <4>1 DEF DeleteType
    <3>5. DeleteRefs("unlink", new)
      BY <2>2, <3>3 DEF DeleteRefs
    <3>6. Finish(t, 404) \/ Continue(t, "unlink", new)
      BY <2>1, <2>6, <3>1, <3>2 DEF Gather
    <3> QED
      BY <1>4, <2>3, <3>4, <3>5, <3>6 DEF DeletePcs
  <2>7. CASE Unlink(t)
    <3>1. DeleteRefs("remove", l)
      BY <2>2 DEF DeleteRefs
    <3> QED
      BY <2>1, <2>2, <2>3, <2>7, <3>1 DEF Unlink, DeletePcs
  <2>8. CASE DeleteEntity(t)
    BY <1>4, <2>8 DEF DeleteEntity
  <2> QED
    BY <1>8, <2>4, <2>5, <2>6, <2>7, <2>8
<1> QED
  BY <1>5, <1>6, <1>7, <1>8

LEMMA NextRefs == Typed /\ FeatureInv /\ RefInv /\ [Next]_vars => RefInv'
<1> SUFFICES ASSUME Typed, FeatureInv, RefInv, [Next]_vars PROVE RefInv'
  OBVIOUS
<1>1. CASE UNCHANGED vars
  <2>1. Rows' = Rows /\ entities' = entities /\ pc' = pc /\ local' = local
    BY <1>1 DEF vars, Rows
  <2>2. Ageing
    BY <2>1 DEF Ageing
  <2>3. RefKinds'
    BY <2>1, <2>2, LessIsKind
  <2>4. ASSUME NEW t \in Threads PROVE ThreadRefs(pc[t], local[t])'
    <3>1. PICK label, l : label = pc[t] /\ l = local[t]
      OBVIOUS
    <3>2. LocalsOK(label, l) /\ ThreadRefs(label, l)
      BY <3>1 DEF Typed, ThreadsTyped, RefInv, ThreadRefs
    <3> QED
      BY <2>1, <2>2, <3>1, <3>2, ThreadRefsKept
  <2> QED
    BY <2>3, <2>4 DEF RefInv, ThreadRefs
<1>2. ASSUME NEW t \in Threads, Post(t) \/ Delete(t) \/ Step(t) \/ LookupFails(t) \/ Fail(t) PROVE RefInv'
  BY <1>2, PostStepRefs, PutRefs, OtherRefs DEF Step
<1> QED
  BY <1>1, <1>2 DEF Next

\* An edge of a POST says of which entity it is.
EntityOf(edge) == IF edge[3] \in {"Contains", "Produces"} THEN edge[2] ELSE edge[1]

LEMMA LinkOf ==
  ASSUME NEW id, NEW l, l.owners \in Seq(Issued), l.inputs \in Seq(Issued),
         NEW k \in DOMAIN Links(id, l)
  PROVE /\ EntityOf(Links(id, l)[k]) = id
        /\ {Links(id, l)[k][1], Links(id, l)[k][2]}
             \subseteq {id} \cup Range(l.owners) \cup Range(l.inputs)
<1>1. PICK edge : edge = Links(id, l)[k]
  OBVIOUS
<1>2. /\ \A i \in 1..Len(l.owners) : l.owners[i] \in Range(l.owners)
      /\ \A i \in 1..Len(l.inputs) : l.inputs[i] \in Range(l.inputs)
  BY DEF Range
<1>3. ASSUME NEW a \in Range(l.owners), edge = <<a, id, "Contains">> PROVE
        EntityOf(edge) = id /\ {edge[1], edge[2]} \subseteq {id} \cup Range(l.owners) \cup Range(l.inputs)
  BY <1>3 DEF EntityOf
<1>4. ASSUME NEW a \in Range(l.owners), edge = <<id, a, "BelongsTo">> PROVE
        EntityOf(edge) = id /\ {edge[1], edge[2]} \subseteq {id} \cup Range(l.owners) \cup Range(l.inputs)
  BY <1>4 DEF EntityOf
<1>5. ASSUME NEW a \in Range(l.inputs), edge = <<id, a, "Consumes">> PROVE
        EntityOf(edge) = id /\ {edge[1], edge[2]} \subseteq {id} \cup Range(l.owners) \cup Range(l.inputs)
  BY <1>5 DEF EntityOf
<1>6. ASSUME NEW a \in Range(l.inputs), edge = <<a, id, "Produces">> PROVE
        EntityOf(edge) = id /\ {edge[1], edge[2]} \subseteq {id} \cup Range(l.owners) \cup Range(l.inputs)
  BY <1>6 DEF EntityOf
<1>7. \/ \E i \in 1..Len(l.owners) :
            edge = <<l.owners[i], id, "Contains">> \/ edge = <<id, l.owners[i], "BelongsTo">>
      \/ \E i \in 1..Len(l.inputs) :
            edge = <<id, l.inputs[i], "Consumes">> \/ edge = <<l.inputs[i], id, "Produces">>
  BY <1>1, LinkAt
<1>8. \/ \E a \in Range(l.owners) : edge = <<a, id, "Contains">> \/ edge = <<id, a, "BelongsTo">>
      \/ \E a \in Range(l.inputs) : edge = <<id, a, "Consumes">> \/ edge = <<a, id, "Produces">>
  BY <1>2, <1>7
<1> QED
  BY <1>1, <1>3, <1>4, <1>5, <1>6, <1>8

\* With one owner, each edge has its place.
Edge(from, to, rel) == <<from, to, rel>>

ThereAt(i) == 2 * i + 1
BackAt(i) == 2 * i + 2

LEMMA EdgeIs ==
  ASSUME NEW from, NEW to, NEW rel
  PROVE /\ Edge(from, to, rel)[1] = from /\ Edge(from, to, rel)[2] = to
        /\ Edge(from, to, rel)[3] = rel
BY DEF Edge

LEMMA LinksAt ==
  ASSUME NEW id, NEW l, l.owners \in Seq(Issued), l.inputs \in Seq(Issued), Len(l.owners) = 1,
         NEW n \in Nat, n = Len(l.inputs)
  PROVE /\ Len(Links(id, l)) = 2 * (n + 1)
        /\ DOMAIN Links(id, l) = 1..2 * (n + 1)
        /\ Links(id, l)[1] = Edge(l.owners[1], id, "Contains")
        /\ Links(id, l)[2] = Edge(id, l.owners[1], "BelongsTo")
        /\ \A i \in 1..n : Links(id, l)[ThereAt(i)] = Edge(id, l.inputs[i], "Consumes")
        /\ \A i \in 1..n : Links(id, l)[BackAt(i)] = Edge(l.inputs[i], id, "Produces")
<1> DEFINE there(i) == IF i <= 1 THEN <<l.owners[i], id, "Contains">>
                       ELSE <<id, l.inputs[i - 1], "Consumes">>
           back(i) == IF i <= 1 THEN <<id, l.owners[i], "BelongsTo">>
                      ELSE <<l.inputs[i - 1], id, "Produces">>
           at(k) == IF k % 2 = 1 THEN there((k + 1) \div 2) ELSE back(k \div 2)
<1>1. n \in Nat
  OBVIOUS
<1>2. Links(id, l) = [k \in 1..2 * (1 + n) |-> at(k)]
  BY DEF Links
<1>3. DOMAIN Links(id, l) = 1..2 * (1 + n) /\ \A k \in 1..2 * (1 + n) : Links(id, l)[k] = at(k)
  <2> HIDE DEF at
  <2> QED
    BY <1>2
<1>4. 2 * (1 + n) \in Nat /\ 2 * (1 + n) = 2 * (n + 1) /\ 2 * (1 + n) >= 2
  BY <1>1
<1>5. Len(Links(id, l)) = 2 * (n + 1)
  <2> HIDE DEF at
  <2> QED
    BY <1>2, <1>4
<1>6. at(1) = there(1) /\ at(2) = back(1)
  <2>1. 1 % 2 = 1 /\ (1 + 1) \div 2 = 1 /\ 2 % 2 # 1 /\ 2 \div 2 = 1
    OBVIOUS
  <2> HIDE DEF there, back
  <2> QED
    BY <2>1
<1>7. ASSUME NEW i \in 1..n
      PROVE /\ at(2 * i + 1) = there(i + 1) /\ at(2 * i + 2) = back(i + 1)
            /\ 2 * i + 1 \in 1..2 * (1 + n) /\ 2 * i + 2 \in 1..2 * (1 + n)
  <2>1. /\ (2 * i + 1) % 2 = 1 /\ ((2 * i + 1) + 1) \div 2 = i + 1
        /\ (2 * i + 2) % 2 # 1 /\ (2 * i + 2) \div 2 = i + 1
        /\ 2 * i + 1 \in 1..2 * (1 + n) /\ 2 * i + 2 \in 1..2 * (1 + n)
    BY <1>1
  <2> HIDE DEF there, back
  <2> QED
    BY <2>1
<1>8. \A i \in 1..n : ~(i + 1 <= 1) /\ (i + 1) - 1 = i
  BY <1>1
<1>9. \A i \in 1..n : there(i + 1) = Edge(id, l.inputs[i], "Consumes")
  BY <1>8 DEF Edge
<1>10. \A i \in 1..n : back(i + 1) = Edge(l.inputs[i], id, "Produces")
  BY <1>8 DEF Edge
<1>11. there(1) = Edge(l.owners[1], id, "Contains") /\ back(1) = Edge(id, l.owners[1], "BelongsTo")
  BY DEF Edge
<1> HIDE DEF at, there, back
<1>12. 1 \in 1..2 * (1 + n) /\ 2 \in 1..2 * (1 + n)
  BY <1>4
<1> QED
  BY <1>1, <1>3, <1>4, <1>5, <1>6, <1>7, <1>9, <1>10, <1>11, <1>12 DEF ThereAt, BackAt

LEMMA LinksLen ==
  ASSUME NEW id, NEW l \in PostType, Len(l.owners) = 1, NEW n \in Nat, n = Len(l.inputs)
  PROVE Len(Links(id, l)) = 2 * (n + 1) /\ DOMAIN Links(id, l) = 1..2 * (n + 1)
<1>1. l.owners \in Seq(Issued) /\ l.inputs \in Seq(Issued)
  BY DEF PostType
<1> QED
  BY <1>1, LinksAt

LEMMA LeadsAt ==
  ASSUME NEW id, NEW l \in PostType, Len(l.owners) = 1, NEW i \in 1..Len(l.inputs)
  PROVE Links(id, l)[BackAt(i)] = Edge(l.inputs[i], id, "Produces")
<1>1. l.owners \in Seq(Issued) /\ l.inputs \in Seq(Issued)
  BY DEF PostType
<1>2. PICK n \in Nat : n = Len(l.inputs)
  BY <1>1
<1> QED
  BY <1>1, <1>2, LinksAt

\* What a POST does next is the end of what it does in all.
Suffix(l, k) ==
  /\ k \in 0..Len(Links(l.guid, l))
  /\ Len(l.todo) = Len(Links(l.guid, l)) - k
  /\ \A j \in 1..Len(l.todo) : l.todo[j] = Links(l.guid, l)[j + k]

\* An edge has one place among those of POSTs of an entity with the same references.
LEMMA SamePlace ==
  ASSUME NEW id, NEW l \in PostType, NEW m \in PostType, l.inputs = m.inputs,
         Len(l.owners) = 1, Len(m.owners) = 1,
         \A i, j \in DOMAIN l.inputs : l.inputs[i] = l.inputs[j] => i = j,
         NEW k \in DOMAIN Links(id, l), NEW j \in DOMAIN Links(id, m),
         Links(id, l)[k] = Links(id, m)[j]
  PROVE k = j
<1>0. l.inputs \in Seq(Issued)
  BY DEF PostType
<1> PICK n \in Nat : n = Len(l.inputs)
  BY <1>0
<1>1. /\ l.owners \in Seq(Issued) /\ l.inputs \in Seq(Issued)
      /\ m.owners \in Seq(Issued) /\ m.inputs \in Seq(Issued) /\ n = Len(m.inputs)
      /\ DOMAIN l.inputs = 1..n
  BY DEF PostType
<1>2. PICK a : a = Links(id, l)
  OBVIOUS
<1>3. PICK b : b = Links(id, m)
  OBVIOUS
<1> DEFINE owner == l.owners[1]
           other == m.owners[1]
<1>4. /\ DOMAIN a = 1..2 * (n + 1)
      /\ a[1] = Edge(owner, id, "Contains") /\ a[2] = Edge(id, owner, "BelongsTo")
  BY <1>1, <1>2, LinksAt
<1>5. \A i \in 1..n : a[ThereAt(i)] = Edge(id, l.inputs[i], "Consumes")
  BY <1>1, <1>2, LinksAt
<1>6. \A i \in 1..n : a[BackAt(i)] = Edge(l.inputs[i], id, "Produces")
  BY <1>1, <1>2, LinksAt
<1>7. /\ DOMAIN b = 1..2 * (n + 1)
      /\ b[1] = Edge(other, id, "Contains") /\ b[2] = Edge(id, other, "BelongsTo")
  BY <1>1, <1>3, LinksAt
<1>8. \A i \in 1..n : b[ThereAt(i)] = Edge(id, l.inputs[i], "Consumes")
  BY <1>1, <1>3, LinksAt
<1>9. \A i \in 1..n : b[BackAt(i)] = Edge(l.inputs[i], id, "Produces")
  BY <1>1, <1>3, LinksAt
<1>10. ASSUME NEW p \in 1..2 * (n + 1)
       PROVE p = 1 \/ p = 2 \/ \E i \in 1..n : p = ThereAt(i) \/ p = BackAt(i)
  <2>1. CASE p > 2 /\ p % 2 = 1
    <3>1. (p - 1) \div 2 \in 1..n /\ p = 2 * ((p - 1) \div 2) + 1
      BY <1>4, <2>1
    <3> QED
      BY <3>1 DEF ThereAt, BackAt
  <2>2. CASE p > 2 /\ p % 2 # 1
    <3>1. (p - 2) \div 2 \in 1..n /\ p = 2 * ((p - 2) \div 2) + 2
      BY <1>4, <2>2
    <3> QED
      BY <3>1 DEF ThereAt, BackAt
  <2> QED
    BY <1>4, <2>1, <2>2
<1>11. /\ a[1][3] = "Contains" /\ a[2][3] = "BelongsTo"
       /\ b[1][3] = "Contains" /\ b[2][3] = "BelongsTo"
  BY <1>4, <1>7, EdgeIs
<1>12. \A i \in 1..n : a[ThereAt(i)][3] = "Consumes" /\ a[ThereAt(i)][2] = l.inputs[i]
  BY <1>5, EdgeIs
<1>13. \A i \in 1..n : a[BackAt(i)][3] = "Produces" /\ a[BackAt(i)][1] = l.inputs[i]
  BY <1>6, EdgeIs
<1>14. \A i \in 1..n : b[ThereAt(i)][3] = "Consumes" /\ b[ThereAt(i)][2] = l.inputs[i]
  BY <1>8, EdgeIs
<1>15. \A i \in 1..n : b[BackAt(i)][3] = "Produces" /\ b[BackAt(i)][1] = l.inputs[i]
  BY <1>9, EdgeIs
<1> HIDE DEF owner, other
<1>16. a[k] = b[j] /\ k \in 1..2 * (n + 1) /\ j \in 1..2 * (n + 1)
  BY <1>2, <1>3, <1>4, <1>7
<1>17. CASE k = 1 \/ k = 2
  <2>1. a[k][3] \in {"Contains", "BelongsTo"} /\ (a[k][3] = "Contains" <=> k = 1)
    BY <1>11, <1>17
  <2>2. ASSUME NEW i \in 1..n PROVE j # ThereAt(i) /\ j # BackAt(i)
    BY <1>14, <1>15, <1>16, <2>1
  <2>3. j = 1 \/ j = 2
    BY <1>10, <1>16, <2>2
  <2> QED
    BY <1>11, <1>16, <1>17, <2>1, <2>3
<1>18. CASE \E i \in 1..n : k = ThereAt(i)
  <2>1. PICK i \in 1..n : k = ThereAt(i)
    BY <1>18
  <2>2. b[j][3] = "Consumes" /\ b[j][2] = l.inputs[i]
    BY <1>12, <1>16, <2>1
  <2>3. PICK h \in 1..n : j = ThereAt(h)
    BY <1>10, <1>11, <1>15, <1>16, <2>2
  <2>4. l.inputs[i] = l.inputs[h]
    BY <1>14, <2>2, <2>3
  <2>5. i = h
    BY <1>1, <2>4
  <2> QED
    BY <2>1, <2>3, <2>5
<1>19. CASE \E i \in 1..n : k = BackAt(i)
  <2>1. PICK i \in 1..n : k = BackAt(i)
    BY <1>19
  <2>2. b[j][3] = "Produces" /\ b[j][1] = l.inputs[i]
    BY <1>13, <1>16, <2>1
  <2>3. PICK h \in 1..n : j = BackAt(h)
    BY <1>10, <1>11, <1>14, <1>16, <2>2
  <2>4. l.inputs[i] = l.inputs[h]
    BY <1>15, <2>2, <2>3
  <2>5. i = h
    BY <1>1, <2>4
  <2> QED
    BY <2>1, <2>3, <2>5
<1> QED
  BY <1>10, <1>16, <1>17, <1>18, <1>19

\* So two POSTs of an entity that are at the same edge have the same references to
\* lead to it.
SameWork(l, m) ==
  /\ l.guid = m.guid /\ l.inputs = m.inputs /\ Len(l.owners) = 1 /\ Len(m.owners) = 1
  /\ \A i, j \in DOMAIN l.inputs : l.inputs[i] = l.inputs[j] => i = j
Suffixed(l) == l.todo # <<>> /\ \E k \in Nat : Suffix(l, k)

LEMMA Follows ==
  ASSUME NEW l \in PostType, NEW m \in PostType, SameWork(l, m), Suffixed(l), Suffixed(m),
         Head(l.todo) = Head(m.todo),
         NEW r \in Range(l.inputs), <<r, l.guid, "Produces">> \in Range(l.todo)
  PROVE <<r, l.guid, "Produces">> \in Range(m.todo)
<1>0. l.inputs \in Seq(Issued)
  BY DEF PostType
<1> PICK n \in Nat : n = Len(l.inputs)
  BY <1>0
<1> DEFINE edge == Edge(r, l.guid, "Produces")
<1>1. PICK id : id = l.guid /\ id = m.guid
  BY DEF SameWork
<1>2. PICK a : a = Links(id, l)
  OBVIOUS
<1>3. PICK b : b = Links(id, m)
  OBVIOUS
<1>4. /\ l.owners \in Seq(Issued) /\ l.inputs \in Seq(Issued)
      /\ m.owners \in Seq(Issued) /\ m.inputs \in Seq(Issued) /\ n = Len(m.inputs)
      /\ Len(l.owners) = 1 /\ Len(m.owners) = 1
  BY DEF PostType, SameWork
<1>5. Len(a) = 2 * (n + 1) /\ DOMAIN a = 1..2 * (n + 1)
  <2>1. Len(Links(id, l)) = 2 * (n + 1) /\ DOMAIN Links(id, l) = 1..2 * (n + 1)
    BY <1>4, LinksLen
  <2> QED
    BY <1>2, <2>1
<1>6. Len(b) = 2 * (n + 1) /\ DOMAIN b = 1..2 * (n + 1)
  <2>1. Len(Links(id, m)) = 2 * (n + 1) /\ DOMAIN Links(id, m) = 1..2 * (n + 1)
    BY <1>4, LinksLen
  <2> QED
    BY <1>3, <2>1
<1>7. PICK k \in Nat : Suffix(l, k)
  BY DEF Suffixed
<1>8. PICK h \in Nat : Suffix(m, h)
  BY DEF Suffixed
<1>9. PICK x : x = l.todo
  OBVIOUS
<1>10. PICK y : y = m.todo
  OBVIOUS
<1>11. x \in Seq(Triples) /\ y \in Seq(Triples) /\ x # <<>> /\ y # <<>> /\ Head(x) = Head(y)
  BY <1>9, <1>10 DEF PostType, Suffixed
<1>12. /\ Len(x) = Len(a) - k /\ \A j \in 1..Len(x) : x[j] = a[j + k]
       /\ Len(y) = Len(b) - h /\ \A j \in 1..Len(y) : y[j] = b[j + h]
  BY <1>1, <1>2, <1>3, <1>7, <1>8, <1>9, <1>10 DEF Suffix
<1>13. edge \in Range(x)
  BY <1>9 DEF Edge
<1>14. /\ Len(x) \in Nat /\ Len(y) \in Nat /\ Len(x) # 0 /\ Len(y) # 0
       /\ DOMAIN x = 1..Len(x) /\ DOMAIN y = 1..Len(y) /\ x[1] = y[1]
  BY <1>11
<1>15. a[1 + k] = b[1 + h] /\ 1 + k \in DOMAIN a /\ 1 + h \in DOMAIN b
  <2>1. 1 \in 1..Len(x) /\ 1 \in 1..Len(y)
    BY <1>14
  <2>2. ASSUME NEW x1 \in Nat, NEW k1 \in Nat, NEW n1 \in Nat, x1 # 0, x1 = n1 - k1
        PROVE 1 + k1 \in 1..n1
    BY <2>2
  <2>3. 2 * (n + 1) \in Nat
    OBVIOUS
  <2>4. 1 + k \in 1..2 * (n + 1) /\ 1 + h \in 1..2 * (n + 1)
    BY <1>5, <1>6, <1>12, <1>14, <2>2, <2>3
  <2> QED
    BY <1>5, <1>6, <1>12, <1>14, <2>1, <2>4
<1>16. k = h
  <2>1. 1 + k = 1 + h
    BY <1>2, <1>3, <1>15, SamePlace DEF SameWork
  <2> QED
    BY <2>1
<1>17. PICK j \in 1..Len(x) : edge = x[j]
  BY <1>13, <1>14 DEF Range
<1>18. PICK i \in 1..n : l.inputs[i] = r
  <2>1. PICK i \in DOMAIN l.inputs : l.inputs[i] = r
    BY DEF Range
  <2>2. DOMAIN l.inputs = 1..n
    BY <1>0
  <2> QED
    BY <2>1, <2>2
<1>19. a[BackAt(i)] = edge /\ b[BackAt(i)] = edge
  <2>1. Links(id, l)[BackAt(i)] = Edge(l.inputs[i], id, "Produces")
    BY <1>4, LeadsAt
  <2>2. Links(id, m)[BackAt(i)] = Edge(m.inputs[i], id, "Produces")
    BY <1>4, LeadsAt
  <2> QED
    BY <1>1, <1>2, <1>3, <1>18, <2>1, <2>2 DEF SameWork
<1>20. BackAt(i) \in 1..2 * (n + 1)
  BY DEF BackAt
<1>21. j + k = BackAt(i)
  <2>1. a[j + k] = edge /\ j + k \in DOMAIN a
    <3> HIDE DEF edge
    <3>1. j + k \in 1..2 * (n + 1)
      BY <1>5, <1>12, <1>14
    <3> QED
      BY <1>5, <1>12, <1>17, <3>1
  <2> HIDE DEF edge
  <2>2. PICK p, q : p = j + k /\ q = BackAt(i)
    OBVIOUS
  <2>3. p \in DOMAIN Links(id, l) /\ q \in DOMAIN Links(id, m)
    BY <1>2, <1>3, <1>6, <1>20, <2>1, <2>2
  <2>4. Links(id, l)[p] = Links(id, m)[q]
    BY <1>2, <1>3, <1>19, <2>1, <2>2
  <2>5. p = q
    BY <2>3, <2>4, SamePlace DEF SameWork
  <2> QED
    BY <2>2, <2>5
<1>22. j \in 1..Len(y) /\ y[j] = edge
  <2> HIDE DEF edge
  <2>1. Len(x) = Len(y)
    BY <1>5, <1>6, <1>12, <1>16
  <2>2. j + h = BackAt(i)
    BY <1>16, <1>21
  <2> QED
    BY <1>12, <1>19, <2>1, <2>2
<1> HIDE DEF edge
<1>23. edge \in Range(y)
  BY <1>14, <1>22 DEF Range
<1> QED
  BY <1>10, <1>23 DEF edge, Edge

\* A POST lists every reference of its entity, once.
LEMMA RefsListed ==
  ASSUME Typed, NEW l \in PostType, PostRefs(l), NEW r \in l.refs
  PROVE /\ l.type \in {"Anchor", "DerivedFeature"}
        /\ Len(l.owners) = 1 /\ l.inputs = SetToSeq(l.refs) /\ r \in Range(l.inputs)
        /\ \A i, j \in DOMAIN l.inputs : l.inputs[i] = l.inputs[j] => i = j
<1>1. l.type \in {"Anchor", "DerivedFeature"} /\ Len(l.owners) = 1 /\ l.inputs = SetToSeq(l.refs)
  BY DEF PostRefs
<1>2. IsFiniteSet(l.refs)
  <2>1. IsFiniteSet(0..(nextId - 1))
    BY FS_Interval DEF Typed, TablesTyped
  <2>2. l.refs \subseteq 0..(nextId - 1)
    BY DEF PostType, Issued
  <2> QED
    BY <2>1, <2>2, FS_Subset
<1>3. PICK s : s = l.refs
  OBVIOUS
<1>4. /\ \A i, j \in DOMAIN SetToSeq(s) : SetToSeq(s)[i] = SetToSeq(s)[j] => i = j
      /\ \E i \in DOMAIN SetToSeq(s) : SetToSeq(s)[i] = r
  BY <1>2, <1>3, SetToSeqOf
<1> QED
  BY <1>1, <1>3, <1>4 DEF Range

\* What is left to do of a POST leads to what it links.
LEMMA TodoEnds ==
  ASSUME Typed, NEW l \in PostType, PostOK(l), QuietPost(l), l.guid # 0, NEW e \in Range(l.todo)
  PROVE EntityOf(e) = l.guid /\ {e[1], e[2]} \subseteq Rows
<1>1. PICK k \in DOMAIN Links(l.guid, l) : e = Links(l.guid, l)[k]
  BY DEF PostOK, Range
<1>2. l.owners \in Seq(Issued) /\ l.inputs \in Seq(Issued)
  BY DEF PostType
<1>3. EntityOf(e) = l.guid
  BY <1>1, <1>2, LinkOf
<1>4. {e[1], e[2]} \subseteq {l.guid} \cup Range(l.owners) \cup Range(l.inputs)
  BY <1>1, <1>2, LinkOf
<1> QED
  BY <1>3, <1>4 DEF QuietPost

\* A step of a POST, when it is quiet.
LEMMA PostQuiet ==
  ASSUME Typed, QuietInv, quiet, NEW t \in Threads, \A u \in Threads : pc[u] \notin DeletePcs,
         Rows \subseteq Rows', unlinked' = unlinked,
         \/ \E code : Finish(t, code)
         \/ \E label \in CreatePcs : \E l : Continue(t, label, l) /\ QuietPost(l)',
         \A e \in edges' : {e[1], e[2]} \subseteq Rows',
         \A id \in Rows' \ unlinked : \A r \in entities'[id].refs : Leads(r, id)'
  PROVE QuietInv'
<1>1. \A u \in Threads : u # t => pc'[u] = pc[u] /\ local'[u] = local[u]
  BY DEF Finish, Continue, Typed, ThreadsTyped
<1>2. \/ pc'[t] = "idle"
      \/ \E l : pc'[t] \in CreatePcs /\ local'[t] = l /\ QuietPost(l)'
  BY DEF Finish, Continue, Typed, ThreadsTyped
<1>3. ASSUME NEW u \in Threads PROVE pc'[u] \notin DeletePcs
  BY <1>1, <1>2 DEF CreatePcs, DeletePcs
<1>4. ASSUME NEW u \in Threads, pc'[u] \in CreatePcs PROVE QuietPost(local[u])'
  <2>1. CASE u = t
    <3>1. PICK l : local'[t] = l /\ QuietPost(l)'
      BY <1>2, <1>4, <2>1 DEF CreatePcs
    <3> QED
      BY <2>1, <3>1
  <2>2. CASE u # t
    <3>1. PICK l : l = local[u]
      OBVIOUS
    <3>2. QuietPost(l)
      BY <1>1, <1>4, <2>2, <3>1 DEF QuietInv
    <3>3. QuietPost(l)'
      BY <3>2 DEF QuietPost
    <3> QED
      BY <1>1, <2>2, <3>1, <3>3
  <2> QED
    BY <2>1, <2>2
<1> QED
  BY <1>3, <1>4 DEF QuietInv, Apart

\* Nobody but its own thread, and who puts the edge, changes what a POST will put.
LEMMA OthersPut ==
  ASSUME Typed, NEW t \in Threads, NEW u \in Threads, u # t, NEW id, NEW edge, Puts(u, id, edge),
         (\E code : Finish(t, code)) \/ (\E label, l : Continue(t, label, l)),
         pc[u] = "putEdge" => Head(local[u].todo) \notin edges'
  PROVE Puts(u, id, edge)'
<1>1. pc'[u] = pc[u] /\ local'[u] = local[u]
  BY DEF Finish, Continue, Typed, ThreadsTyped
<1> QED
  BY <1>1 DEF Puts

LEMMA StartQuiet ==
  ASSUME Typed, QuietInv, NEW t \in Threads, Post(t), quiet'
  PROVE QuietInv'
<1>1. /\ pc[t] = "idle" /\ UNCHANGED <<entities, edges, unlinked>> /\ Rows' = Rows
  BY DEF Post, Accept, Rows
<1>2. CASE Refuse(t)
  <2>1. quiet /\ pc'[t] = "idle" /\ \A u \in Threads : u # t => pc'[u] = pc[u] /\ local'[u] = local[u]
    BY <1>2 DEF Refuse, Finish, Typed, ThreadsTyped
  <2>2. Apart'
    BY <2>1 DEF QuietInv, Apart, CreatePcs, DeletePcs
  <2>3. ASSUME NEW u \in Threads
        PROVE /\ pc'[u] \in CreatePcs => QuietPost(local[u])'
              /\ pc'[u] \in DeletePcs => QuietDelete(pc[u], local[u])'
    <3>1. CASE u = t
      BY <2>1, <3>1 DEF CreatePcs, DeletePcs
    <3>2. CASE u # t
      <4>1. PICK l, label : l = local[u] /\ label = pc[u]
        OBVIOUS
      <4>2. /\ label \in CreatePcs => QuietPost(l)
            /\ label \in DeletePcs => QuietDelete(label, l)
        BY <2>1, <4>1 DEF QuietInv
      <4>3. /\ label \in CreatePcs => QuietPost(l)'
            /\ label \in DeletePcs => QuietDelete(label, l)'
        BY <1>1, <4>2 DEF QuietPost, QuietDelete, Neighbors, Incident
      <4> QED
        BY <2>1, <3>2, <4>1, <4>3
    <3> QED
      BY <3>1, <3>2
  <2>4. ASSUME NEW id \in Rows' \ unlinked', NEW r \in entities'[id].refs PROVE Leads(r, id)'
    <3>1. Leads(r, id)
      BY <1>1, <2>1 DEF QuietInv
    <3>2. ASSUME NEW u \in Threads, NEW edge, Puts(u, id, edge) PROVE Puts(u, id, edge)'
      BY <1>1, <2>1, <3>2 DEF Puts
    <3> QED
      BY <1>1, <3>1, <3>2 DEF Leads
  <2> QED
    BY <1>1, <2>1, <2>2, <2>3, <2>4 DEF QuietInv
<1>3. CASE /\ \E l : Continue(t, "seek", l) /\ LocalsOK("seek", l) /\ AskedFor(l)
           /\ quiet' = (quiet /\ \A u \in Threads : pc[u] \notin DeletePcs)
  <2>1. PICK l : Continue(t, "seek", l) /\ AskedFor(l)
    BY <1>3
  <2>2. quiet /\ \A u \in Threads : pc[u] \notin DeletePcs
    BY <1>3
  <2>3. QuietPost(l)'
    BY <1>1, <2>1, AskedIsRefs DEF QuietPost, AskedRefs
  <2>4. ASSUME NEW id \in Rows' \ unlinked, NEW r \in entities'[id].refs PROVE Leads(r, id)'
    <3>1. Leads(r, id)
      BY <1>1, <2>2, <2>4 DEF QuietInv
    <3>2. ASSUME NEW u \in Threads, NEW edge, Puts(u, id, edge) PROVE Puts(u, id, edge)'
      <4>1. u # t
        BY <1>1, <3>2 DEF Puts
      <4> QED
        BY <1>1, <2>1, <3>2, <4>1, OthersPut DEF Puts
    <3> QED
      BY <1>1, <3>1, <3>2 DEF Leads
  <2>5. \A e \in edges' : {e[1], e[2]} \subseteq Rows'
    BY <1>1, <2>2 DEF QuietInv
  <2> QED
    BY <1>1, <2>1, <2>2, <2>3, <2>4, <2>5, PostQuiet DEF CreatePcs
<1> QED
  BY <1>2, <1>3, PostShape DEF Typed

\* The next edge is taken when this one is there.
LEMMA NextEdgeQuiet ==
  ASSUME Typed, RefInv, QuietInv, quiet, NEW t \in Threads, pc[t] \in {"seekEdge", "putEdge"},
         NextEdge(t), Head(local[t].todo) \in edges', edges \subseteq edges'
  PROVE /\ \/ \E code : Finish(t, code)
           \/ \E label \in CreatePcs : \E l : Continue(t, label, l) /\ QuietPost(l)
        /\ \A id, edge : edge \in Range(local[t].todo) /\ local[t].guid = id
             => edge \in edges' \/ Puts(t, id, edge)'
<1>1. PICK l : l = local[t]
  OBVIOUS
<1>2. l \in PostType /\ l.todo # <<>> /\ PostRefs(l) /\ QuietPost(l)
  BY <1>1 DEF Typed, ThreadsTyped, LocalsOK, RefInv, QuietInv, CreatePcs
<1>3. /\ Range(l.todo) = {Head(l.todo)} \cup Range(Tail(l.todo))
      /\ Len(l.todo) = 1 => Range(l.todo) = {Head(l.todo)}
  BY <1>2, TodoTyped DEF Typed
<1>4. CASE Len(l.todo) = 1
  <2>1. Finish(t, 200)
    BY <1>1, <1>4 DEF NextEdge
  <2> QED
    BY <1>1, <1>3, <1>4, <2>1
<1>5. CASE Len(l.todo) # 1
  <2>1. PICK new : new = [l EXCEPT !.todo = Tail(@)]
    OBVIOUS
  <2>2. Continue(t, "seekEdge", new)
    BY <1>1, <1>5, <2>1 DEF NextEdge
  <2>3. /\ new.guid = l.guid /\ new.owners = l.owners /\ new.inputs = l.inputs
        /\ new.refs = l.refs /\ new.todo = Tail(l.todo)
    BY <1>2, <2>1 DEF PostType
  <2>4. QuietPost(new)
    BY <1>2, <2>3 DEF QuietPost
  <2>5. pc'[t] = "seekEdge" /\ local'[t] = new
    BY <2>2 DEF Continue, Typed, ThreadsTyped
  <2>6. ASSUME NEW id, NEW edge, edge \in Range(l.todo), l.guid = id
        PROVE edge \in edges' \/ Puts(t, id, edge)'
    <3>1. edge = Head(l.todo) \/ edge \in Range(new.todo)
      BY <1>3, <2>3, <2>6
    <3>2. edge \in Range(new.todo) => Puts(t, id, edge)'
      BY <2>3, <2>5, <2>6 DEF Puts
    <3> QED
      BY <1>1, <3>1, <3>2
  <2> QED
    BY <1>1, <2>2, <2>4, <2>6 DEF CreatePcs
<1> QED
  BY <1>4, <1>5

LEMMA SeekQuiet ==
  ASSUME Typed, FeatureInv, RefInv, QuietInv, quiet, NEW t \in Threads,
         Seek(t) \/ Reread(t) \/ SeekEdge(t)
  PROVE QuietInv'
<1>1. UNCHANGED <<entities, edges, unlinked, quiet>> /\ Rows' = Rows
  BY DEF Seek, Reread, SeekEdge, purview, Rows
<1>2. pc[t] \in CreatePcs /\ \A u \in Threads : pc[u] \notin DeletePcs
  BY DEF Seek, Reread, SeekEdge, CreatePcs, QuietInv, Apart
<1>3. PICK l : l = local[t]
  OBVIOUS
<1>4. l \in PostType /\ PostRefs(l) /\ QuietPost(l) /\ PostOK(l)
  BY <1>2, <1>3 DEF Typed, ThreadsTyped, LocalsOK, RefInv, QuietInv, FeatureInv
<1> DEFINE Shape == \/ \E code : Finish(t, code)
                    \/ \E label \in CreatePcs : \E m : Continue(t, label, m) /\ QuietPost(m)
           Keeps == \A id \in Rows : \A r \in entities[id].refs :
                      Puts(t, id, <<r, id, "Produces">>) =>
                        <<r, id, "Produces">> \in edges' \/ Puts(t, id, <<r, id, "Produces">>)'
<1> HIDE DEF Shape, Keeps
<1>5. ASSUME Shape, Keeps PROVE QuietInv'
  <2>1. ASSUME NEW id \in Rows' \ unlinked, NEW r \in entities'[id].refs PROVE Leads(r, id)'
    <3> DEFINE edge == <<r, id, "Produces">>
    <3>1. r \in Rows /\ (edge \in edges \/ \E u \in Threads : Puts(u, id, edge))
      BY <1>1, <2>1 DEF QuietInv, Leads
    <3>2. ASSUME NEW u \in Threads, Puts(u, id, edge)
          PROVE edge \in edges' \/ \E v \in Threads : Puts(v, id, edge)'
      <4>1. CASE u = t
        BY <1>1, <1>5, <2>1, <3>2, <4>1 DEF Keeps
      <4>2. CASE u # t
        <5>1. (\E code : Finish(t, code)) \/ (\E label, m : Continue(t, label, m))
          BY <1>5 DEF Shape
        <5> HIDE DEF edge
        <5>2. pc[u] = "putEdge" => Head(local[u].todo) \notin edges'
          BY <1>1, <3>2 DEF Puts
        <5>3. Puts(u, id, edge)'
          BY <3>2, <4>2, <5>1, <5>2, OthersPut
        <5> QED
          BY <5>3
      <4> QED
        BY <4>1, <4>2
    <3> QED
      BY <1>1, <3>1, <3>2 DEF Leads
  <2>2. \A e \in edges' : {e[1], e[2]} \subseteq Rows'
    BY <1>1 DEF QuietInv
  <2>3. \A m : QuietPost(m) => QuietPost(m)'
    BY <1>1 DEF QuietPost
  <2> QED
    BY <1>1, <1>2, <1>5, <2>1, <2>2, <2>3, PostQuiet DEF Shape
<1>6. CASE Seek(t)
  <2>1. Keeps
    BY <1>6 DEF Keeps, Puts, Seek
  <2>2. ASSUME NEW id \in Found(t), LinkFound(t, id) PROVE Shape
    <3>1. PICK new : new = [l EXCEPT !.guid = id]
      OBVIOUS
    <3>2. /\ new.guid = id /\ new.owners = l.owners /\ new.inputs = l.inputs /\ new.refs = l.refs
      BY <1>4, <3>1 DEF PostType
    <3>3. id \in Rows
      BY <2>2 DEF Found, OfType
    <3>4. QuietPost(new)
      BY <1>4, <3>2, <3>3 DEF QuietPost
    <3> QED
      BY <1>3, <2>2, <3>1, <3>4 DEF LinkFound, Shape, CreatePcs
  <2>3. Shape
    <3>1. CASE \E id \in Found(t) : LinkFound(t, id)
      BY <2>2, <3>1
    <3>2. CASE Continue(t, "put", local[t]) \/ Finish(t, 409)
      BY <1>3, <1>4, <3>2 DEF Shape, CreatePcs
    <3> QED
      BY <1>6, <3>1, <3>2 DEF Seek
  <2> QED
    BY <1>5, <2>1, <2>3
<1>7. CASE Reread(t)
  <2>1. l.guid # 0 /\ l.guid \in Rows
    BY <1>3, <1>4, <1>7 DEF Reread, Typed, ThreadsTyped, LocalsOK, QuietPost
  <2>2. ReadAgain(l) \subseteq Rows
    BY <1>4, <2>1 DEF ReadAgain, QuietPost
  <2>3. PICK links : links = Links(l.guid, l)
    OBVIOUS
  <2>4. PICK new : new = [l EXCEPT !.todo = links]
    OBVIOUS
  <2>5. Continue(t, "seekEdge", new)
    BY <1>3, <1>7, <2>2, <2>3, <2>4 DEF Reread
  <2>6. /\ new.guid = l.guid /\ new.owners = l.owners /\ new.inputs = l.inputs
        /\ new.refs = l.refs /\ new.todo = links
    BY <1>4, <2>4 DEF PostType
  <2>7. QuietPost(new)
    BY <1>4, <2>6 DEF QuietPost
  <2>8. Shape
    BY <2>5, <2>7 DEF Shape, CreatePcs
  <2>9. pc'[t] = "seekEdge" /\ local'[t] = new
    BY <2>5 DEF Continue, Typed, ThreadsTyped
  <2>10. Keeps
    <3> SUFFICES ASSUME NEW id \in Rows, NEW r \in entities[id].refs,
                        Puts(t, id, <<r, id, "Produces">>)
                 PROVE Puts(t, id, <<r, id, "Produces">>)'
      BY DEF Keeps
    <3>1. l.guid = id
      BY <1>3 DEF Puts
    <3>2. r \in l.refs
      BY <1>4, <3>1 DEF PostRefs
    <3>3. Len(l.owners) = 1 /\ r \in Range(l.inputs)
      BY <1>4, <3>2, RefsListed
    <3>4. l.inputs \in Seq(Issued)
      BY <1>4 DEF PostType
    <3>5. PICK i \in 1..Len(l.inputs) : l.inputs[i] = r
      <4>1. PICK i \in DOMAIN l.inputs : l.inputs[i] = r
        BY <3>3 DEF Range
      <4>2. DOMAIN l.inputs = 1..Len(l.inputs)
        BY <3>4
      <4> QED
        BY <4>1, <4>2
    <3>6. Links(id, l)[BackAt(i)] = Edge(r, id, "Produces")
      BY <1>4, <3>3, <3>5, LeadsAt
    <3>7. BackAt(i) \in DOMAIN Links(id, l)
      <4>1. PICK n \in Nat : n = Len(l.inputs)
        BY <3>4
      <4>2. DOMAIN Links(id, l) = 1..2 * (n + 1)
        BY <1>4, <3>3, <4>1, LinksLen
      <4>3. BackAt(i) \in 1..2 * (n + 1)
        BY <4>1 DEF BackAt
      <4> QED
        BY <4>2, <4>3
    <3>8. Edge(r, id, "Produces") \in Range(links)
      BY <2>3, <3>1, <3>6, <3>7 DEF Range
    <3> QED
      BY <2>6, <2>9, <3>1, <3>8 DEF Puts, Edge
  <2> QED
    BY <1>5, <2>8, <2>10
<1>8. CASE SeekEdge(t)
  <2>1. CASE Head(l.todo) \in edges /\ NextEdge(t)
    <3>1. /\ \/ \E code : Finish(t, code)
             \/ \E label \in CreatePcs : \E m : Continue(t, label, m) /\ QuietPost(m)
          /\ \A id, edge : edge \in Range(l.todo) /\ l.guid = id
               => edge \in edges' \/ Puts(t, id, edge)'
      BY <1>1, <1>3, <1>8, <2>1, NextEdgeQuiet DEF SeekEdge
    <3>2. Keeps
      BY <1>3, <1>8, <3>1 DEF Keeps, Puts, SeekEdge
    <3> QED
      BY <1>5, <3>1, <3>2 DEF Shape
  <2>2. CASE Head(l.todo) \notin edges /\ Continue(t, "putEdge", l)
    <3>1. Shape
      BY <1>4, <2>2 DEF Shape, CreatePcs
    <3>2. pc'[t] = "putEdge" /\ local'[t] = l
      BY <2>2 DEF Continue, Typed, ThreadsTyped
    <3>3. Keeps
      BY <1>1, <1>3, <1>8, <2>2, <3>2 DEF Keeps, Puts, SeekEdge
    <3> QED
      BY <1>5, <3>1, <3>3
  <2> QED
    BY <1>3, <1>8, <2>1, <2>2 DEF SeekEdge
<1> QED
  BY <1>6, <1>7, <1>8

LEMMA PutQuiet ==
  ASSUME Typed, FeatureInv, RefInv, QuietInv, quiet, NEW t \in Threads, Put(t)
  PROVE QuietInv'
<1>1. UNCHANGED <<edges, unlinked, quiet>> /\ pc[t] = "put"
  BY DEF Put
<1>2. \A u \in Threads : pc[u] \notin DeletePcs
  BY <1>1 DEF CreatePcs, QuietInv, Apart
<1>3. PICK l : l = local[t]
  OBVIOUS
<1>4. l \in PostType /\ PostRefs(l) /\ QuietPost(l) /\ PostOK(l)
  BY <1>1, <1>3 DEF Typed, ThreadsTyped, LocalsOK, RefInv, QuietInv, FeatureInv, CreatePcs
<1>5. nextId \notin Issued /\ nextId \notin Rows /\ nextId # 0
  BY DEF Typed, TablesTyped, Issued
<1>6. \/ Rows' = Rows /\ entities' = entities
      \/ /\ Rows' = Rows \cup {nextId} /\ \A id \in Rows : entities'[id] = entities[id]
         /\ entities'[nextId].refs = l.refs /\ LinkFound(t, nextId)
  BY <1>3, <1>5 DEF Put, Precondition, Rows
<1>7. Rows \subseteq Rows' /\ \A id \in Rows : entities'[id] = entities[id]
  BY <1>6
<1>8. \E code : Finish(t, code) \/ Continue(t, "reread", [l EXCEPT !.guid = nextId])
  BY <1>3 DEF Put, LinkFound, Precondition
<1>9. ASSUME NEW id \in Rows \ unlinked, NEW r \in entities[id].refs PROVE Leads(r, id)'
  <2> DEFINE edge == <<r, id, "Produces">>
  <2>1. r \in Rows /\ (edge \in edges \/ \E u \in Threads : Puts(u, id, edge))
    BY <1>9 DEF QuietInv, Leads
  <2>2. ASSUME NEW u \in Threads, Puts(u, id, edge) PROVE Puts(u, id, edge)'
    <3> HIDE DEF edge
    <3>1. u # t
      BY <1>1, <2>2 DEF Puts
    <3>2. pc[u] = "putEdge" => Head(local[u].todo) \notin edges'
      BY <1>1, <2>2 DEF Puts
    <3> QED
      BY <1>8, <2>2, <3>1, <3>2, OthersPut
  <2> QED
    BY <1>1, <1>7, <2>1, <2>2 DEF Leads
<1>10. \A e \in edges' : {e[1], e[2]} \subseteq Rows'
  BY <1>1, <1>7 DEF QuietInv
<1>11. CASE \E code : Finish(t, code)
  <2>1. CASE Rows' = Rows /\ entities' = entities
    BY <1>1, <1>2, <1>9, <1>10, <1>11, <2>1, PostQuiet
  <2>2. CASE /\ Rows' = Rows \cup {nextId} /\ \A id \in Rows : entities'[id] = entities[id]
             /\ entities'[nextId].refs = l.refs /\ LinkFound(t, nextId)
    <3>1. l.type = "Project"
      BY <1>1, <1>3, <1>11, <2>2 DEF LinkFound, Finish, Continue, Typed, ThreadsTyped
    <3>2. l.refs = {}
      BY <1>4, <3>1 DEF PostRefs
    <3>3. \A id \in Rows' \ unlinked : \A r \in entities'[id].refs : Leads(r, id)'
      BY <1>9, <2>2, <3>2
    <3> QED
      BY <1>1, <1>2, <1>7, <1>10, <1>11, <3>3, PostQuiet
  <2> QED
    BY <1>6, <2>1, <2>2
<1>12. CASE Continue(t, "reread", [l EXCEPT !.guid = nextId]) /\ ~(\E code : Finish(t, code))
  <2>1. /\ Rows' = Rows \cup {nextId} /\ \A id \in Rows : entities'[id] = entities[id]
        /\ entities'[nextId].refs = l.refs
    BY <1>3, <1>5, <1>12 DEF Put, Precondition, Rows
  <2>2. PICK new : new = [l EXCEPT !.guid = nextId]
    OBVIOUS
  <2>3. /\ new.guid = nextId /\ new.owners = l.owners /\ new.inputs = l.inputs /\ new.refs = l.refs
    BY <1>4, <2>2 DEF PostType
  <2>4. QuietPost(new)'
    BY <1>4, <2>1, <2>3 DEF QuietPost
  <2>5. pc'[t] = "reread" /\ local'[t] = new
    BY <1>12, <2>2 DEF Continue, Typed, ThreadsTyped
  <2>6. ASSUME NEW r \in l.refs, NEW n, n = nextId PROVE Leads(r, n)'
    <3>1. r \in Rows'
      BY <1>4, <1>7 DEF QuietPost
    <3>2. Puts(t, n, <<r, n, "Produces">>)'
      BY <2>3, <2>5, <2>6 DEF Puts
    <3> QED
      BY <3>1, <3>2 DEF Leads
  <2>7. \A id \in Rows' \ unlinked : \A r \in entities'[id].refs : Leads(r, id)'
    BY <1>9, <2>1, <2>6
  <2>8. Continue(t, "reread", new)
    BY <1>12, <2>2
  <2> QED
    BY <1>1, <1>2, <1>7, <1>10, <2>4, <2>7, <2>8, PostQuiet DEF CreatePcs
<1> QED
  BY <1>8, <1>11, <1>12

LEMMA PutEdgeQuiet ==
  ASSUME Typed, FeatureInv, RefInv, QuietInv, quiet, NEW t \in Threads, PutEdge(t)
  PROVE QuietInv'
<1>1. UNCHANGED <<entities, unlinked, quiet>> /\ pc[t] = "putEdge" /\ Rows' = Rows
  BY DEF PutEdge, Rows
<1>2. \A u \in Threads : pc[u] \notin DeletePcs
  BY <1>1 DEF CreatePcs, QuietInv, Apart
<1>3. PICK l : l = local[t]
  OBVIOUS
<1>4. /\ l \in PostType /\ PostRefs(l) /\ QuietPost(l) /\ PostOK(l)
      /\ l.todo # <<>> /\ l.guid # 0 /\ l.guid \in Rows
  BY <1>1, <1>3 DEF Typed, ThreadsTyped, LocalsOK, RefInv, QuietInv, FeatureInv, CreatePcs, QuietPost
<1>5. PICK head : head = Head(l.todo)
  OBVIOUS
<1>6. head \in Range(l.todo)
  BY <1>4, <1>5, TodoTyped DEF Typed
<1>7. EntityOf(head) = l.guid /\ {head[1], head[2]} \subseteq Rows
  BY <1>4, <1>6, TodoEnds
<1>8. IF head \notin edges THEN edges' = edges \cup {head} /\ NextEdge(t)
      ELSE edges' = edges /\ Finish(t, 412)
  BY <1>3, <1>5, <1>7 DEF PutEdge
<1>9. edges \subseteq edges' /\ \A e \in edges' : {e[1], e[2]} \subseteq Rows'
  BY <1>1, <1>7, <1>8 DEF QuietInv
<1>10. /\ \/ \E code : Finish(t, code)
          \/ \E label \in CreatePcs : \E m : Continue(t, label, m) /\ QuietPost(m)
       /\ head \notin edges =>
            \A id, edge : edge \in Range(l.todo) /\ l.guid = id => edge \in edges' \/ Puts(t, id, edge)'
  <2>1. CASE head \in edges
    BY <1>8, <2>1
  <2>2. CASE head \notin edges
    <3>1. NextEdge(t) /\ Head(local[t].todo) \in edges'
      BY <1>3, <1>5, <1>8, <2>2
    <3> QED
      BY <1>1, <1>3, <1>9, <3>1, NextEdgeQuiet
  <2> QED
    BY <2>1, <2>2
<1>11. ASSUME NEW id \in Rows \ unlinked, NEW r \in entities[id].refs PROVE Leads(r, id)'
  <2> PICK edge : edge = <<r, id, "Produces">>
    OBVIOUS
  <2>1. r \in Rows /\ (edge \in edges \/ \E u \in Threads : Puts(u, id, edge))
    BY <1>11 DEF QuietInv, Leads
  <2>2. ASSUME NEW u \in Threads, Puts(u, id, edge)
        PROVE edge \in edges' \/ \E v \in Threads : Puts(v, id, edge)'
    <3>1. CASE u = t
      <4>1. head \notin edges /\ edge \in Range(l.todo) /\ l.guid = id
        BY <1>1, <1>3, <1>5, <2>2, <3>1 DEF Puts
      <4> QED
        BY <1>10, <4>1
    <3>2. CASE u # t /\ (pc[u] = "putEdge" => Head(local[u].todo) \notin edges')
      <4>1. Puts(u, id, edge)'
        BY <1>10, <2>2, <3>2, OthersPut
      <4> QED
        BY <4>1
    <3>3. CASE u # t /\ pc[u] = "putEdge" /\ Head(local[u].todo) \in edges'
      <4>1. PICK m : m = local[u]
        OBVIOUS
      <4>2. /\ m \in PostType /\ PostRefs(m) /\ QuietPost(m) /\ PostOK(m)
            /\ m.todo # <<>> /\ m.guid # 0 /\ m.guid \in Rows
        BY <3>3, <4>1 DEF Typed, ThreadsTyped, LocalsOK, RefInv, QuietInv, FeatureInv, CreatePcs,
           QuietPost
      <4>3. Head(m.todo) = head /\ head \notin edges
        BY <1>8, <2>2, <3>3, <4>1 DEF Puts
      <4>4. m.guid = id /\ edge \in Range(m.todo)
        BY <2>2, <3>3, <4>1 DEF Puts
      <4>5. l.guid = id
        <5>1. head \in Range(m.todo)
          BY <4>2, <4>3, TodoTyped DEF Typed
        <5> QED
          BY <1>7, <4>2, <4>4, <5>1, TodoEnds
      <4>6. r \in m.refs /\ m.refs = l.refs
        BY <1>4, <4>2, <4>4, <4>5 DEF PostRefs
      <4>7. /\ Len(m.owners) = 1 /\ m.inputs = SetToSeq(m.refs) /\ r \in Range(m.inputs)
            /\ \A i, j \in DOMAIN m.inputs : m.inputs[i] = m.inputs[j] => i = j
        BY <4>2, <4>6, RefsListed
      <4>8. Len(l.owners) = 1 /\ l.inputs = SetToSeq(l.refs)
        BY <1>4, <4>6, RefsListed
      <4>9. SameWork(m, l)
        BY <4>4, <4>5, <4>6, <4>7, <4>8 DEF SameWork
      <4>10. Suffixed(l) /\ Suffixed(m)
        BY <1>4, <4>2 DEF Suffixed, Suffix, PostRefs
      <4>11. edge \in Range(l.todo)
        <5>1. <<r, m.guid, "Produces">> \in Range(m.todo)
          BY <4>4
        <5>2. <<r, m.guid, "Produces">> \in Range(l.todo)
          BY <1>4, <1>5, <4>2, <4>3, <4>7, <4>9, <4>10, <5>1, Follows
        <5> QED
          BY <4>4, <5>2
      <4> QED
        BY <1>10, <4>3, <4>5, <4>11
    <3> QED
      BY <3>1, <3>2, <3>3
  <2> QED
    BY <1>1, <1>9, <2>1, <2>2 DEF Leads
<1>12. \A m : QuietPost(m) => QuietPost(m)'
  BY <1>1 DEF QuietPost
<1>13. \A id \in Rows' \ unlinked : \A r \in entities'[id].refs : Leads(r, id)'
  BY <1>1, <1>11
<1>14. \/ \E code : Finish(t, code)
       \/ \E label \in CreatePcs : \E m : Continue(t, label, m) /\ QuietPost(m)'
  BY <1>10, <1>12
<1> QED
  BY <1>1, <1>2, <1>9, <1>13, <1>14, PostQuiet

\* What a DELETE has seen stays so while others delete.
LEMMA QuietDeleteKept ==
  ASSUME NEW label, NEW l, QuietDelete(label, l), Rows' \subseteq Rows, edges' \subseteq edges
  PROVE QuietDelete(label, l)'
<1>1. Neighbors({l.target}, l.rel) = {} => Neighbors({l.target}, l.rel)' = {}
  BY DEF Neighbors
<1>2. Incident(l.target)' \subseteq Incident(l.target)
  BY DEF Incident
<1> QED
  BY <1>1, <1>2 DEF QuietDelete

\* A step of a DELETE, when it is quiet.
LEMMA DeleteQuiet ==
  ASSUME Typed, QuietInv, quiet, NEW t \in Threads, \A u \in Threads : pc[u] \notin CreatePcs,
         Rows' \subseteq Rows, edges' \subseteq edges,
         \/ \E code : Finish(t, code)
         \/ \E label \in DeletePcs : \E l : Continue(t, label, l) /\ QuietDelete(label, l)',
         \A e \in edges' : {e[1], e[2]} \subseteq Rows',
         \A id \in Rows' \ unlinked' : \A r \in entities'[id].refs :
           r \in Rows' /\ <<r, id, "Produces">> \in edges'
  PROVE QuietInv'
<1>1. \A u \in Threads : u # t => pc'[u] = pc[u] /\ local'[u] = local[u]
  BY DEF Finish, Continue, Typed, ThreadsTyped
<1>2. \/ pc'[t] = "idle"
      \/ \E label \in DeletePcs : \E l : pc'[t] = label /\ local'[t] = l /\ QuietDelete(label, l)'
  BY DEF Finish, Continue, Typed, ThreadsTyped
<1>3. ASSUME NEW u \in Threads PROVE pc'[u] \notin CreatePcs
  BY <1>1, <1>2 DEF CreatePcs, DeletePcs
<1>4. ASSUME NEW u \in Threads, pc'[u] \in DeletePcs PROVE QuietDelete(pc[u], local[u])'
  <2>1. CASE u = t
    <3>1. PICK label, l : pc'[t] = label /\ local'[t] = l /\ QuietDelete(label, l)'
      BY <1>2, <1>4, <2>1 DEF DeletePcs
    <3> QED
      BY <2>1, <3>1
  <2>2. CASE u # t
    <3>1. PICK label, l : label = pc[u] /\ l = local[u]
      OBVIOUS
    <3>2. QuietDelete(label, l)
      BY <1>1, <1>4, <2>2, <3>1 DEF QuietInv
    <3>3. QuietDelete(label, l)'
      BY <3>2, QuietDeleteKept
    <3> QED
      BY <1>1, <2>2, <3>1, <3>3
  <2> QED
    BY <2>1, <2>2
<1>5. \A id \in Rows' \ unlinked' : \A r \in entities'[id].refs : Leads(r, id)'
  BY DEF Leads
<1> QED
  BY <1>3, <1>4, <1>5 DEF QuietInv, Apart

\* With no POST under way, all that is referred to leads to what is made of it, so
\* a DELETE that found nothing is not of an entity that is referred to.
LEMMA RefsLead ==
  ASSUME QuietInv, quiet, \A u \in Threads : pc[u] \notin CreatePcs,
         NEW id \in Rows \ unlinked, NEW r \in entities[id].refs
  PROVE r \in Rows /\ <<r, id, "Produces">> \in edges
<1>1. Leads(r, id)
  BY DEF QuietInv
<1>2. ASSUME NEW u \in Threads PROVE ~Puts(u, id, <<r, id, "Produces">>)
  BY DEF Puts, CreatePcs
<1> QED
  BY <1>1, <1>2 DEF Leads

LEMMA NotReferred ==
  ASSUME RefInv, QuietInv, quiet, \A u \in Threads : pc[u] \notin CreatePcs,
         NEW label, NEW l, DeleteRefs(label, l), Neighbors({l.target}, l.rel) = {},
         NEW id \in Rows \ unlinked
  PROVE l.target \notin entities[id].refs
<1> SUFFICES ASSUME l.target \in entities[id].refs PROVE FALSE
  OBVIOUS
<1>1. l.target \in Rows /\ <<l.target, id, "Produces">> \in edges
  BY RefsLead
<1>2. l.rel = "Produces"
  <2>1. entities[l.target].type \notin {"Project", "Anchor"}
    BY <1>1 DEF RefInv, RefKinds, MayBeMade
  <2> QED
    BY <1>1, <2>1 DEF DeleteRefs, Downstream
<1>3. id \in Neighbors({l.target}, l.rel)
  BY <1>1, <1>2 DEF Neighbors
<1> QED
  BY <1>3

LEMMA DeleteStartsQuiet ==
  ASSUME Typed, QuietInv, NEW t \in Threads, Delete(t), quiet'
  PROVE QuietInv'
<1>1. /\ pc[t] = "idle" /\ UNCHANGED <<entities, edges, unlinked>> /\ Rows' = Rows
  BY DEF Delete, Accept, Rows
<1>2. CASE Refuse(t)
  <2>1. quiet /\ pc'[t] = "idle" /\ \A u \in Threads : u # t => pc'[u] = pc[u] /\ local'[u] = local[u]
    BY <1>2 DEF Refuse, Finish, Typed, ThreadsTyped
  <2>2. Apart'
    BY <2>1 DEF QuietInv, Apart, CreatePcs, DeletePcs
  <2>3. ASSUME NEW u \in Threads
        PROVE /\ pc'[u] \in CreatePcs => QuietPost(local[u])'
              /\ pc'[u] \in DeletePcs => QuietDelete(pc[u], local[u])'
    <3>1. CASE u = t
      BY <2>1, <3>1 DEF CreatePcs, DeletePcs
    <3>2. CASE u # t
      <4>1. PICK l, label : l = local[u] /\ label = pc[u]
        OBVIOUS
      <4>2. /\ label \in CreatePcs => QuietPost(l)
            /\ label \in DeletePcs => QuietDelete(label, l)
        BY <2>1, <4>1 DEF QuietInv
      <4>3. /\ label \in CreatePcs => QuietPost(l)'
            /\ label \in DeletePcs => QuietDelete(label, l)'
        BY <1>1, <4>2 DEF QuietPost, QuietDelete, Neighbors, Incident
      <4> QED
        BY <2>1, <3>2, <4>1, <4>3
    <3> QED
      BY <3>1, <3>2
  <2>4. ASSUME NEW id \in Rows' \ unlinked', NEW r \in entities'[id].refs PROVE Leads(r, id)'
    <3>1. Leads(r, id)
      BY <1>1, <2>1 DEF QuietInv
    <3>2. ASSUME NEW u \in Threads, NEW edge, Puts(u, id, edge) PROVE Puts(u, id, edge)'
      BY <1>1, <2>1, <3>2 DEF Puts
    <3> QED
      BY <1>1, <3>1, <3>2 DEF Leads
  <2> QED
    BY <1>1, <2>1, <2>2, <2>3, <2>4 DEF QuietInv
<1>3. CASE /\ \E target : Continue(t, "bfs",
                [target |-> target, rel |-> Downstream(entities[target].type),
                 frontier |-> {target}, seen |-> {target}, edges |-> {}])
           /\ quiet' = (quiet /\ \A u \in Threads : pc[u] \notin CreatePcs)
  <2>1. PICK l : Continue(t, "bfs", l)
    BY <1>3
  <2>2. quiet /\ \A u \in Threads : pc[u] \notin CreatePcs
    BY <1>3
  <2>3. QuietDelete("bfs", l)'
    BY DEF QuietDelete
  <2>4. \A id \in Rows' \ unlinked' : \A r \in entities'[id].refs :
          r \in Rows' /\ <<r, id, "Produces">> \in edges'
    BY <1>1, <2>2, RefsLead
  <2>5. \A e \in edges' : {e[1], e[2]} \subseteq Rows'
    BY <1>1, <2>2 DEF QuietInv
  <2> QED
    BY <1>1, <2>1, <2>2, <2>3, <2>4, <2>5, DeleteQuiet DEF DeletePcs
<1>4. Refuse(t) \/ /\ \E target : Continue(t, "bfs",
                        [target |-> target, rel |-> Downstream(entities[target].type),
                         frontier |-> {target}, seen |-> {target}, edges |-> {}])
                   /\ quiet' = (quiet /\ \A u \in Threads : pc[u] \notin CreatePcs)
  BY DEF Delete
<1> QED
  BY <1>2, <1>3, <1>4

\* The steps that read.
LEMMA SearchQuiet ==
  ASSUME Typed, RefInv, QuietInv, quiet, NEW t \in Threads, Search(t) \/ Judge(t) \/ Gather(t)
  PROVE QuietInv'
<1>1. UNCHANGED <<entities, edges, unlinked, quiet>> /\ Rows' = Rows
  BY DEF Search, Judge, Gather, purview, Rows
<1>2. pc[t] \in DeletePcs /\ \A u \in Threads : pc[u] \notin CreatePcs
  BY DEF Search, Judge, Gather, DeletePcs, QuietInv, Apart
<1>3. PICK l : l = local[t]
  OBVIOUS
<1>4. l \in DeleteType /\ DeleteRefs(pc[t], l) /\ QuietDelete(pc[t], l)
  BY <1>2, <1>3 DEF Typed, ThreadsTyped, LocalsOK, RefInv, QuietInv
<1> DEFINE Shape == \/ \E code : Finish(t, code)
                    \/ \E label \in DeletePcs : \E m : Continue(t, label, m) /\ QuietDelete(label, m)
<1> HIDE DEF Shape
<1>5. ASSUME Shape PROVE QuietInv'
  <2>1. \A id \in Rows' \ unlinked' : \A r \in entities'[id].refs :
          r \in Rows' /\ <<r, id, "Produces">> \in edges'
    BY <1>1, <1>2, RefsLead
  <2>2. \A e \in edges' : {e[1], e[2]} \subseteq Rows'
    BY <1>1 DEF QuietInv
  <2>3. \A label, m : QuietDelete(label, m) => QuietDelete(label, m)'
    BY <1>1, QuietDeleteKept
  <2>4. \/ \E code : Finish(t, code)
        \/ \E label \in DeletePcs : \E m : Continue(t, label, m) /\ QuietDelete(label, m)'
    BY <1>5, <2>3 DEF Shape
  <2> QED
    BY <1>1, <1>2, <2>1, <2>2, <2>4, DeleteQuiet
<1>6. CASE Search(t)
  <2>1. PICK next : next = Neighbors(l.frontier, l.rel)
    OBVIOUS
  <2>2. PICK new : new = [l EXCEPT !.frontier = next, !.seen = @ \cup next]
    OBVIOUS
  <2>3. PICK label \in {"bfs", "judge"} : label = IF next = {} THEN "judge" ELSE "bfs"
    OBVIOUS
  <2>4. new.target = l.target /\ new.rel = l.rel /\ new.seen = l.seen \cup next
    BY <1>4, <2>2 DEF DeleteType
  <2>5. ASSUME label = "judge", new.seen = {new.target} PROVE Neighbors({l.target}, l.rel) = {}
    <3>1. next = {} /\ l.seen = {l.target} /\ pc[t] = "bfs"
      BY <1>4, <1>6, <2>3, <2>4, <2>5 DEF DeleteRefs, Search
    <3>2. l.frontier = {l.target}
      BY <1>4, <3>1 DEF DeleteRefs
    <3> QED
      BY <2>1, <3>1, <3>2
  <2>6. QuietDelete(label, new)
    BY <2>3, <2>4, <2>5 DEF QuietDelete
  <2>7. Finish(t, 404) \/ Continue(t, label, new)
    BY <1>3, <1>6, <2>1, <2>2, <2>3 DEF Search
  <2> QED
    BY <1>5, <2>3, <2>6, <2>7 DEF Shape, DeletePcs
<1>7. CASE Judge(t)
  <2>1. \/ Finish(t, 404) \/ Finish(t, 412)
        \/ Continue(t, "gather", l) /\ l.seen = {l.target}
    BY <1>3, <1>7 DEF Judge
  <2>2. l.seen = {l.target} => QuietDelete("gather", l)
    BY <1>4, <1>7 DEF QuietDelete, Judge
  <2> QED
    BY <1>5, <2>1, <2>2 DEF Shape, DeletePcs
<1>8. CASE Gather(t)
  <2>1. PICK found : found = Incident(l.target)
    OBVIOUS
  <2>2. PICK new : new = [l EXCEPT !.edges = found]
    OBVIOUS
  <2>3. new.target = l.target /\ new.rel = l.rel /\ new.edges = found
    BY <1>4, <2>2 DEF DeleteType
  <2>4. QuietDelete("unlink", new)
    BY <1>4, <1>8, <2>1, <2>3 DEF QuietDelete, Gather
  <2>5. Finish(t, 404) \/ Continue(t, "unlink", new)
    BY <1>3, <1>8, <2>1, <2>2 DEF Gather
  <2> QED
    BY <1>5, <2>4, <2>5 DEF Shape, DeletePcs
<1> QED
  BY <1>6, <1>7, <1>8

\* As long as it is quiet, no edge that a DELETE deleted comes back before those who
\* gathered it are done.
GoneInv == quiet => \A t \in Threads : pc[t] = "unlink" => gone[t] \cap edges = {}

LEMMA GoneKept ==
  ASSUME Typed, GoneOK, QuietInv, GoneInv, NEW t \in Threads, quiet, quiet',
         Post(t) \/ Delete(t) \/ Step(t)
  PROVE GoneInv'
<1>1. (\E code : Finish(t, code)) \/ (\E label, l : Continue(t, label, l))
  <2>1. CASE Post(t)
    BY <2>1, PostShape DEF Typed, Refuse
  <2>2. CASE ~Post(t)
    BY <2>2 DEF Delete, Refuse, Step, Seek, Put, Precondition, LinkFound, Reread, SeekEdge,
                PutEdge, NextEdge, Search, Judge, Gather, Unlink, DeleteEntity
  <2> QED
    BY <2>1, <2>2
<1>2. \A u \in Threads : u # t => pc'[u] = pc[u]
  BY <1>1 DEF Finish, Continue, Typed, ThreadsTyped
<1>3. ASSUME Gather(t) PROVE GoneInv'
  <2>1. \A u \in Threads : gone'[u] = IF u = t THEN {} ELSE gone[u]
    BY <1>3 DEF Gather, GoneOK
  <2>2. edges' = edges
    BY <1>3 DEF Gather, purview
  <2> QED
    BY <1>2, <2>1, <2>2 DEF GoneInv
<1>4. ASSUME Unlink(t) PROVE GoneInv'
  <2>1. edges' = edges \ (local[t].edges \ gone[t])
    BY <1>4 DEF Unlink
  <2>2. ASSUME NEW u \in Threads, pc'[u] = "unlink" PROVE gone'[u] \cap edges' = {}
    <3>1. u # t
      BY <1>4, <2>2 DEF Unlink, Continue, Typed, ThreadsTyped
    <3>2. pc[u] = "unlink" /\ gone[u] \cap edges = {}
      BY <1>2, <2>2, <3>1 DEF GoneInv
    <3>3. gone'[u] = gone[u] \cup (local[t].edges \ gone[t])
      BY <1>4, <3>1, <3>2 DEF Unlink
    <3> QED
      BY <2>1, <3>2, <3>3
  <2> QED
    BY <2>2 DEF GoneInv
<1>5. ASSUME PutEdge(t) PROVE GoneInv'
  <2>1. \A u \in Threads : pc[u] # "unlink"
    BY <1>5 DEF PutEdge, QuietInv, Apart, CreatePcs, DeletePcs
  <2>2. pc'[t] # "unlink"
    BY <1>5 DEF PutEdge, NextEdge, Finish, Continue, Typed, ThreadsTyped
  <2> QED
    BY <1>2, <2>1, <2>2 DEF GoneInv
<1>6. ASSUME ~Gather(t), ~Unlink(t), ~PutEdge(t) PROVE GoneInv'
  <2>1. gone' = gone /\ edges' = edges
    BY <1>6 DEF Post, Delete, Accept, Step, Seek, Put, Reread, SeekEdge, Search, Judge,
       DeleteEntity, purview
  <2>2. (\E code : Finish(t, code)) \/ (\E label, l : label # "unlink" /\ Continue(t, label, l))
    <3>1. CASE Post(t)
      BY <3>1, PostShape DEF Typed, Refuse
    <3>2. CASE ~Post(t)
      BY <1>6, <3>2 DEF Delete, Refuse, Step, Seek, Put, Precondition, LinkFound, Reread, SeekEdge,
         NextEdge, Search, Judge, DeleteEntity
    <3> QED
      BY <3>1, <3>2
  <2>3. pc'[t] # "unlink"
    BY <2>2 DEF Finish, Continue, Typed, ThreadsTyped
  <2> QED
    BY <1>2, <2>1, <2>3 DEF GoneInv
<1> QED
  BY <1>3, <1>4, <1>5, <1>6

\* The steps that delete: first the edges of the target, then itself.
LEMMA UnlinkQuiet ==
  ASSUME Typed, LinkInv, RefInv, QuietInv, GoneInv, quiet, NEW t \in Threads, Unlink(t)
  PROVE QuietInv'
<1>1. /\ UNCHANGED <<entities, quiet>> /\ Rows' = Rows /\ pc[t] = "unlink"
      /\ \A u \in Threads : pc[u] \notin CreatePcs
  BY DEF Unlink, Rows, DeletePcs, QuietInv, Apart
<1>2. PICK l : l = local[t]
  OBVIOUS
<1>3. /\ DeleteRefs(pc[t], l) /\ QuietDelete("unlink", l)
      /\ \A e \in l.edges : l.target \in {e[1], e[2]}
  BY <1>1, <1>2 DEF RefInv, QuietInv, LinkInv, LinkOK, DeletePcs
<1>4. edges' = edges \ l.edges /\ unlinked' = unlinked \cup {l.target} /\ Continue(t, "remove", l)
  <2>1. edges' = edges \ (l.edges \ gone[t])
    BY <1>2 DEF Unlink
  <2>2. gone[t] \cap edges = {}
    BY <1>1 DEF GoneInv
  <2> QED
    BY <1>2, <2>1, <2>2 DEF Unlink
<1>5. Neighbors({l.target}, l.rel) = {} /\ Incident(l.target) \subseteq l.edges
  BY <1>3 DEF QuietDelete
<1>6. QuietDelete("remove", l)'
  <2>1. Neighbors({l.target}, l.rel)' = {}
    BY <1>1, <1>4, <1>5 DEF Neighbors
  <2>2. Incident(l.target)' = {}
    BY <1>4, <1>5 DEF Incident
  <2> QED
    BY <2>1, <2>2 DEF QuietDelete
<1>7. ASSUME NEW id \in Rows' \ unlinked', NEW r \in entities'[id].refs
      PROVE r \in Rows' /\ <<r, id, "Produces">> \in edges'
  <2>1. id \in Rows \ unlinked /\ r \in entities[id].refs /\ id # l.target
    BY <1>1, <1>4
  <2>2. r # l.target
    BY <1>1, <1>3, <1>5, <2>1, NotReferred
  <2>3. r \in Rows /\ <<r, id, "Produces">> \in edges
    BY <1>1, <2>1, RefsLead
  <2>4. <<r, id, "Produces">> \notin l.edges
    BY <1>3, <2>1, <2>2
  <2> QED
    BY <1>1, <1>4, <2>3, <2>4
<1>8. \A e \in edges' : {e[1], e[2]} \subseteq Rows'
  BY <1>1, <1>4 DEF QuietInv
<1> QED
  BY <1>1, <1>4, <1>6, <1>7, <1>8, DeleteQuiet DEF DeletePcs

LEMMA RemoveQuiet ==
  ASSUME Typed, RefInv, QuietInv, quiet, NEW t \in Threads, DeleteEntity(t)
  PROVE QuietInv'
<1>1. /\ UNCHANGED <<edges, unlinked, quiet>> /\ pc[t] = "remove"
      /\ \A u \in Threads : pc[u] \notin CreatePcs
  BY DEF DeleteEntity, DeletePcs, QuietInv, Apart
<1>2. PICK l : l = local[t]
  OBVIOUS
<1>3. DeleteRefs(pc[t], l) /\ QuietDelete("remove", l)
  BY <1>1, <1>2 DEF RefInv, QuietInv, DeletePcs
<1>4. /\ Rows' = Rows \ {l.target} /\ \A id \in Rows' : entities'[id] = entities[id]
      /\ Finish(t, 200)
  BY <1>2 DEF DeleteEntity, Rows
<1>5. Neighbors({l.target}, l.rel) = {} /\ Incident(l.target) = {}
  BY <1>3 DEF QuietDelete
<1>6. ASSUME NEW id \in Rows' \ unlinked', NEW r \in entities'[id].refs
      PROVE r \in Rows' /\ <<r, id, "Produces">> \in edges'
  <2>1. id \in Rows \ unlinked /\ r \in entities[id].refs
    BY <1>1, <1>4
  <2>2. r # l.target
    BY <1>1, <1>3, <1>5, <2>1, NotReferred
  <2> QED
    BY <1>1, <1>4, <2>1, <2>2, RefsLead
<1>7. ASSUME NEW e \in edges' PROVE {e[1], e[2]} \subseteq Rows'
  <2>1. e \notin Incident(l.target)
    BY <1>5
  <2> QED
    BY <1>1, <1>4, <1>7, <2>1 DEF QuietInv, Incident
<1> QED
  BY <1>1, <1>4, <1>6, <1>7, DeleteQuiet

\* What disturbed the handlers once is not forgotten.
LEMMA QuietBefore ==
  ASSUME Typed, NEW t \in Threads, Post(t) \/ Delete(t) \/ Step(t) \/ LookupFails(t) \/ Fail(t), quiet'
  PROVE quiet /\ ~LookupFails(t) /\ ~Fail(t)
BY PostShape DEF Delete, Refuse, Step, LookupFails, Fail, Seek, Put, Reread, SeekEdge, PutEdge,
   Search, Judge, Gather, Unlink, DeleteEntity, Typed

LEMMA NextQuiet ==
  Typed /\ GoneOK /\ FeatureInv /\ LinkInv /\ RefInv /\ QuietInv /\ GoneInv /\ [Next]_vars
    => QuietInv' /\ GoneInv'
<1> SUFFICES ASSUME Typed, GoneOK, FeatureInv, LinkInv, RefInv, QuietInv, GoneInv, [Next]_vars
             PROVE QuietInv' /\ GoneInv'
  OBVIOUS
<1>1. CASE UNCHANGED vars
  <2>1. UNCHANGED <<entities, edges, pc, local, gone, unlinked, quiet>> /\ Rows' = Rows
    BY <1>1 DEF vars, Rows
  <2>2. QuietInv'
    BY <2>1 DEF QuietInv, Apart, QuietPost, QuietDelete, Neighbors, Incident, Leads, Puts
  <2> QED
    BY <2>1, <2>2 DEF GoneInv
<1>2. ASSUME NEW t \in Threads, quiet',
             Post(t) \/ Delete(t) \/ Step(t) \/ LookupFails(t) \/ Fail(t)
      PROVE QuietInv' /\ GoneInv'
  <2>1. quiet /\ ~LookupFails(t) /\ ~Fail(t)
    BY <1>2, QuietBefore
  <2>2. CASE Post(t) \/ Delete(t)
    BY <1>2, <2>1, <2>2, StartQuiet, DeleteStartsQuiet, GoneKept
  <2>3. CASE Seek(t) \/ Put(t) \/ Reread(t) \/ SeekEdge(t) \/ PutEdge(t)
    BY <1>2, <2>1, <2>3, SeekQuiet, PutQuiet, PutEdgeQuiet, GoneKept DEF Step
  <2>4. CASE Search(t) \/ Judge(t) \/ Gather(t) \/ Unlink(t) \/ DeleteEntity(t)
    BY <1>2, <2>1, <2>4, SearchQuiet, UnlinkQuiet, RemoveQuiet, GoneKept DEF Step
  <2> QED
    BY <1>2, <2>1, <2>2, <2>3, <2>4 DEF Step
<1>3. ~quiet' => QuietInv' /\ GoneInv'
  BY DEF QuietInv, GoneInv
<1> QED
  BY <1>1, <1>2, <1>3 DEF Next

LEMMA InitQuiet ==
  ASSUME \A c \in Catalogues : Complete(c), Init
  PROVE RefInv /\ QuietInv /\ GoneInv
<1>1. PICK c \in Catalogues : entities = c.entities /\ edges = c.edges
  BY DEF Init
<1>2. \A t \in Threads : pc[t] = "idle"
  BY DEF Init
<1>3. /\ \A id \in Rows : entities[id].refs \subseteq Rows
      /\ \A e \in edges : {e[1], e[2]} \subseteq Rows
  <2> DEFINE guids == DOMAIN c.entities
  <2>1. /\ \A id \in guids : c.entities[id].refs \subseteq guids
        /\ c.edges \subseteq guids \X guids \X Relations
    BY CataloguesAssumption
  <2>2. Rows = guids
    BY <1>1 DEF Rows
  <2> HIDE DEF guids
  <2> QED
    BY <1>1, <2>1, <2>2
<1>4. \A id \in Rows : \A r \in entities[id].refs :
        entities[r].type \notin {"Project", "Anchor"} /\ <<r, id, "Produces">> \in edges
  BY <1>1 DEF Complete, Rows
<1>5. RefInv
  BY <1>2, <1>4 DEF RefInv, RefKinds, MayBeMade, CreatePcs, DeletePcs
<1>6. QuietInv /\ GoneInv
  BY <1>2, <1>3, <1>4 DEF QuietInv, GoneInv, Apart, Leads, CreatePcs, DeletePcs
<1> QED
  BY <1>5, <1>6

\* As long as no request fails and no POST overlaps a DELETE, in however many
\* threads, no edge and no reference leads to an entity that is deleted.
THEOREM PurviewNothingDangles ==
  ASSUME \A c \in Catalogues : Complete(c)
  PROVE  Spec => []NothingDangles
<1>1. Init => RefInv /\ QuietInv /\ GoneInv
  BY InitQuiet
<1>2. Spec => []FeatureInv
  BY InitFeatures, NextFeatures, TypedAlways, PTL DEF Spec
<1>3. Spec => []RefInv
  BY <1>1, <1>2, NextRefs, TypedAlways, PTL DEF Spec
<1>4. Spec => []QuietInv
  BY <1>1, <1>2, <1>3, NextQuiet, LinkInvAlways, TypedAlways, GoneOKAlways, PTL DEF Spec
<1>5. QuietInv => NothingDangles
  BY DEF QuietInv, NothingDangles, Leads
<1> QED
  BY <1>4, <1>5, PTL

=============================================================================
