-------------------------- MODULE RegistrationProofs --------------------------
(***************************************************************************)
(* What register_features promises, however the calls of several processes  *)
(* interleave and wherever they break: the ids that objects keep lead to    *)
(* what the process defined, every project stays readable, and a call raises *)
(* only for a reason.  To the registry the processes are clients like any    *)
(* other: every step is a step of SqlRegistry.                               *)
(***************************************************************************)
EXTENDS Registration, FiniteSetTheorems, WellFoundedInduction, TLAPS

-----------------------------------------------------------------------------
(* The invariant *)

\* The type, and the qualified name, of the entity that an object becomes.
Kind(o) ==
  IF o = Project THEN "Project"
  ELSE IF o \in Sources THEN "Source"
  ELSE IF o \in Anchors THEN "Anchor"
  ELSE IF o \in Features THEN "AnchorFeature" ELSE "DerivedFeature"

QName(o) ==
  IF o = Project THEN <<Project>>
  ELSE IF o \in Features THEN <<Project, AnchorOf(o), o>> ELSE <<Project, o>>

\* The objects whose ids the request for an object names.
Prior(o) ==
  IF o \in Anchors THEN {SourceOf[o]}
  ELSE IF o \in Features THEN {AnchorOf(o)}
  ELSE IF o \in Derived THEN InputsOf[o] ELSE {}

\* Each row is what one object becomes, and of one project at most.
RowsOK == \A id \in Rows : \E o \in Objects \cup {Project} :
  entities[id].type = Kind(o) /\ entities[id].qn = QName(o) /\ entities[id].name = <<o>>

EndsExist == \A e \in edges : e[1] \in Rows /\ e[2] \in Rows

OneProject ==
  \A x \in Rows : \A a, b \in Registry!OfType({"Project"}) :
    <<a, x, "Contains">> \in edges /\ <<b, x, "Contains">> \in edges => a = b

\* What get_project looks up among the children of a project is there.
ProjectsOK ==
  \A a \in Registry!OfType({"Project"}) : \A x \in Rows :
    <<a, x, "Contains">> \in edges =>
      /\ entities[x].type = "Anchor" =>
           /\ \E i \in Rows : <<x, i, "Consumes">> \in edges
           /\ \A i \in Rows : <<x, i, "Contains">> \in edges => <<a, i, "Contains">> \in edges
      /\ entities[x].type \in {"Anchor", "DerivedFeature"} =>
           \A i \in Rows : <<x, i, "Consumes">> \in edges => <<a, i, "Contains">> \in edges

TablesOK == RowsOK /\ EndsExist /\ OneProject /\ ProjectsOK

\* An entity is what the process has under a name.
As(p, id, x) ==
  entities[id].name = <<x>> /\ (x \in Anchors \/ entities[id].def = script[p][x])

InputsAs(p, ids, o) ==
  /\ ids \subseteq Rows
  /\ \A i \in ids : \E u \in Uses(o) : As(p, i, u)
  /\ \A u \in Uses(o) : \E i \in ids : As(p, i, u)

\* What an id must lead to before an object keeps it.
Registered(p, o, id) ==
  /\ id \in Rows /\ entities[id].type = Kind(o) /\ As(p, id, o)
  /\ InputsAs(p, Registry!Neighbors({id}, "Consumes"), o)
  /\ <<project[p], id, "Contains">> \in edges

\* What the next objects need is there, on the way, or comes before them.
WorkOK(p) ==
  \A k \in DOMAIN work[p] : \A o \in Prior(work[p][k]) :
    marks[p][o] # 0 \/ sent[p] = o \/ \E j \in 1..(k - 1) : work[p][j] = o

MarksOK(p) == \A o \in Objects : marks[p][o] # 0 => Registered(p, o, marks[p][o])

ProjectOK(p) ==
  /\ project[p] # 0 => project[p] \in Registry!OfType({"Project"})
  /\ call[p] = "running" /\ sent[p] # Project => project[p] # 0

CallOK(p) ==
  /\ call[p] # "running" => sent[p] = Nothing /\ work[p] = <<>>
  /\ sent[p] = Nothing => pc[p] = "idle"
  /\ pc[p] \notin Registry!DeletePcs

Owners(p, o) ==
  IF o = Project THEN {}
  ELSE IF o \in Features THEN {project[p], marks[p][AnchorOf(o)]} ELSE {project[p]}

Inputs(p, o) ==
  IF o \in Anchors THEN {marks[p][SourceOf[o]]}
  ELSE IF o \in Features THEN Registry!Neighbors({marks[p][AnchorOf(o)]}, "Consumes")
  ELSE IF o \in Derived THEN {marks[p][i] : i \in InputsOf[o]} ELSE {}

Job(p, o) ==
  [type |-> Kind(o), qn |-> QName(o), name |-> <<o>>,
   def |-> IF o \in Anchors \cup {Project} THEN Registry!AnyDef ELSE script[p][o],
   owners |-> Owners(p, o), inputs |-> Inputs(p, o)]

\* The row that the handler of a POST is about to insert, its owners and inputs.
\* A project is inserted only by a process that has none.
JobOK(p) ==
  pc[p] # "idle" =>
    /\ creating[p] = Job(p, sent[p])
    /\ \A u \in Prior(sent[p]) : marks[p][u] # 0
    /\ pc[p] = "refs" => sent[p] \in Anchors \cup Derived
    /\ pc[p] = "commit" /\ sent[p] = Project => project[p] = 0

\* A response gives the id of what was asked for, or an error and its reason.
GoodAnswer(p) ==
  /\ sent[p] = Project =>
       /\ answer[p] \in Registry!OfType({"Project"})
       /\ project[p] # 0 => answer[p] = project[p]
  /\ sent[p] # Project => Registered(p, sent[p], answer[p])

ReplyOK(p) ==
  sent[p] # Nothing /\ pc[p] = "idle" =>
    \/ reply[p] = 200 /\ GoodAnswer(p)
    \/ reply[p] = 500 /\ faulted[p]
    \/ reply[p] = 500 /\ Cardinality(Registry!Named(QName(sent[p]))) > 1
    \/ /\ reply[p] = 409 /\ sent[p] \in Objects
       /\ \E id \in Registry!Named(QName(sent[p])) : entities[id].def # script[p][sent[p]]

ProcessOK(p) ==
  CallOK(p) /\ ProjectOK(p) /\ MarksOK(p) /\ WorkOK(p) /\ JobOK(p) /\ ReplyOK(p)

IInv == TypeOK /\ TablesOK /\ \A p \in Processes : ProcessOK(p)

-----------------------------------------------------------------------------
(* Objects and names *)

LEMMA Kinds ==
  /\ \A o \in Sources : o # Project /\ o \notin Anchors \cup Features \cup Derived
  /\ \A o \in Anchors : o # Project /\ o \notin Sources \cup Features \cup Derived
  /\ \A o \in Features : o # Project /\ o \notin Sources \cup Anchors \cup Derived
  /\ \A o \in Derived : o # Project /\ o \notin Sources \cup Anchors \cup Features
  /\ Project \notin Objects
BY ObjectsAssumption, KindsAssumption DEF Objects

LEMMA AnchorOfIs ==
  ASSUME NEW f \in Features
  PROVE  AnchorOf(f) \in Anchors /\ f \in Range(FeaturesOf[AnchorOf(f)])
BY DEF AnchorOf, Features

LEMMA AnchorIsThat ==
  ASSUME NEW a \in Anchors, NEW f \in Range(FeaturesOf[a])
  PROVE  f \in Features /\ AnchorOf(f) = a
<1>1. f \in Features
  BY DEF Features
<1> QED
  BY <1>1, AnchorOfIs, KindsAssumption

LEMMA PriorIsObject ==
  ASSUME NEW o \in Objects \cup {Project}
  PROVE  Prior(o) \subseteq Objects
BY AnchorOfIs, ObjectsAssumption DEF Prior, Objects

LEMMA UsesIs ==
  /\ \A o \in Anchors : Uses(o) = {SourceOf[o]}
  /\ \A o \in Features : Uses(o) = {SourceOf[AnchorOf(o)]}
  /\ \A o \in Derived : Uses(o) = InputsOf[o]
  /\ \A o \in Sources : Uses(o) = {}
BY Kinds DEF Uses

LEMMA QNameType ==
  ASSUME NEW o \in Objects \cup {Project}
  PROVE  QName(o) \in Seq(Objects \cup {Project}) \ {<<>>} /\ <<o>> \in Seq(Objects \cup {Project})
BY AnchorOfIs DEF QName, Objects

LEMMA QNameInjective ==
  ASSUME NEW x \in Objects \cup {Project}, NEW y \in Objects \cup {Project}, QName(x) = QName(y)
  PROVE  x = y
<1>1. \A o \in Objects \cup {Project} :
        /\ Len(QName(o)) = IF o = Project THEN 1 ELSE IF o \in Features THEN 3 ELSE 2
        /\ QName(o)[Len(QName(o))] = o
  BY Kinds DEF QName
<1> QED
  BY <1>1

-----------------------------------------------------------------------------
(* Requests *)

LEMMA RowsAreIssued ==
  ASSUME TypeOK
  PROVE  /\ Registry!Rows \subseteq Registry!Issued /\ 0 \notin Registry!Rows
         /\ nextId \notin Registry!Rows /\ nextId \notin Registry!Issued
BY DEF TypeOK, Registry!TypeOK, Registry!Rows, Registry!Issued

\* A row of a name and a type is what the object of that name becomes.
LEMMA RowOfObject ==
  ASSUME TablesOK, NEW id \in Rows, NEW o \in Objects \cup {Project},
         entities[id].name = <<o>> \/ entities[id].qn = QName(o)
  PROVE  entities[id].type = Kind(o) /\ entities[id].qn = QName(o) /\ entities[id].name = <<o>>
<1>1. PICK x \in Objects \cup {Project} :
        entities[id].type = Kind(x) /\ entities[id].qn = QName(x) /\ entities[id].name = <<x>>
  BY DEF TablesOK, RowsOK
<1>2. x = o
  BY <1>1, QNameInjective
<1> QED
  BY <1>1, <1>2

LEMMA ProjectRow ==
  ASSUME TablesOK, NEW id \in Registry!OfType({"Project"})
  PROVE  id \in Rows /\ entities[id].qn = <<Project>> /\ Registry!Readable(id)
<1>1. id \in Rows /\ entities[id].type = "Project"
  BY DEF Registry!OfType, Rows
<1>2. PICK x \in Objects \cup {Project} :
        entities[id].type = Kind(x) /\ entities[id].qn = QName(x) /\ entities[id].name = <<x>>
  BY <1>1 DEF TablesOK, RowsOK
<1>3. x = Project
  BY <1>1, <1>2 DEF Kind
<1> QED
  BY <1>1, <1>2, <1>3 DEF QName, Registry!Readable, Rows

LEMMA InputsTyped ==
  ASSUME TypeOK, NEW p \in Processes, NEW o \in Objects \cup {Project}
  PROVE  Inputs(p, o) \subseteq Registry!Issued
<1>1. \A x \in Objects : marks[p][x] \in Registry!Issued
  BY DEF TypeOK
<1>2. Prior(o) \subseteq Objects
  BY PriorIsObject
<1>3. Registry!Neighbors({marks[p][AnchorOf(o)]}, "Consumes") \subseteq Registry!Issued
  BY DEF Registry!Neighbors
<1> QED
  BY <1>1, <1>2, <1>3 DEF Inputs, Prior

LEMMA JobTyped ==
  ASSUME TypeOK, NEW p \in Processes, NEW o \in Objects \cup {Project}
  PROVE  Job(p, o) \in Registry!Creation
<1>1. Inputs(p, o) \subseteq Registry!Issued
  BY InputsTyped
<1>2. Owners(p, o) \subseteq Registry!Issued
  <2>1. project[p] \in Registry!Issued /\ \A x \in Objects : marks[p][x] \in Registry!Issued
    BY DEF TypeOK
  <2>2. o \in Features => AnchorOf(o) \in Objects
    BY AnchorOfIs DEF Objects
  <2> QED
    BY <2>1, <2>2 DEF Owners
<1>3. Kind(o) \in Registry!EntityType
  BY DEF Kind, Registry!EntityType
<1>4. QName(o) \in Seq(Objects \cup {Project}) /\ <<o>> \in Seq(Objects \cup {Project})
  BY QNameType
<1>5. (IF o \in Anchors \cup {Project} THEN Registry!AnyDef ELSE script[p][o]) \in Defs
  <2>1. Registry!AnyDef \in Defs
    BY DefsAssumption DEF Registry!AnyDef
  <2>2. o \in Objects => script[p][o] \in Defs
    BY DEF TypeOK
  <2> QED
    BY <2>1, <2>2
<1> QED
  BY <1>1, <1>2, <1>3, <1>4, <1>5 DEF Job, Registry!Creation

\* Whatever a process posts passes the first check of the handler.
LEMMA PostStarts ==
  ASSUME TypeOK, TablesOK, NEW p \in Processes, ProcessOK(p), project[p] # 0,
         NEW o \in Objects, Post(p, o), \A u \in Prior(o) : marks[p][u] # 0
  PROVE  pc[p] = "idle" /\ UNCHANGED Registry!tables /\ Registry!Start(p, Job(p, o))
<1>1. pc[p] = "idle" /\ UNCHANGED Registry!tables
  BY DEF Post, Registry!Accept
<1>2. /\ project[p] \in Rows /\ entities[project[p]].qn = <<Project>>
      /\ Registry!Readable(project[p])
  BY ProjectRow DEF ProcessOK, ProjectOK
<1>3. CASE o \in Sources
  <2>1. Registry!CreateSource(p, project[p], <<o>>, script[p][o])
    BY <1>3, Kinds DEF Post
  <2>2. Job(p, o) = [type |-> "Source", qn |-> <<Project>> \o <<o>>, name |-> <<o>>,
                     def |-> script[p][o], owners |-> {project[p]}, inputs |-> {}]
    <3>1. o # Project /\ o \notin Features /\ Kind(o) = "Source"
      BY <1>3, Kinds DEF Kind
    <3>2. QName(o) = <<Project>> \o <<o>> /\ Owners(p, o) = {project[p]}
      BY <3>1 DEF QName, Owners
    <3>3. Inputs(p, o) = {}
      BY <1>3, Kinds DEF Inputs
    <3>4. o \notin Anchors
      BY <1>3, Kinds
    <3> QED
      BY <3>1, <3>2, <3>3, <3>4 DEF Job
  <2> QED
    BY <1>1, <1>2, <2>1, <2>2 DEF Registry!CreateSource
<1>4. CASE o \in Anchors
  <2>1. Registry!CreateAnchor(p, project[p], <<o>>, marks[p][SourceOf[o]])
    BY <1>4, Kinds DEF Post
  <2>2. Job(p, o) = [type |-> "Anchor", qn |-> <<Project>> \o <<o>>, name |-> <<o>>,
                     def |-> Registry!AnyDef, owners |-> {project[p]},
                     inputs |-> {marks[p][SourceOf[o]]}]
    <3>1. o # Project /\ o \notin Features /\ Kind(o) = "Anchor"
      BY <1>4, Kinds DEF Kind
    <3>2. QName(o) = <<Project>> \o <<o>> /\ Owners(p, o) = {project[p]}
      BY <3>1 DEF QName, Owners
    <3>3. Inputs(p, o) = {marks[p][SourceOf[o]]}
      BY <1>4, Kinds DEF Inputs
    <3>4. o \in Anchors
      BY <1>4, Kinds
    <3> QED
      BY <3>1, <3>2, <3>3, <3>4 DEF Job
  <2> QED
    BY <1>1, <1>2, <2>1, <2>2 DEF Registry!CreateAnchor
<1>5. CASE o \in Features
  <2>1. PICK a : a = AnchorOf(o)
    OBVIOUS
  <2>2. a \in Anchors /\ marks[p][a] # 0
    BY <1>5, <2>1, AnchorOfIs, Kinds DEF Prior
  <2>3. PICK id : id = marks[p][a]
    OBVIOUS
  <2>4. Registered(p, a, id)
    BY <2>2, <2>3 DEF ProcessOK, MarksOK, Objects
  <2>5. /\ id \in Rows /\ entities[id].name = <<a>>
        /\ \E i \in Registry!Neighbors({id}, "Consumes") : i \in Rows
    <3>1. Uses(a) = {SourceOf[a]}
      BY <2>2, UsesIs
    <3> QED
      BY <2>4, <3>1 DEF Registered, As, InputsAs
  <2>6. entities[id].type = "Anchor" /\ entities[id].qn = <<Project, a>>
    BY <2>2, <2>5, RowOfObject, Kinds DEF Kind, QName, Objects
  <2>7. Registry!Readable(id)
    BY <2>5 DEF Registry!Readable, Rows
  <2>8. Registry!CreateAnchorFeature(p, project[p], id, <<o>>, script[p][o])
    BY <1>5, <2>1, <2>3, Kinds DEF Post
  <2>9. Job(p, o) = [type |-> "AnchorFeature", qn |-> <<Project, a>> \o <<o>>, name |-> <<o>>,
                     def |-> script[p][o], owners |-> {project[p], id},
                     inputs |-> Registry!Neighbors({id}, "Consumes")]
    <3>1. /\ o # Project /\ o \notin Sources /\ o \notin Anchors
          /\ Kind(o) = "AnchorFeature" /\ QName(o) = <<Project, a>> \o <<o>>
      BY <1>5, <2>1, Kinds DEF Kind, QName
    <3>2. /\ Owners(p, o) = {project[p], id}
          /\ Inputs(p, o) = Registry!Neighbors({id}, "Consumes")
      BY <1>5, <2>1, <2>3, <3>1 DEF Owners, Inputs
    <3> QED
      BY <3>1, <3>2 DEF Job
  <2> QED
    BY <1>1, <2>6, <2>7, <2>8, <2>9 DEF Registry!CreateAnchorFeature
<1>6. CASE o \in Derived
  <2>1. Registry!CreateDerivedFeature(p, project[p], <<o>>, script[p][o],
                                      {marks[p][i] : i \in InputsOf[o]})
    BY <1>6, Kinds DEF Post
  <2>2. Job(p, o) = [type |-> "DerivedFeature", qn |-> <<Project>> \o <<o>>, name |-> <<o>>,
                     def |-> script[p][o], owners |-> {project[p]},
                     inputs |-> {marks[p][i] : i \in InputsOf[o]}]
    <3>1. o # Project /\ o \notin Features /\ Kind(o) = "DerivedFeature"
      BY <1>6, Kinds DEF Kind
    <3>2. QName(o) = <<Project>> \o <<o>> /\ Owners(p, o) = {project[p]}
      BY <3>1 DEF QName, Owners
    <3>3. Inputs(p, o) = {marks[p][i] : i \in InputsOf[o]}
      BY <1>6, Kinds DEF Inputs
    <3>4. o \notin Anchors
      BY <1>6, Kinds
    <3> QED
      BY <3>1, <3>2, <3>3, <3>4 DEF Job
  <2> QED
    BY <1>1, <1>2, <2>1, <2>2 DEF Registry!CreateDerivedFeature
<1> QED
  BY <1>3, <1>4, <1>5, <1>6 DEF Objects

-----------------------------------------------------------------------------
(* The order of the loop over anchor_list *)

LEMMA LeastNat ==
  ASSUME NEW T, T \subseteq Nat, T # {}
  PROVE  \E x \in T : \A y \in T : ~(y < x)
<1>1. \E x \in T : \A y \in T : ~ (<<y, x>> \in OpToRel(<, Nat))
  BY WFMin, NatLessThanWellFounded
<1> QED
  BY <1>1 DEF OpToRel


\* FlattenSeq puts the parts one behind the other.
LEMMA FlattenSteps ==
  ASSUME NEW seqs, NEW n \in Nat, Len(seqs) = n, n # 0
  PROVE  \E f : /\ f[1] = seqs[1] /\ \A i \in 2..n : f[i] = f[i - 1] \o seqs[i]
                /\ FlattenSeq(seqs) = f[n]
<1> DEFINE Flat(m, f) == f = [i \in 1..m |-> IF i = 1 THEN seqs[i] ELSE f[i - 1] \o seqs[i]]
           T == {m \in Nat : ~\E f : Flat(m, f)}
<1>1. T = {}
  <2> SUFFICES ASSUME T # {} PROVE FALSE
    OBVIOUS
  <2>1. PICK m \in T : \A k \in T : ~(k < m)
    <3>1. T \subseteq Nat
      OBVIOUS
    <3> QED
      BY <3>1, LeastNat
  <2>2. m # 0
    <3>1. \A f : f = [i \in 1..0 |-> seqs[1]] => Flat(0, f)
      OBVIOUS
    <3> QED
      BY <2>1, <3>1
  <2>3. m - 1 \in Nat /\ m \in Nat /\ m - 1 < m
    BY <2>1, <2>2
  <2>4. PICK f : Flat(m - 1, f)
    BY <2>1, <2>3
  <2>5. PICK g : g = [i \in 1..m |-> IF i = m THEN IF m = 1 THEN seqs[1] ELSE f[m - 1] \o seqs[m]
                                     ELSE f[i]]
    OBVIOUS
  <2>6. g = [i \in 1..m |-> g[i]]
    BY <2>5
  <2>7. ASSUME NEW i \in 1..m
        PROVE  g[i] = IF i = 1 THEN seqs[i] ELSE g[i - 1] \o seqs[i]
    <3>1. CASE i = m
      BY <2>3, <2>5, <3>1
    <3>2. CASE i # m
      <4>1. i \in 1..(m - 1) /\ g[i] = f[i] /\ (i # 1 => i - 1 \in 1..m /\ g[i - 1] = f[i - 1])
        BY <2>3, <2>5, <3>2
      <4>2. f[i] = IF i = 1 THEN seqs[i] ELSE f[i - 1] \o seqs[i]
        BY <2>4, <4>1
      <4> QED
        BY <4>1, <4>2
    <3> QED
      BY <3>1, <3>2
  <2>8. Flat(m, g)
    BY <2>6, <2>7
  <2> QED
    BY <2>1, <2>8
<1>2. \E f : Flat(n, f)
  <2>1. n \notin T
    BY <1>1
  <2> QED
    BY <2>1
<1>3. PICK f : f = CHOOSE g : Flat(n, g)
  OBVIOUS
<1>4. Flat(n, f)
  BY <1>2, <1>3
<1>5. FlattenSeq(seqs) = f[n]
  BY <1>3 DEF FlattenSeq
<1>6. ASSUME NEW i \in 1..n PROVE f[i] = IF i = 1 THEN seqs[i] ELSE f[i - 1] \o seqs[i]
  BY <1>4
<1>7. f[1] = seqs[1] /\ \A i \in 2..n : f[i] = f[i - 1] \o seqs[i]
  <2>1. 1 \in 1..n /\ \A i \in 2..n : i \in 1..n /\ i # 1
    OBVIOUS
  <2> QED
    BY <1>6, <2>1
<1> QED
  BY <1>5, <1>7


\* Everything an object of a list needs comes before it.
Ordered(w) ==
  /\ w \in Seq(Objects \ Derived)
  /\ \A k \in 1..Len(w) : \A o \in Prior(w[k]) : \E j \in 1..(k - 1) : w[j] = o

LEMMA OrderedConcat ==
  ASSUME NEW v, NEW w, Ordered(v), Ordered(w)
  PROVE  Ordered(v \o w)
<1>1. PICK u : u = v \o w
  OBVIOUS
<1>2. /\ v \in Seq(Objects \ Derived) /\ w \in Seq(Objects \ Derived)
      /\ Len(v) \in Nat /\ Len(w) \in Nat
  BY DEF Ordered
<1>3. /\ u \in Seq(Objects \ Derived) /\ Len(u) = Len(v) + Len(w)
      /\ \A k \in 1..Len(v) : u[k] = v[k]
      /\ \A k \in 1..Len(w) : u[Len(v) + k] = w[k]
  BY <1>1, <1>2
<1>4. ASSUME NEW k \in 1..Len(u), NEW o \in Prior(u[k])
      PROVE  \E j \in 1..(k - 1) : u[j] = o
  <2>1. CASE k <= Len(v)
    <3>1. k \in 1..Len(v) /\ o \in Prior(v[k])
      BY <1>2, <1>3, <1>4, <2>1
    <3>2. PICK j \in 1..(k - 1) : v[j] = o
      BY <3>1 DEF Ordered
    <3>3. j \in 1..Len(v)
      BY <1>2, <3>1, <3>2
    <3> QED
      BY <1>3, <3>2, <3>3
  <2>2. CASE ~(k <= Len(v))
    <3>1. PICK i : i = k - Len(v)
      OBVIOUS
    <3>2. i \in 1..Len(w) /\ u[k] = w[i] /\ k = Len(v) + i
      BY <1>2, <1>3, <1>4, <2>2, <3>1
    <3>3. PICK j \in 1..(i - 1) : w[j] = o
      BY <1>4, <3>2 DEF Ordered
    <3>4. j \in 1..Len(w) /\ Len(v) + j \in 1..(k - 1)
      BY <1>2, <3>2, <3>3
    <3> QED
      BY <1>3, <3>3, <3>4
  <2> QED
    BY <2>1, <2>2
<1>5. Ordered(u)
  BY <1>3, <1>4 DEF Ordered
<1> QED
  BY <1>1, <1>5

LEMMA AnchorOrdered ==
  ASSUME NEW a \in Anchors
  PROVE  Ordered(<<SourceOf[a], a>> \o FeaturesOf[a])
<1>1. PICK fs : fs = FeaturesOf[a]
  OBVIOUS
<1>2. fs \in Seq(Features) /\ Len(fs) \in Nat
  BY <1>1, ObjectsAssumption
<1>3. SourceOf[a] \in Sources
  BY ObjectsAssumption
<1>4. PICK u : u = <<SourceOf[a], a>> \o fs
  OBVIOUS
<1>5. /\ Len(u) = 2 + Len(fs) /\ u[1] = SourceOf[a] /\ u[2] = a
      /\ \A k \in 1..Len(fs) : u[2 + k] = fs[k]
  BY <1>2, <1>4
<1>6. u \in Seq(Objects \ Derived)
  <2>1. Features \subseteq Objects \ Derived /\ Sources \cup Anchors \subseteq Objects \ Derived
    BY Kinds DEF Objects
  <2>2. fs \in Seq(Objects \ Derived)
    BY <1>2, <2>1
  <2>3. <<SourceOf[a], a>> \in Seq(Objects \ Derived)
    BY <1>3, <2>1
  <2> QED
    BY <1>4, <2>2, <2>3
<1>7. ASSUME NEW k \in 1..Len(u), NEW o \in Prior(u[k])
      PROVE  \E j \in 1..(k - 1) : u[j] = o
  <2>1. CASE k = 1
    BY <1>3, <1>5, <1>7, <2>1, Kinds DEF Prior
  <2>2. CASE k = 2
    BY <1>5, <1>7, <2>2 DEF Prior
  <2>3. CASE k \notin {1, 2}
    <3>1. k - 2 \in 1..Len(fs) /\ u[k] = fs[k - 2]
      BY <1>2, <1>5, <1>7, <2>3
    <3>2. u[k] \in Range(fs)
      BY <1>2, <3>1 DEF Range
    <3>3. u[k] \in Features /\ AnchorOf(u[k]) = a
      BY <1>1, <3>2, AnchorIsThat
    <3>4. o = a
      BY <1>7, <3>3, Kinds DEF Prior
    <3>5. 2 \in 1..(k - 1)
      BY <1>2, <1>5, <1>7, <2>3
    <3> QED
      BY <1>5, <3>4, <3>5
  <2> QED
    BY <2>1, <2>2, <2>3
<1>8. Ordered(u)
  BY <1>6, <1>7 DEF Ordered
<1> QED
  BY <1>1, <1>4, <1>8

LEMMA AnchorWorkOrdered ==
  ASSUME NEW anchors \in Seq(Anchors)
  PROVE  Ordered(AnchorWork(anchors))
<1>1. PICK n \in Nat : n = Len(anchors)
  OBVIOUS
<1>2. DOMAIN anchors = 1..n /\ \A i \in 1..n : anchors[i] \in Anchors
  BY <1>1
<1>3. PICK seqs : seqs = [i \in 1..n |->
                            <<SourceOf[anchors[i]], anchors[i]>> \o FeaturesOf[anchors[i]]]
  OBVIOUS
<1>4. Len(seqs) = n /\ \A i \in 1..n : Ordered(seqs[i])
  BY <1>2, <1>3, AnchorOrdered
<1>5. AnchorWork(anchors) = FlattenSeq(seqs)
  BY <1>2, <1>3 DEF AnchorWork
<1>6. CASE n = 0
  <2>1. seqs = <<>>
    BY <1>3, <1>6
  <2>2. AnchorWork(anchors) = <<>>
    BY <1>5, <2>1 DEF FlattenSeq
  <2> QED
    BY <2>2 DEF Ordered
<1>7. CASE n # 0
  <2>1. PICK f : /\ f[1] = seqs[1] /\ \A i \in 2..n : f[i] = f[i - 1] \o seqs[i]
                 /\ FlattenSeq(seqs) = f[n]
    BY <1>4, <1>7, FlattenSteps
  <2> DEFINE T == {i \in 1..n : ~Ordered(f[i])}
  <2>2. T = {}
    <3> SUFFICES ASSUME T # {} PROVE FALSE
      OBVIOUS
    <3>1. PICK i \in T : \A k \in T : ~(k < i)
      <4>1. T \subseteq Nat
        OBVIOUS
      <4> QED
        BY <4>1, LeastNat
    <3>2. CASE i = 1
      BY <1>4, <2>1, <3>1, <3>2
    <3>3. CASE i # 1
      <4>1. i \in 2..n /\ i - 1 \in 1..n /\ i - 1 < i /\ i \in 1..n
        BY <3>1, <3>3
      <4>2. Ordered(f[i - 1]) /\ Ordered(seqs[i])
        BY <1>4, <3>1, <4>1
      <4>3. Ordered(f[i - 1] \o seqs[i])
        BY <4>2, OrderedConcat
      <4> QED
        BY <2>1, <3>1, <4>1, <4>3
    <3> QED
      BY <3>2, <3>3
  <2>3. n \in 1..n
    BY <1>7
  <2> QED
    BY <1>5, <2>1, <2>2, <2>3
<1> QED
  BY <1>6, <1>7
-----------------------------------------------------------------------------
(* What a step leaves alone *)

\* No row changes or goes, and what a row consumes is fixed when it appears.
Grows ==
  /\ \A id \in Rows : id \in Rows' /\ entities'[id] = entities[id]
  /\ edges \subseteq edges'
  /\ \A id \in Rows :
       Registry!Neighbors({id}, "Consumes")' = Registry!Neighbors({id}, "Consumes")

Still(p) ==
  /\ script'[p] = script[p] /\ marks'[p] = marks[p] /\ project'[p] = project[p]
  /\ work'[p] = work[p] /\ sent'[p] = sent[p] /\ answer'[p] = answer[p]
  /\ call'[p] = call[p] /\ faulted'[p] = faulted[p]
  /\ pc'[p] = pc[p] /\ creating'[p] = creating[p] /\ reply'[p] = reply[p]

LEMMA TablesStay ==
  ASSUME UNCHANGED Registry!tables
  PROVE  /\ Grows /\ Rows' = Rows /\ Registry!Issued' = Registry!Issued
         /\ TablesOK => TablesOK'
<1>1. entities' = entities /\ edges' = edges /\ nextId' = nextId
  BY DEF Registry!tables
<1>2. Rows' = Rows /\ Registry!Issued' = Registry!Issued
  BY <1>1 DEF Rows, Registry!Rows, Registry!Issued
<1>3. Grows
  BY <1>1, <1>2 DEF Grows, Registry!Neighbors
<1>4. ASSUME TablesOK PROVE TablesOK'
  <2>1. Registry!OfType({"Project"})' = Registry!OfType({"Project"})
    BY <1>1 DEF Registry!OfType, Registry!Rows
  <2>2. RowsOK' /\ EndsExist' /\ OneProject'
    BY <1>1, <1>2, <1>4, <2>1 DEF TablesOK, RowsOK, EndsExist, OneProject
  <2>3. ProjectsOK'
    BY <1>1, <1>2, <1>4, <2>1 DEF TablesOK, ProjectsOK
  <2> QED
    BY <2>2, <2>3 DEF TablesOK
<1> QED
  BY <1>2, <1>3, <1>4

LEMMA RegisteredStays ==
  ASSUME Grows, NEW p \in Processes, NEW o \in Objects, NEW id, Registered(p, o, id),
         script'[p] = script[p], project'[p] = project[p]
  PROVE  Registered(p, o, id)'
<1>1. PICK ids : ids = Registry!Neighbors({id}, "Consumes")
  OBVIOUS
<1>2. id \in Rows /\ id \in Rows' /\ entities'[id] = entities[id] /\ ids \subseteq Rows
  BY <1>1 DEF Registered, InputsAs, Grows
<1>3. Registry!Neighbors({id}, "Consumes")' = ids
  BY <1>1, <1>2 DEF Grows
<1>4. \A i \in Rows : \A x : As(p, i, x)' <=> As(p, i, x)
  BY DEF As, Grows
<1>5. Uses(o)' = Uses(o)
  BY DEF Uses
<1>6. InputsAs(p, ids, o)'
  <2>1. InputsAs(p, ids, o)
    BY <1>1 DEF Registered
  <2> QED
    BY <1>2, <1>4, <1>5, <2>1 DEF InputsAs, Grows
<1>7. <<project'[p], id, "Contains">> \in edges'
  BY DEF Registered, Grows
<1> QED
  BY <1>2, <1>3, <1>4, <1>6, <1>7 DEF Registered

LEMMA NamedIsFinite ==
  ASSUME TypeOK, NEW qn
  PROVE  IsFiniteSet(Registry!Named(qn))
<1>1. Registry!Named(qn) \subseteq 1..(nextId - 1) /\ nextId - 1 \in Int
  BY DEF TypeOK, Registry!TypeOK, Registry!Named, Registry!Rows
<1> QED
  BY <1>1, FS_Interval, FS_Subset

\* An error that was justified stays justified.
LEMMA NamedStay ==
  ASSUME TypeOK, TypeOK', Grows, NEW qn
  PROVE  /\ Registry!Named(qn) \subseteq Registry!Named(qn)'
         /\ Cardinality(Registry!Named(qn)) > 1 => Cardinality(Registry!Named(qn)') > 1
<1>1. Registry!Named(qn) \subseteq Registry!Named(qn)'
  BY DEF Grows, Registry!Named, Rows
<1>2. PICK S : S = Registry!Named(qn)
  OBVIOUS
<1>3. PICK T : T = Registry!Named(qn)'
  OBVIOUS
<1>4. IsFiniteSet(S)
  BY <1>2, NamedIsFinite
<1>5. IsFiniteSet(T)
  <2>1. PICK n : n = nextId' - 1
    OBVIOUS
  <2>2. T \subseteq 1..n /\ n \in Int
    BY <1>3, <2>1 DEF TypeOK, Registry!TypeOK, Registry!Named, Registry!Rows
  <2> QED
    <3>1. IsFiniteSet(1..n)
      BY <2>2, FS_Interval
    <3>2. T \in SUBSET (1..n)
      BY <2>2
    <3> QED
      BY <3>1, <3>2, FS_Subset
<1>6. Cardinality(S) <= Cardinality(T) /\ Cardinality(S) \in Nat /\ Cardinality(T) \in Nat
  BY <1>1, <1>2, <1>3, <1>4, <1>5, FS_Subset, FS_CardinalityType
<1> QED
  BY <1>1, <1>2, <1>3, <1>6

LEMMA ProjectsStay ==
  ASSUME Grows
  PROVE  Registry!OfType({"Project"}) \subseteq Registry!OfType({"Project"})'
BY DEF Grows, Registry!OfType, Rows

LEMMA MarksStay ==
  ASSUME Grows, NEW p \in Processes, MarksOK(p),
         script'[p] = script[p], project'[p] = project[p], marks'[p] = marks[p]
  PROVE  MarksOK(p)'
<1> SUFFICES ASSUME NEW o \in Objects, marks'[p][o] # 0
             PROVE  Registered(p, o, marks[p][o])'
  BY DEF MarksOK
<1>1. PICK id : id = marks[p][o]
  OBVIOUS
<1>2. Registered(p, o, id)
  BY <1>1 DEF MarksOK
<1>3. Registered(p, o, id)'
  BY <1>2, RegisteredStays
<1> QED
  BY <1>1, <1>3
\* The request of a process stays what it was when it was sent.
LEMMA JobStays ==
  ASSUME Grows, NEW p \in Processes, NEW o \in Objects \cup {Project}, MarksOK(p),
         \A u \in Prior(o) : marks[p][u] # 0,
         script'[p] = script[p], project'[p] = project[p], marks'[p] = marks[p]
  PROVE  Job(p, o)' = Job(p, o)
<1>1. Inputs(p, o)' = Inputs(p, o)
  <2>1. CASE o \in Features
    <3>1. PICK id : id = marks[p][AnchorOf(o)]
      OBVIOUS
    <3>2. AnchorOf(o) \in Objects /\ AnchorOf(o) \in Prior(o)
      BY <2>1, AnchorOfIs, Kinds DEF Prior, Objects
    <3>3. id \in Rows
      BY <3>1, <3>2 DEF MarksOK, Registered
    <3>4. Registry!Neighbors({id}, "Consumes")' = Registry!Neighbors({id}, "Consumes")
      BY <3>3 DEF Grows
    <3>5. /\ Inputs(p, o) = Registry!Neighbors({id}, "Consumes")
          /\ Inputs(p, o)' = Registry!Neighbors({id}, "Consumes")'
      BY <2>1, <3>1, Kinds DEF Inputs
    <3> QED
      BY <3>4, <3>5
  <2>2. CASE o \notin Features
    BY <2>2 DEF Inputs
  <2> QED
    BY <2>1, <2>2
<1>2. Owners(p, o)' = Owners(p, o)
  BY DEF Owners
<1> QED
  BY <1>1, <1>2 DEF Job

\* Other processes, and the tables, do not change how a process stands.
LEMMA ProcessStays ==
  ASSUME TypeOK, TypeOK', Grows, NEW p \in Processes, Still(p), ProcessOK(p)
  PROVE  ProcessOK(p)'
<1>1. CallOK(p)'
  BY DEF ProcessOK, CallOK, Still
<1>2. ProjectOK(p)'
  BY ProjectsStay DEF ProcessOK, ProjectOK, Still
<1>3. MarksOK(p)'
  BY MarksStay DEF ProcessOK, Still
<1>4. WorkOK(p)'
  BY DEF ProcessOK, WorkOK, Still, Prior, AnchorOf
<1>5. JobOK(p)'
  <2> SUFFICES ASSUME pc[p] # "idle" PROVE JobOK(p)'
    BY DEF JobOK, Still
  <2>1. PICK o : o = sent[p]
    OBVIOUS
  <2>2. o \in Objects \cup {Project}
    BY <2>1 DEF TypeOK, ProcessOK, CallOK
  <2>3. /\ creating[p] = Job(p, o) /\ \A u \in Prior(o) : marks[p][u] # 0
        /\ pc[p] = "refs" => o \in Anchors \cup Derived
        /\ pc[p] = "commit" /\ o = Project => project[p] = 0
    BY <2>1 DEF ProcessOK, JobOK
  <2>4. Job(p, o)' = Job(p, o)
    BY <2>2, <2>3, JobStays DEF ProcessOK, Still
  <2>5. creating'[p] = creating[p] /\ pc'[p] = pc[p] /\ sent'[p] = o /\ marks'[p] = marks[p]
        /\ project'[p] = project[p]
    BY <2>1 DEF Still
  <2>6. Prior(o)' = Prior(o)
    BY DEF Prior, AnchorOf
  <2> QED
    BY <2>3, <2>4, <2>5, <2>6 DEF JobOK
<1>6. ReplyOK(p)'
  <2> SUFFICES ASSUME sent[p] # Nothing, pc[p] = "idle" PROVE ReplyOK(p)'
    BY DEF ReplyOK, Still
  <2>1. PICK o : o = sent[p]
    OBVIOUS
  <2>2. o \in Objects \cup {Project}
    BY <2>1 DEF TypeOK
  <2>3. PICK id : id = answer[p]
    OBVIOUS
  <2>4. CASE reply[p] = 200 /\ GoodAnswer(p)
    <3>1. o = Project => /\ id \in Registry!OfType({"Project"})'
                         /\ project[p] # 0 => id = project[p]
      BY <2>1, <2>3, <2>4, ProjectsStay DEF GoodAnswer
    <3>2. o # Project => Registered(p, o, id)'
      BY <2>1, <2>2, <2>3, <2>4, RegisteredStays DEF GoodAnswer, Still
    <3>3. GoodAnswer(p)'
      BY <2>1, <2>3, <3>1, <3>2 DEF GoodAnswer, Still
    <3> QED
      BY <2>4, <3>3 DEF ReplyOK, Still
  <2>5. CASE reply[p] = 500 /\ faulted[p]
    BY <2>5 DEF ReplyOK, Still
  <2>6. CASE reply[p] = 500 /\ Cardinality(Registry!Named(QName(sent[p]))) > 1
    <3>1. PICK qn : qn = QName(o)
      OBVIOUS
    <3>2. Cardinality(Registry!Named(qn)') > 1
      BY <2>1, <2>6, <3>1, NamedStay
    <3>3. QName(sent[p])' = qn
      BY <2>1, <3>1 DEF QName, AnchorOf, Still
    <3>4. Registry!Named(QName(sent[p]))' = Registry!Named(qn)'
      BY <3>3 DEF Registry!Named
    <3> QED
      BY <2>6, <3>2, <3>4 DEF ReplyOK, Still
  <2>7. CASE /\ reply[p] = 409 /\ sent[p] \in Objects
             /\ \E id2 \in Registry!Named(QName(sent[p])) :
                  entities[id2].def # script[p][sent[p]]
    <3>1. PICK qn : qn = QName(o)
      OBVIOUS
    <3>2. PICK x \in Registry!Named(qn) : entities[x].def # script[p][o]
      BY <2>1, <2>7, <3>1
    <3>3. x \in Registry!Named(qn)' /\ entities'[x] = entities[x]
      BY <3>2, NamedStay DEF Grows, Registry!Named, Rows
    <3>4. QName(sent[p])' = qn
      BY <2>1, <3>1 DEF QName, AnchorOf, Still
    <3>5. Registry!Named(QName(sent[p]))' = Registry!Named(qn)'
      BY <3>4 DEF Registry!Named
    <3> QED
      BY <2>1, <2>7, <3>2, <3>3, <3>5 DEF ReplyOK, Still
  <2> QED
    BY <2>4, <2>5, <2>6, <2>7 DEF ProcessOK, ReplyOK
<1> QED
  BY <1>1, <1>2, <1>3, <1>4, <1>5, <1>6 DEF ProcessOK

\* A step is a step of one process.
LEMMA OneMoves ==
  ASSUME IInv, NEW p \in Processes, TypeOK', Grows, TablesOK', ProcessOK(p)',
         \A q \in Processes \ {p} : Still(q)
  PROVE  IInv'
<1>1. ASSUME NEW q \in Processes PROVE ProcessOK(q)'
  <2>1. CASE q = p
    BY <2>1
  <2>2. CASE q # p
    BY <2>2, ProcessStays DEF IInv
  <2> QED
    BY <2>1, <2>2
<1> QED
  BY <1>1 DEF IInv
-----------------------------------------------------------------------------
(* Types of the registry's variables *)

LEMMA NothingTyped ==
  ASSUME TypeOK
  PROVE  Registry!NoCreation \in Registry!Creation /\ Registry!NoDeletion \in Registry!Deletion
<1>1. 0 \in Registry!Issued
  BY DEF TypeOK, Registry!TypeOK, Registry!Issued
<1>2. Registry!AnyDef \in Defs
  BY DefsAssumption DEF Registry!AnyDef
<1> QED
  BY <1>1, <1>2 DEF Registry!NoCreation, Registry!Creation, Registry!NoDeletion,
                    Registry!Deletion, Registry!EntityType, Registry!RelationshipType

\* The tables and the locals of the other handlers keep their types.
LEMMA RegistryTyped ==
  ASSUME TypeOK, UNCHANGED Registry!tables,
         pc' \in [Processes -> {"idle"} \cup Registry!CreatePcs \cup Registry!DeletePcs],
         creating' \in [Processes -> Registry!Creation],
         deleting' \in [Processes -> Registry!Deletion],
         reply' \in [Processes -> Registry!Codes]
  PROVE  Registry!TypeOK'
<1>1. entities' = entities /\ edges' = edges /\ nextId' = nextId
  BY DEF Registry!tables
<1>2. Registry!Issued' = Registry!Issued
  BY <1>1 DEF Registry!Issued
<1>3. Registry!Creation' = Registry!Creation /\ Registry!Deletion' = Registry!Deletion
  BY <1>2 DEF Registry!Creation, Registry!Deletion
<1>4. /\ nextId \in Nat \ {0} /\ DOMAIN entities \subseteq 1..(nextId - 1)
      /\ entities \in [DOMAIN entities -> Registry!Entity]
      /\ edges \subseteq Registry!Issued \X Registry!Issued \X Registry!RelationshipType
  BY DEF TypeOK, Registry!TypeOK
<1> QED
  BY <1>1, <1>2, <1>3, <1>4 DEF Registry!TypeOK

LEMMA StartTyped ==
  ASSUME TypeOK, NEW p \in Processes, NEW job \in Registry!Creation,
         Registry!Start(p, job), UNCHANGED Registry!tables
  PROVE  Registry!TypeOK'
<1>1. /\ pc \in [Processes -> {"idle"} \cup Registry!CreatePcs \cup Registry!DeletePcs]
      /\ creating \in [Processes -> Registry!Creation]
      /\ deleting \in [Processes -> Registry!Deletion]
      /\ reply \in [Processes -> Registry!Codes]
  BY DEF TypeOK, Registry!TypeOK
<1>2. "check" \in Registry!CreatePcs /\ 0 \in Registry!Codes
  BY DEF Registry!CreatePcs, Registry!Codes
<1>3. /\ pc' \in [Processes -> {"idle"} \cup Registry!CreatePcs \cup Registry!DeletePcs]
      /\ creating' \in [Processes -> Registry!Creation]
      /\ deleting' \in [Processes -> Registry!Deletion]
      /\ reply' \in [Processes -> Registry!Codes]
  BY <1>1, <1>2 DEF Registry!Start, Registry!Goto
<1> QED
  BY <1>3, RegistryTyped

LEMMA FinishTyped ==
  ASSUME TypeOK, NEW p \in Processes, NEW code \in Registry!Codes,
         Registry!Finish(p, code), UNCHANGED Registry!tables
  PROVE  Registry!TypeOK'
<1>1. /\ pc \in [Processes -> {"idle"} \cup Registry!CreatePcs \cup Registry!DeletePcs]
      /\ creating \in [Processes -> Registry!Creation]
      /\ deleting \in [Processes -> Registry!Deletion]
      /\ reply \in [Processes -> Registry!Codes]
  BY DEF TypeOK, Registry!TypeOK
<1>2. /\ pc' \in [Processes -> {"idle"} \cup Registry!CreatePcs \cup Registry!DeletePcs]
      /\ creating' \in [Processes -> Registry!Creation]
      /\ deleting' \in [Processes -> Registry!Deletion]
      /\ reply' \in [Processes -> Registry!Codes]
  BY <1>1, NothingTyped DEF Registry!Finish
<1> QED
  BY <1>2, RegistryTyped

LEMMA AdvanceTyped ==
  ASSUME TypeOK, NEW p \in Processes, NEW label \in Registry!CreatePcs,
         Registry!Advance(p, label), UNCHANGED Registry!tables
  PROVE  Registry!TypeOK'
<1>1. /\ pc \in [Processes -> {"idle"} \cup Registry!CreatePcs \cup Registry!DeletePcs]
      /\ creating \in [Processes -> Registry!Creation]
      /\ deleting \in [Processes -> Registry!Deletion]
      /\ reply \in [Processes -> Registry!Codes] /\ 0 \in Registry!Codes
  BY DEF TypeOK, Registry!TypeOK, Registry!Codes
<1>2. /\ pc' \in [Processes -> {"idle"} \cup Registry!CreatePcs \cup Registry!DeletePcs]
      /\ creating' \in [Processes -> Registry!Creation]
      /\ deleting' \in [Processes -> Registry!Deletion]
      /\ reply' \in [Processes -> Registry!Codes]
  BY <1>1 DEF Registry!Advance, Registry!Goto
<1> QED
  BY <1>2, RegistryTyped

LEMMA RegistryStillTyped ==
  ASSUME TypeOK, UNCHANGED registryVars
  PROVE  Registry!TypeOK' /\ UNCHANGED Registry!tables
<1>1. UNCHANGED Registry!tables /\ UNCHANGED <<pc, creating, deleting, reply>>
  BY DEF registryVars, Registry!tables
<1>2. /\ pc' \in [Processes -> {"idle"} \cup Registry!CreatePcs \cup Registry!DeletePcs]
      /\ creating' \in [Processes -> Registry!Creation]
      /\ deleting' \in [Processes -> Registry!Deletion]
      /\ reply' \in [Processes -> Registry!Codes]
  BY <1>1 DEF TypeOK, Registry!TypeOK
<1> QED
  BY <1>1, <1>2, RegistryTyped

-----------------------------------------------------------------------------
(* Steps of the client *)

\* The request that Send and SendDerived have in common.
LEMMA PostKeepsInv ==
  ASSUME IInv, NEW p \in Processes, NEW o \in Objects, Ready(p), Post(p, o),
         \A u \in Prior(o) : marks[p][u] # 0,
         sent' = [sent EXCEPT ![p] = o],
         UNCHANGED <<script, marks, project, answer, call, faulted, calls, faults>>,
         work' \in [Processes -> Seq(Objects \ Derived)],
         derived' \in [Processes -> SUBSET Derived],
         \A q \in Processes \ {p} : work'[q] = work[q],
         WorkOK(p)'
  PROVE  IInv'
<1>1. ProcessOK(p) /\ TypeOK /\ TablesOK
  BY DEF IInv
<1>2. o # Nothing /\ o # Project /\ Nothing # Project
  BY ObjectsAssumption
<1>3. project[p] # 0
  BY <1>1, <1>2 DEF ProcessOK, ProjectOK, Ready
<1>4. PICK job : job = Job(p, o)
  OBVIOUS
<1>5. pc[p] = "idle" /\ UNCHANGED Registry!tables /\ Registry!Start(p, job)
  BY <1>1, <1>3, <1>4, PostStarts
<1>6. TypeOK'
  <2>1. Registry!TypeOK'
    BY <1>1, <1>4, <1>5, JobTyped, StartTyped
  <2>2. Registry!Issued' = Registry!Issued
    BY <1>5, TablesStay
  <2> QED
    BY <1>1, <2>1, <2>2 DEF TypeOK
<1>7. Grows /\ TablesOK'
  BY <1>1, <1>5, TablesStay
<1>8. /\ pc'[p] = "check" /\ creating'[p] = job /\ sent'[p] = o
      /\ \A q \in Processes \ {p} :
           pc'[q] = pc[q] /\ creating'[q] = creating[q] /\ reply'[q] = reply[q] /\ sent'[q] = sent[q]
  BY <1>1, <1>5 DEF TypeOK, Registry!TypeOK, Registry!Start, Registry!Goto
<1>9. ProcessOK(p)'
  <2>1. CallOK(p)'
    BY <1>2, <1>8 DEF CallOK, Ready, Registry!DeletePcs
  <2>2. ProjectOK(p)'
    BY <1>1, <1>3, <1>7, ProjectsStay DEF ProcessOK, ProjectOK
  <2>3. MarksOK(p)'
    BY <1>1, <1>7, MarksStay DEF ProcessOK
  <2>4. JobOK(p)'
    <3>1. Job(p, o)' = job
      BY <1>1, <1>4, <1>7, JobStays DEF ProcessOK
    <3>2. Prior(o)' = Prior(o)
      BY DEF Prior, AnchorOf
    <3> QED
      BY <1>2, <1>8, <3>1, <3>2 DEF JobOK
  <2>5. ReplyOK(p)'
    BY <1>8 DEF ReplyOK
  <2> QED
    BY <2>1, <2>2, <2>3, <2>4, <2>5 DEF ProcessOK
<1>10. \A q \in Processes \ {p} : Still(q)
  BY <1>8 DEF Still
<1> QED
  BY <1>6, <1>7, <1>9, <1>10, OneMoves

LEMMA SendKeepsInv ==
  ASSUME IInv, NEW p \in Processes, Send(p)
  PROVE  IInv'
<1>1. TypeOK /\ ProcessOK(p)
  BY DEF IInv
<1>2. PICK w : w = work[p]
  OBVIOUS
<1>3. w \in Seq(Objects \ Derived) /\ Len(w) \in Nat
  BY <1>1, <1>2 DEF TypeOK
<1>4. PICK k \in DOMAIN w :
        /\ Upcoming(p, k) /\ Post(p, w[k])
        /\ work' = [work EXCEPT ![p] = SubSeq(w, k + 1, Len(w))]
        /\ sent' = [sent EXCEPT ![p] = w[k]]
  BY <1>2 DEF Send
<1>5. k \in 1..Len(w) /\ w[k] \in Objects \ Derived
  BY <1>3
<1>6. \A j \in 1..(k - 1) : marks[p][w[j]] # 0
  BY <1>2, <1>4 DEF Upcoming, Skips
<1>7. Ready(p) /\ UNCHANGED <<script, marks, project, derived, answer, call, faulted, calls, faults>>
  BY DEF Send
<1>8. sent[p] = Nothing
  BY <1>7 DEF Ready
<1>9. ASSUME NEW u \in Prior(w[k]) PROVE marks[p][u] # 0
  <2>1. u \in Objects /\ u # Nothing
    BY <1>5, PriorIsObject, ObjectsAssumption
  <2>2. marks[p][u] # 0 \/ \E j \in 1..(k - 1) : w[j] = u
    BY <1>1, <1>2, <1>4, <1>8, <1>9, <2>1 DEF ProcessOK, WorkOK
  <2> QED
    BY <1>6, <2>2
<1>10. PICK v : v = SubSeq(w, k + 1, Len(w))
  OBVIOUS
<1>11. /\ v \in Seq(Objects \ Derived) /\ Len(v) = Len(w) - k
       /\ \A i \in 1..Len(v) : v[i] = w[k + i]
  BY <1>3, <1>5, <1>10
<1>12. work' = [work EXCEPT ![p] = v]
  BY <1>4, <1>10
<1>13. work'[p] = v /\ sent'[p] = w[k] /\ marks' = marks
  BY <1>1, <1>4, <1>7, <1>12 DEF TypeOK
<1>14. WorkOK(p)'
  <2>1. ASSUME NEW i \in 1..Len(v), NEW u \in Prior(v[i])
        PROVE  marks[p][u] # 0 \/ w[k] = u \/ \E j \in 1..(i - 1) : v[j] = u
    <3>1. k + i \in 1..Len(w) /\ v[i] = w[k + i] /\ v[i] \in Objects
      BY <1>3, <1>5, <1>11
    <3>2. u \in Objects /\ u # Nothing
      BY <2>1, <3>1, PriorIsObject, ObjectsAssumption
    <3>3. marks[p][u] # 0 \/ \E j \in 1..((k + i) - 1) : w[j] = u
      <4>1. PICK m : m = k + i
        OBVIOUS
      <4>2. m \in DOMAIN work[p] /\ u \in Prior(work[p][m])
        BY <1>2, <1>3, <2>1, <3>1, <4>1
      <4>3. marks[p][u] # 0 \/ sent[p] = u \/ \E j \in 1..(m - 1) : work[p][j] = u
        BY <1>1, <4>2 DEF ProcessOK, WorkOK
      <4> QED
        BY <1>2, <1>8, <3>2, <4>1, <4>3
    <3>4. ASSUME NEW j \in 1..((k + i) - 1), w[j] = u
          PROVE  marks[p][u] # 0 \/ w[k] = u \/ \E h \in 1..(i - 1) : v[h] = u
      <4>1. CASE j < k
        <5>1. j \in 1..(k - 1)
          BY <1>3, <1>5, <1>11, <2>1, <3>4, <4>1
        <5> QED
          BY <1>6, <3>4, <5>1
      <4>2. CASE j = k
        BY <3>4, <4>2
      <4>3. CASE j > k
        <5>1. j - k \in 1..(i - 1) /\ j - k \in 1..Len(v) /\ k + (j - k) = j
          BY <1>3, <1>5, <1>11, <2>1, <3>4, <4>3
        <5>2. v[j - k] = u
          BY <1>11, <3>4, <5>1
        <5> QED
          BY <5>1, <5>2
      <4> QED
        BY <1>5, <3>4, <4>1, <4>2, <4>3
    <3> QED
      BY <3>3, <3>4
  <2>2. \A o : Prior(o)' = Prior(o)
    BY DEF Prior, AnchorOf
  <2>3. \A i \in DOMAIN v : \A u \in Prior(v[i]) :
          marks[p][u] # 0 \/ w[k] = u \/ \E j \in 1..(i - 1) : v[j] = u
    <3>1. DOMAIN v = 1..Len(v)
      BY <1>11
    <3> QED
      BY <2>1, <3>1
  <2> QED
    BY <1>13, <2>2, <2>3 DEF WorkOK
<1>15. work' \in [Processes -> Seq(Objects \ Derived)] /\ \A q \in Processes \ {p} : work'[q] = work[q]
  BY <1>1, <1>11, <1>12 DEF TypeOK
<1>16. derived' \in [Processes -> SUBSET Derived]
  BY <1>1, <1>7 DEF TypeOK
<1>17. PICK o : o = w[k]
  OBVIOUS
<1>18. o \in Objects /\ Post(p, o) /\ sent' = [sent EXCEPT ![p] = o] /\ \A u \in Prior(o) : marks[p][u] # 0
  BY <1>4, <1>5, <1>9, <1>17
<1> QED
  BY <1>7, <1>14, <1>15, <1>16, <1>18, PostKeepsInv

LEMMA SendDerivedKeepsInv ==
  ASSUME IInv, NEW p \in Processes, SendDerived(p)
  PROVE  IInv'
<1>1. TypeOK /\ ProcessOK(p)
  BY DEF IInv
<1>2. PICK d \in DerivedTodo(p) :
        /\ HasIds(p, d) /\ Post(p, d)
        /\ derived' = [derived EXCEPT ![p] = @ \ {d}]
        /\ sent' = [sent EXCEPT ![p] = d]
  BY DEF SendDerived
<1>3. Ready(p) /\ UNCHANGED <<script, marks, project, work, answer, call, faulted, calls, faults>>
  BY DEF SendDerived
<1>4. d \in Derived /\ d \in Objects
  BY <1>1, <1>2 DEF TypeOK, DerivedTodo, Objects
<1>5. \A u \in Prior(d) : marks[p][u] # 0
  BY <1>2, <1>4, Kinds DEF Prior, HasIds
<1>6. derived' \in [Processes -> SUBSET Derived] /\ work' \in [Processes -> Seq(Objects \ Derived)]
  BY <1>1, <1>2, <1>3 DEF TypeOK
<1>7. WorkOK(p)'
  <2>1. sent[p] = Nothing /\ work' = work /\ marks' = marks
    BY <1>3 DEF Ready
  <2>2. \A o : Prior(o)' = Prior(o)
    BY DEF Prior, AnchorOf
  <2>3. ASSUME NEW k \in DOMAIN work[p], NEW o \in Prior(work[p][k])
        PROVE  marks[p][o] # 0 \/ \E j \in 1..(k - 1) : work[p][j] = o
    <3>1. work[p][k] \in Objects
      BY <1>1 DEF TypeOK
    <3>2. o # Nothing
      BY <2>3, <3>1, PriorIsObject, ObjectsAssumption
    <3> QED
      BY <1>1, <2>1, <2>3, <3>2 DEF ProcessOK, WorkOK
  <2> QED
    BY <2>1, <2>2, <2>3 DEF WorkOK
<1> QED
  BY <1>2, <1>3, <1>4, <1>5, <1>6, <1>7, PostKeepsInv
\* However a call ends, what the process has ids for stays as it is.
LEMMA LeaveKeepsInv ==
  ASSUME IInv, NEW p \in Processes, NEW outcome \in {"returned", "raised"},
         pc[p] = "idle", Leave(p, outcome),
         UNCHANGED <<registryVars, script, marks, project, calls>>,
         answer' \in [Processes -> Registry!Issued],
         faulted' \in [Processes -> BOOLEAN], faults' \in 0..MaxFaults,
         \A q \in Processes \ {p} : answer'[q] = answer[q] /\ faulted'[q] = faulted[q]
  PROVE  IInv'
<1>1. ProcessOK(p) /\ TypeOK /\ TablesOK
  BY DEF IInv
<1>2. UNCHANGED registryVars
  OBVIOUS
<1>3. Registry!TypeOK' /\ UNCHANGED Registry!tables
  BY <1>1, <1>2, RegistryStillTyped
<1>4. /\ call' = [call EXCEPT ![p] = outcome] /\ sent' = [sent EXCEPT ![p] = Nothing]
      /\ work' = [work EXCEPT ![p] = <<>>] /\ derived' = [derived EXCEPT ![p] = {}]
  BY DEF Leave
<1>5. TypeOK'
  <2>1. Registry!Issued' = Registry!Issued
    BY <1>3, TablesStay
  <2> QED
    BY <1>1, <1>3, <1>4, <2>1 DEF TypeOK
<1>6. Grows /\ TablesOK'
  BY <1>1, <1>3, TablesStay
<1>7. call'[p] = outcome /\ sent'[p] = Nothing /\ work'[p] = <<>> /\ pc'[p] = "idle"
  BY <1>1, <1>2, <1>4 DEF TypeOK, registryVars
<1>8. ProcessOK(p)'
  <2>1. CallOK(p)' /\ JobOK(p)' /\ ReplyOK(p)' /\ WorkOK(p)'
    BY <1>7 DEF CallOK, JobOK, ReplyOK, WorkOK, Registry!DeletePcs
  <2>2. ProjectOK(p)'
    BY <1>1, <1>6, <1>7, ProjectsStay DEF ProcessOK, ProjectOK
  <2>3. MarksOK(p)'
    BY <1>1, <1>6, MarksStay DEF ProcessOK
  <2> QED
    BY <2>1, <2>2, <2>3 DEF ProcessOK
<1>9. \A q \in Processes \ {p} : Still(q)
  BY <1>1, <1>2, <1>4 DEF Still, TypeOK, registryVars
<1> QED
  BY <1>5, <1>6, <1>8, <1>9, OneMoves

LEMMA EndKeepsInv ==
  ASSUME IInv, NEW p \in Processes,
         InputHasNoId(p) \/ ReceiveError(p) \/ Return(p) \/ LoseAnswer(p)
  PROVE  IInv'
<1>1. ProcessOK(p) /\ TypeOK
  BY DEF IInv
<1>2. pc[p] = "idle"
  BY <1>1 DEF ProcessOK, CallOK, InputHasNoId, ReceiveError, Return, LoseAnswer, Ready, Answered
<1>3. CASE InputHasNoId(p)
  BY <1>1, <1>2, <1>3, LeaveKeepsInv DEF InputHasNoId, TypeOK
<1>4. CASE ReceiveError(p)
  BY <1>1, <1>2, <1>4, LeaveKeepsInv DEF ReceiveError, TypeOK
<1>5. CASE Return(p)
  BY <1>1, <1>2, <1>5, LeaveKeepsInv DEF Return, TypeOK
<1>6. CASE LoseAnswer(p)
  <2>1. /\ answer' = [answer EXCEPT ![p] = 0] /\ faulted' = [faulted EXCEPT ![p] = TRUE]
        /\ faults < MaxFaults /\ faults' = faults + 1 /\ Leave(p, "raised")
        /\ UNCHANGED <<registryVars, script, marks, project, calls>>
    BY <1>6 DEF LoseAnswer
  <2>2. 0 \in Registry!Issued
    BY <1>1 DEF TypeOK, Registry!TypeOK, Registry!Issued
  <2>3. faults' \in 0..MaxFaults
    BY <1>1, <2>1, LimitsAssumption DEF TypeOK
  <2> QED
    BY <1>1, <1>2, <2>1, <2>2, <2>3, LeaveKeepsInv DEF TypeOK
<1> QED
  BY <1>3, <1>4, <1>5, <1>6

LEMMA ReceiveKeepsInv ==
  ASSUME IInv, NEW p \in Processes, Receive(p)
  PROVE  IInv'
<1>1. ProcessOK(p) /\ TypeOK /\ TablesOK
  BY DEF IInv
<1>2. /\ call[p] = "running" /\ sent[p] # Nothing /\ pc[p] = "idle" /\ reply[p] = 200
      /\ sent' = [sent EXCEPT ![p] = Nothing] /\ answer' = [answer EXCEPT ![p] = 0]
      /\ UNCHANGED <<registryVars, script, work, derived, call, faulted, calls, faults>>
  BY DEF Receive, Answered
<1>3. Registry!TypeOK' /\ UNCHANGED Registry!tables
  BY <1>1, <1>2, RegistryStillTyped
<1>4. Registry!Issued' = Registry!Issued /\ Grows /\ TablesOK'
  BY <1>1, <1>3, TablesStay
<1>5. PICK o : o = sent[p]
  OBVIOUS
<1>6. PICK id : id = answer[p]
  OBVIOUS
<1>7. o \in Objects \cup {Project} /\ id \in Registry!Issued /\ 0 \in Registry!Issued
  BY <1>1, <1>2, <1>5, <1>6 DEF TypeOK, Registry!TypeOK, Registry!Issued
<1>8. GoodAnswer(p)
  BY <1>1, <1>2 DEF ProcessOK, ReplyOK
<1>9. /\ o = Project => project' = [project EXCEPT ![p] = id] /\ marks' = marks
      /\ o # Project => marks' = [marks EXCEPT ![p][o] = id] /\ project' = project
  BY <1>5, <1>6 DEF Receive
<1>10. TypeOK'
  <2>1. project' \in [Processes -> Registry!Issued]
    BY <1>1, <1>7, <1>9 DEF TypeOK
  <2>2. marks' \in [Processes -> [Objects -> Registry!Issued]]
    <3>1. CASE o = Project
      BY <1>1, <1>9, <3>1 DEF TypeOK
    <3>2. CASE o # Project
      <4>1. PICK m : m = marks
        OBVIOUS
      <4>2. m \in [Processes -> [Objects -> Registry!Issued]] /\ o \in Objects
        BY <1>1, <1>7, <3>2, <4>1 DEF TypeOK
      <4>3. [m EXCEPT ![p][o] = id] \in [Processes -> [Objects -> Registry!Issued]]
        BY <1>7, <4>2
      <4> QED
        BY <1>9, <3>2, <4>1, <4>3
    <3> QED
      BY <3>1, <3>2
  <2>3. answer' \in [Processes -> Registry!Issued]
    BY <1>1, <1>2, <1>7 DEF TypeOK
  <2> QED
    BY <1>1, <1>2, <1>3, <1>4, <2>1, <2>2, <2>3 DEF TypeOK
<1>11. /\ sent'[p] = Nothing /\ call'[p] = "running" /\ pc'[p] = "idle"
       /\ script'[p] = script[p] /\ work'[p] = work[p]
  BY <1>1, <1>2 DEF TypeOK, registryVars
<1>12. /\ o = Project => project'[p] = id
       /\ o # Project => marks'[p] = [marks[p] EXCEPT ![o] = id]
  BY <1>1, <1>9 DEF TypeOK
<1>13. CallOK(p)' /\ JobOK(p)' /\ ReplyOK(p)'
  BY <1>11 DEF CallOK, JobOK, ReplyOK, Registry!DeletePcs
<1>14. Project # Nothing
  BY ObjectsAssumption
<1>15. project'[p] # 0 /\ project'[p] \in Registry!OfType({"Project"})'
  <2>1. CASE o = Project
    <3>1. id \in Registry!OfType({"Project"})
      BY <1>5, <1>6, <1>8, <2>1 DEF GoodAnswer
    <3>2. id # 0
      BY <1>1, <3>1, ProjectRow, RowsAreIssued DEF Rows
    <3> QED
      BY <1>4, <1>12, <2>1, <3>1, <3>2, ProjectsStay
  <2>2. CASE o # Project
    BY <1>1, <1>2, <1>4, <1>5, <1>9, <2>2, ProjectsStay DEF ProcessOK, ProjectOK
  <2> QED
    BY <2>1, <2>2
<1>16. MarksOK(p)'
  <2>1. CASE o = Project /\ project[p] # 0
    <3>1. project'[p] = project[p] /\ marks'[p] = marks[p]
      BY <1>5, <1>6, <1>8, <1>9, <1>12, <2>1 DEF GoodAnswer
    <3> QED
      BY <1>1, <1>4, <1>11, <3>1, MarksStay DEF ProcessOK
  <2>2. CASE o = Project /\ project[p] = 0
    <3>1. \A x \in Objects : marks[p][x] = 0
      BY <1>1, <2>2, RowsAreIssued DEF ProcessOK, MarksOK, Registered, TablesOK, EndsExist, Rows
    <3>2. marks' = marks
      BY <1>9, <2>2
    <3> QED
      BY <3>1, <3>2 DEF MarksOK
  <2>3. CASE o # Project
    <3> SUFFICES ASSUME NEW x \in Objects, marks'[p][x] # 0
                 PROVE  Registered(p, x, marks[p][x])'
      BY DEF MarksOK
    <3>1. PICK y : y = marks'[p][x]
      OBVIOUS
    <3>2. Registered(p, x, y)
      <4>1. CASE x = o
        <5>1. y = id
          BY <1>1, <1>12, <2>3, <3>1, <4>1 DEF TypeOK
        <5> QED
          BY <1>5, <1>6, <1>8, <2>3, <4>1, <5>1 DEF GoodAnswer
      <4>2. CASE x # o
        <5>1. y = marks[p][x]
          BY <1>1, <1>12, <2>3, <3>1, <4>2 DEF TypeOK
        <5> QED
          BY <1>1, <3>1, <5>1 DEF ProcessOK, MarksOK
      <4> QED
        BY <4>1, <4>2
    <3>3. Registered(p, x, y)'
      BY <1>4, <1>9, <1>11, <2>3, <3>2, RegisteredStays
    <3> QED
      BY <3>1, <3>3
  <2> QED
    BY <2>1, <2>2, <2>3
<1>17. WorkOK(p)'
  <2>1. ASSUME NEW k \in DOMAIN work[p], NEW u \in Prior(work[p][k])
        PROVE  marks'[p][u] # 0 \/ \E j \in 1..(k - 1) : work[p][j] = u
    <3>1. work[p][k] \in Objects
      BY <1>1 DEF TypeOK
    <3>2. u \in Objects
      BY <2>1, <3>1, PriorIsObject
    <3>3. marks[p][u] # 0 \/ o = u \/ \E j \in 1..(k - 1) : work[p][j] = u
      BY <1>1, <1>5, <2>1 DEF ProcessOK, WorkOK
    <3>4. CASE o = u
      <4>1. o # Project
        BY <3>2, <3>4, ObjectsAssumption
      <4>2. id # 0
        BY <1>1, <1>5, <1>6, <1>8, <4>1, RowsAreIssued DEF GoodAnswer, Registered, Rows
      <4>3. marks'[p][u] = id
        BY <1>1, <1>12, <3>2, <3>4, <4>1 DEF TypeOK
      <4> QED
        BY <4>2, <4>3
    <3>5. CASE o # u /\ marks[p][u] # 0
      <4>1. marks'[p][u] = marks[p][u]
        BY <1>1, <1>9, <1>12, <3>2, <3>5 DEF TypeOK
      <4> QED
        BY <3>5, <4>1
    <3> QED
      BY <3>3, <3>4, <3>5
  <2>2. \A x : Prior(x)' = Prior(x)
    BY DEF Prior, AnchorOf
  <2> QED
    BY <1>11, <2>1, <2>2 DEF WorkOK
<1>18. ProcessOK(p)'
  BY <1>13, <1>15, <1>16, <1>17 DEF ProcessOK, ProjectOK
<1>19. \A q \in Processes \ {p} : Still(q)
  <2>1. \A q \in Processes \ {p} : project'[q] = project[q] /\ marks'[q] = marks[q]
    BY <1>1, <1>9 DEF TypeOK
  <2> QED
    BY <1>1, <1>2, <2>1 DEF Still, TypeOK, registryVars
<1> QED
  BY <1>4, <1>10, <1>18, <1>19, OneMoves

LEMMA CallKeepsInv ==
  ASSUME IInv, NEW p \in Processes, Call(p)
  PROVE  IInv'
<1>1. ProcessOK(p) /\ TypeOK /\ TablesOK
  BY DEF IInv
<1>2. PICK n \in Notebooks :
        /\ \/ marks' = [marks EXCEPT ![p] = Unmarked]
           \/ n.script = script[p] /\ UNCHANGED marks
        /\ script' = [script EXCEPT ![p] = n.script]
        /\ work' = [work EXCEPT ![p] = AnchorWork(n.anchors)]
        /\ derived' = [derived EXCEPT ![p] = n.derived]
  BY DEF Call
<1>3. /\ sent' = [sent EXCEPT ![p] = Project] /\ call' = [call EXCEPT ![p] = "running"]
      /\ faulted' = [faulted EXCEPT ![p] = FALSE] /\ calls < MaxCalls /\ calls' = calls + 1
      /\ UNCHANGED <<project, answer, faults>>
  BY DEF Call
<1>4. PICK job : job = Job(p, Project)
  OBVIOUS
<1>5. UNCHANGED Registry!tables /\ Registry!Start(p, job)
  <2>1. job = [type |-> "Project", qn |-> <<Project>>, name |-> <<Project>>,
               def |-> Registry!AnyDef, owners |-> {}, inputs |-> {}]
    <3>1. Project \notin Objects
      BY Kinds
    <3>2. Inputs(p, Project) = {}
      BY <3>1 DEF Inputs, Objects
    <3> QED
      BY <1>4, <3>2 DEF Job, Kind, QName, Owners
  <2> QED
    BY <2>1 DEF Call, Registry!Accept, Registry!CreateProject
<1>6. n.anchors \in Seq(Anchors) /\ n.derived \subseteq Derived /\ n.script \in [Objects -> Defs]
  BY <1>2, NotebooksAssumption
<1>7. PICK w : w = AnchorWork(n.anchors)
  OBVIOUS
<1>8. Ordered(w)
  BY <1>6, <1>7, AnchorWorkOrdered
<1>9. work' = [work EXCEPT ![p] = w] /\ w \in Seq(Objects \ Derived)
  BY <1>2, <1>7, <1>8 DEF Ordered
<1>10. Registry!Issued' = Registry!Issued /\ Grows /\ TablesOK'
  BY <1>1, <1>5, TablesStay
<1>11. TypeOK'
  <2>1. Registry!TypeOK'
    BY <1>1, <1>4, <1>5, JobTyped, StartTyped
  <2>2. marks' \in [Processes -> [Objects -> Registry!Issued]]
    <3>1. 0 \in Registry!Issued
      BY <1>1 DEF TypeOK, Registry!TypeOK, Registry!Issued
    <3>2. Unmarked \in [Objects -> Registry!Issued]
      BY <3>1 DEF Unmarked
    <3> QED
      BY <1>1, <1>2, <3>2 DEF TypeOK
  <2>3. script' \in [Processes -> [Objects -> Defs]] /\ derived' \in [Processes -> SUBSET Derived]
    BY <1>1, <1>2, <1>6 DEF TypeOK
  <2>4. work' \in [Processes -> Seq(Objects \ Derived)]
    BY <1>1, <1>9 DEF TypeOK
  <2>5. calls' \in 0..MaxCalls
    BY <1>1, <1>3, LimitsAssumption DEF TypeOK
  <2> QED
    BY <1>1, <1>3, <1>10, <2>1, <2>2, <2>3, <2>4, <2>5 DEF TypeOK
<1>12. /\ sent'[p] = Project /\ call'[p] = "running" /\ work'[p] = w
       /\ script'[p] = n.script /\ project'[p] = project[p]
  BY <1>1, <1>2, <1>3, <1>9 DEF TypeOK
<1>13. pc'[p] = "check" /\ creating'[p] = job
  BY <1>1, <1>5 DEF TypeOK, Registry!TypeOK, Registry!Start, Registry!Goto
<1>14. ProcessOK(p)'
  <2>1. CallOK(p)' /\ ReplyOK(p)'
    BY <1>12, <1>13, ObjectsAssumption DEF CallOK, ReplyOK, Registry!DeletePcs
  <2>2. ProjectOK(p)'
    BY <1>1, <1>10, <1>12, ProjectsStay DEF ProcessOK, ProjectOK
  <2>3. MarksOK(p)'
    <3>1. CASE marks' = [marks EXCEPT ![p] = Unmarked]
      <4>1. \A o \in Objects : marks'[p][o] = 0
        BY <1>1, <3>1 DEF TypeOK, Unmarked
      <4> QED
        BY <4>1 DEF MarksOK
    <3>2. CASE n.script = script[p] /\ UNCHANGED marks
      BY <1>1, <1>10, <1>12, <3>2, MarksStay DEF ProcessOK
    <3> QED
      BY <1>2, <3>1, <3>2
  <2>4. WorkOK(p)'
    <3>1. \A k \in DOMAIN w : \A o \in Prior(w[k]) : \E j \in 1..(k - 1) : w[j] = o
      <4>1. DOMAIN w = 1..Len(w)
        BY <1>9
      <4> QED
        BY <1>8, <4>1 DEF Ordered
    <3>2. \A x : Prior(x)' = Prior(x)
      BY DEF Prior, AnchorOf
    <3> QED
      BY <1>12, <3>1, <3>2 DEF WorkOK
  <2>5. JobOK(p)'
    <3>1. Project \notin Objects
      BY Kinds
    <3>2. Job(p, Project)' = job
      <4>1. Inputs(p, Project) = {} /\ Inputs(p, Project)' = {}
        BY <3>1 DEF Inputs, Objects
      <4>2. Owners(p, Project) = {} /\ Owners(p, Project)' = {}
        BY DEF Owners
      <4>3. Kind(Project)' = Kind(Project) /\ QName(Project)' = QName(Project)
        BY DEF Kind, QName
      <4>4. Registry!AnyDef' = Registry!AnyDef
        BY DEF Registry!AnyDef
      <4> QED
        BY <1>4, <4>1, <4>2, <4>3, <4>4 DEF Job
    <3>3. Prior(Project)' = {}
      BY <3>1 DEF Prior, Objects
    <3>4. sent'[p] = Project /\ pc'[p] = "check" /\ creating'[p] = job
      BY <1>12, <1>13
    <3> QED
      BY <3>2, <3>3, <3>4 DEF JobOK
  <2> QED
    BY <2>1, <2>2, <2>3, <2>4, <2>5 DEF ProcessOK
<1>15. \A q \in Processes \ {p} : Still(q)
  <2>1. \A q \in Processes \ {p} : pc'[q] = pc[q] /\ creating'[q] = creating[q] /\ reply'[q] = reply[q]
    BY <1>1, <1>5 DEF TypeOK, Registry!TypeOK, Registry!Start, Registry!Goto
  <2>2. \A q \in Processes \ {p} : marks'[q] = marks[q]
    BY <1>1, <1>2 DEF TypeOK
  <2>3. \A q \in Processes \ {p} : script'[q] = script[q] /\ work'[q] = work[q]
    BY <1>1, <1>2 DEF TypeOK
  <2> QED
    BY <1>1, <1>3, <2>1, <2>2, <2>3 DEF Still, TypeOK
<1> QED
  BY <1>10, <1>11, <1>14, <1>15, OneMoves
-----------------------------------------------------------------------------
(* Steps of the server *)

\* Cardinality is one operator, whichever module asks.
LEMMA SameCardinality ==
  ASSUME NEW S
  PROVE  Registry!Cardinality(S) = Cardinality(S)
BY DEF Registry!Cardinality, Cardinality

LEMMA AtMostOne ==
  ASSUME NEW S, IsFiniteSet(S), ~(Cardinality(S) > 1), NEW x \in S, NEW y \in S
  PROVE  x = y
<1> SUFFICES ASSUME x # y PROVE FALSE
  OBVIOUS
<1>1. IsFiniteSet({x}) /\ Cardinality({x}) = 1
  BY FS_Singleton
<1>2. IsFiniteSet({x} \cup {y}) /\ Cardinality({x} \cup {y}) = 2
  <2>1. PICK A : A = {x}
    OBVIOUS
  <2>2. y \notin A /\ IsFiniteSet(A) /\ Cardinality(A) = 1
    BY <1>1, <2>1
  <2>3. IsFiniteSet(A \cup {y}) /\ Cardinality(A \cup {y}) = Cardinality(A) + 1
    BY <2>2, FS_AddElement
  <2> QED
    BY <2>1, <2>2, <2>3
<1>3. {x} \cup {y} \in SUBSET S
  OBVIOUS
<1>4. 2 <= Cardinality(S) /\ Cardinality(S) \in Nat
  BY <1>2, <1>3, FS_Subset, FS_CardinalityType
<1> QED
  BY <1>4

\* What is posted while a handler runs.
LEMMA Posted ==
  ASSUME IInv, NEW p \in Processes, pc[p] # "idle"
  PROVE  /\ sent[p] \in Objects \cup {Project} /\ call[p] = "running"
         /\ creating[p] = Job(p, sent[p])
         /\ \A u \in Prior(sent[p]) : u \in Objects /\ Registered(p, u, marks[p][u])
         /\ sent[p] # Project => project[p] \in Registry!OfType({"Project"})
<1>1. TypeOK /\ ProcessOK(p)
  BY DEF IInv
<1>2. sent[p] # Nothing /\ call[p] = "running" /\ creating[p] = Job(p, sent[p])
  BY <1>1 DEF ProcessOK, CallOK, JobOK
<1>3. sent[p] \in Objects \cup {Project}
  BY <1>1, <1>2 DEF TypeOK
<1>4. \A u \in Prior(sent[p]) : u \in Objects /\ marks[p][u] # 0
  BY <1>1, <1>3, PriorIsObject DEF ProcessOK, JobOK
<1> QED
  BY <1>1, <1>2, <1>3, <1>4 DEF ProcessOK, MarksOK, ProjectOK

\* A step of a handler that writes nothing.
LEMMA ServerKeepsInv ==
  ASSUME IInv, NEW p \in Processes, UNCHANGED Registry!tables, Registry!TypeOK',
         UNCHANGED <<script, marks, project, work, derived, sent, call, calls>>,
         answer' \in [Processes -> Registry!Issued],
         faulted' \in [Processes -> BOOLEAN], faults' \in 0..MaxFaults,
         \A q \in Processes \ {p} :
           /\ pc'[q] = pc[q] /\ creating'[q] = creating[q] /\ reply'[q] = reply[q]
           /\ answer'[q] = answer[q] /\ faulted'[q] = faulted[q],
         pc[p] # "idle", pc'[p] \in {"idle", "refs", "commit"}, JobOK(p)', ReplyOK(p)'
  PROVE  IInv'
<1>1. TypeOK /\ TablesOK /\ ProcessOK(p)
  BY DEF IInv
<1>2. Registry!Issued' = Registry!Issued /\ Grows /\ TablesOK'
  BY <1>1, TablesStay
<1>3. TypeOK'
  BY <1>1, <1>2 DEF TypeOK
<1>4. CallOK(p)'
  BY <1>1 DEF ProcessOK, CallOK, Registry!DeletePcs
<1>5. ProjectOK(p)' /\ MarksOK(p)'
  BY <1>1, <1>2, ProjectsStay, MarksStay DEF ProcessOK, ProjectOK
<1>6. WorkOK(p)'
  BY <1>1 DEF ProcessOK, WorkOK, Prior, AnchorOf
<1>7. \A q \in Processes \ {p} : Still(q)
  BY DEF Still
<1> QED
  BY <1>2, <1>3, <1>4, <1>5, <1>6, <1>7, OneMoves DEF ProcessOK

LEMMA BreakKeepsInv ==
  ASSUME IInv, NEW p \in Processes, Break(p)
  PROVE  IInv'
<1>1. TypeOK
  BY DEF IInv
<1>2. /\ faults < MaxFaults /\ faults' = faults + 1 /\ faulted' = [faulted EXCEPT ![p] = TRUE]
      /\ pc[p] # "idle" /\ Registry!Finish(p, 500) /\ UNCHANGED Registry!tables
      /\ UNCHANGED <<answer, script, marks, project, work, derived, sent, call, calls>>
  BY DEF Break, Registry!Fail
<1>3. Registry!TypeOK'
  BY <1>1, <1>2, FinishTyped DEF Registry!Codes
<1>4. Registry!Issued' = Registry!Issued
  BY <1>2, TablesStay
<1>5. faults' \in 0..MaxFaults /\ faulted' \in [Processes -> BOOLEAN]
  BY <1>1, <1>2, LimitsAssumption DEF TypeOK
<1>6. pc'[p] = "idle" /\ reply'[p] = 500 /\ faulted'[p] = TRUE
  BY <1>1, <1>2 DEF TypeOK, Registry!TypeOK, Registry!Finish
<1>7. JobOK(p)' /\ ReplyOK(p)'
  BY <1>6 DEF JobOK, ReplyOK
<1>8. \A q \in Processes \ {p} :
        /\ pc'[q] = pc[q] /\ creating'[q] = creating[q] /\ reply'[q] = reply[q]
        /\ answer'[q] = answer[q] /\ faulted'[q] = faulted[q]
  BY <1>1, <1>2 DEF TypeOK, Registry!TypeOK, Registry!Finish
<1>9. answer' \in [Processes -> Registry!Issued]
  BY <1>1, <1>2 DEF TypeOK
<1> QED
  BY <1>2, <1>3, <1>5, <1>6, <1>7, <1>8, <1>9, ServerKeepsInv

\* The answer that a step of a handler gives when it writes nothing.
LEMMA AnswerTyped ==
  ASSUME TypeOK, NEW p \in Processes, nextId' = nextId,
         answer' = [answer EXCEPT ![p] =
                      IF nextId' # nextId THEN nextId
                      ELSE IF reply'[p] = 200
                           THEN CHOOSE id \in Registry!Named(creating[p].qn) : TRUE
                           ELSE 0],
         reply'[p] = 200 => Registry!Named(creating[p].qn) # {}
  PROVE  /\ answer' \in [Processes -> Registry!Issued]
         /\ \A q \in Processes \ {p} : answer'[q] = answer[q]
         /\ reply'[p] = 200 => answer'[p] \in Registry!Named(creating[p].qn)
<1>1. PICK a : a = IF reply'[p] = 200
                   THEN CHOOSE id \in Registry!Named(creating[p].qn) : TRUE ELSE 0
  OBVIOUS
<1>2. answer' = [answer EXCEPT ![p] = a]
  BY <1>1
<1>3. reply'[p] = 200 => a \in Registry!Named(creating[p].qn)
  BY <1>1
<1>4. a \in Registry!Issued
  <2>1. 0 \in Registry!Issued
    BY DEF TypeOK, Registry!TypeOK, Registry!Issued
  <2>2. Registry!Named(creating[p].qn) \subseteq Registry!Issued
    BY RowsAreIssued DEF Registry!Named
  <2> QED
    BY <1>1, <1>3, <2>1, <2>2
<1>5. PICK I : I = Registry!Issued
  OBVIOUS
<1>6. PICK old : old = answer
  OBVIOUS
<1>7. PICK new : new = [old EXCEPT ![p] = a]
  OBVIOUS
<1>8. old \in [Processes -> I] /\ a \in I
  BY <1>4, <1>5, <1>6 DEF TypeOK
<1>9. new \in [Processes -> I] /\ new[p] = a /\ \A q \in Processes \ {p} : new[q] = old[q]
  BY <1>7, <1>8
<1>10. answer' = new
  BY <1>2, <1>6, <1>7
<1> QED
  BY <1>3, <1>5, <1>6, <1>9, <1>10

\* A step that neither inserts a row nor answers 200 has no id to answer with.
LEMMA NoAnswerTyped ==
  ASSUME TypeOK, NEW p \in Processes, Serve(p), nextId' = nextId, reply'[p] # 200
  PROVE  /\ answer' \in [Processes -> Registry!Issued]
         /\ \A q \in Processes \ {p} : answer'[q] = answer[q]
<1>1. answer' = [answer EXCEPT ![p] = 0]
  BY DEF Serve
<1>2. answer \in [Processes -> Registry!Issued] /\ 0 \in Registry!Issued
  BY DEF TypeOK, Registry!TypeOK, Registry!Issued
<1> QED
  BY <1>1, <1>2

LEMMA CheckKeepsInv ==
  ASSUME IInv, NEW p \in Processes, Serve(p), Registry!Check(p)
  PROVE  IInv'
<1>1. TypeOK /\ TablesOK /\ ProcessOK(p)
  BY DEF IInv
<1>2. pc[p] = "check" /\ UNCHANGED Registry!tables
  BY DEF Registry!Check
<1>3. PICK o : o = sent[p]
  OBVIOUS
<1>4. PICK job : job = Job(p, o)
  OBVIOUS
<1>5. /\ o \in Objects \cup {Project} /\ call[p] = "running" /\ creating[p] = job
      /\ \A u \in Prior(o) : u \in Objects /\ Registered(p, u, marks[p][u])
  BY <1>2, <1>3, <1>4, Posted
<1>6. /\ job.type = Kind(o) /\ job.qn = QName(o) /\ job.name = <<o>> /\ job.inputs = Inputs(p, o)
      /\ o \notin Anchors \cup {Project} => job.def = script[p][o]
  BY <1>4 DEF Job
<1>7. PICK same : same = Registry!Named(job.qn)
  OBVIOUS
<1>8. /\ same \subseteq Rows /\ IsFiniteSet(same)
      /\ \A id \in same : entities[id].type = Kind(o) /\ entities[id].name = <<o>>
  <2>1. same \subseteq Rows /\ \A id \in same : entities[id].qn = QName(o)
    BY <1>6, <1>7 DEF Registry!Named, Rows
  <2> QED
    BY <1>1, <1>5, <1>7, <2>1, NamedIsFinite, RowOfObject
<1>9. UNCHANGED clientVars /\ nextId' = nextId /\ entities' = entities /\ edges' = edges
  BY <1>2 DEF Serve, Registry!tables
<1>10. /\ UNCHANGED <<script, marks, project, work, derived, sent, call, calls, faulted, faults>>
       /\ faulted' \in [Processes -> BOOLEAN] /\ faults' \in 0..MaxFaults
  BY <1>1, <1>9 DEF clientVars, TypeOK
<1>11. /\ Grows /\ Registry!Named(QName(o))' = same /\ QName(o)' = QName(o)
       /\ Registry!OfType({"Project"})' = Registry!OfType({"Project"})
  <2>1. Grows
    BY <1>2, TablesStay
  <2>2. QName(o)' = QName(o)
    BY DEF QName, AnchorOf
  <2> QED
    BY <1>6, <1>7, <1>9, <2>1, <2>2 DEF Registry!Named, Registry!Rows, Registry!OfType
<1>12. ASSUME NEW code \in Registry!Codes, Registry!Finish(p, code), ReplyOK(p)',
              code = 200 => same # {}
       PROVE  IInv'
  <2>1. Registry!TypeOK'
    BY <1>1, <1>2, <1>12, FinishTyped
  <2>2. /\ pc'[p] = "idle" /\ reply'[p] = code
        /\ \A q \in Processes \ {p} :
             pc'[q] = pc[q] /\ creating'[q] = creating[q] /\ reply'[q] = reply[q]
    BY <1>1, <1>12 DEF TypeOK, Registry!TypeOK, Registry!Finish
  <2>3. /\ answer' \in [Processes -> Registry!Issued]
        /\ \A q \in Processes \ {p} : answer'[q] = answer[q]
    BY <1>1, <1>5, <1>7, <1>9, <1>12, <2>2, AnswerTyped DEF Serve
  <2>4. JobOK(p)'
    BY <2>2 DEF JobOK
  <2> QED
    BY <1>2, <1>10, <1>12, <2>1, <2>2, <2>3, <2>4, ServerKeepsInv
<1>13. ASSUME NEW label \in {"refs", "commit"}, Registry!Advance(p, label),
              label = "refs" => o \in Anchors \cup Derived,
              label = "commit" /\ o = Project => project[p] = 0
       PROVE  IInv'
  <2>1. label \in Registry!CreatePcs
    BY DEF Registry!CreatePcs
  <2>2. Registry!TypeOK'
    BY <1>1, <1>2, <1>13, <2>1, AdvanceTyped
  <2>3. /\ pc'[p] = label /\ creating'[p] = job /\ reply'[p] = 0
        /\ \A q \in Processes \ {p} :
             pc'[q] = pc[q] /\ creating'[q] = creating[q] /\ reply'[q] = reply[q]
    BY <1>1, <1>5, <1>13 DEF TypeOK, Registry!TypeOK, Registry!Advance, Registry!Goto
  <2>4. /\ answer' \in [Processes -> Registry!Issued]
        /\ \A q \in Processes \ {p} : answer'[q] = answer[q]
    <3>1. reply'[p] # 200
      BY <2>3
    <3> QED
      BY <1>1, <1>9, <3>1, NoAnswerTyped
  <2>5. JobOK(p)'
    <3>1. Job(p, o)' = job
      <4>1. \A u \in Prior(o) : marks[p][u] # 0
        BY <1>1, <1>2, <1>3 DEF ProcessOK, JobOK
      <4> QED
        BY <1>1, <1>4, <1>5, <1>10, <1>11, <4>1, JobStays DEF ProcessOK
    <3>2. Prior(o)' = Prior(o) /\ \A u \in Prior(o) : marks[p][u] # 0
      BY <1>1, <1>2, <1>3 DEF ProcessOK, JobOK, Prior, AnchorOf
    <3>3. sent'[p] = o /\ marks' = marks /\ project' = project
      BY <1>3, <1>10
    <3> QED
      BY <1>13, <2>3, <3>1, <3>2, <3>3 DEF JobOK
  <2>6. ReplyOK(p)'
    BY <2>3 DEF ReplyOK
  <2> QED
    BY <1>2, <1>10, <2>2, <2>3, <2>4, <2>5, <2>6, ServerKeepsInv
<1>14. /\ sent'[p] = o /\ script'[p] = script[p] /\ project'[p] = project[p]
       /\ Registry!Named(QName(sent[p]))' = same
  <2>1. sent'[p] = o /\ script'[p] = script[p] /\ project'[p] = project[p]
    BY <1>3, <1>10
  <2>2. QName(sent[p])' = QName(o)
    BY <2>1 DEF QName, AnchorOf
  <2> QED
    BY <1>6, <1>7, <1>9, <2>1, <2>2 DEF Registry!Named, Registry!Rows
<1>15. CASE Registry!Ambiguous(same) /\ Registry!Finish(p, 500)
  <2>1. pc'[p] = "idle" /\ reply'[p] = 500
    BY <1>1, <1>15 DEF TypeOK, Registry!TypeOK, Registry!Finish
  <2>2. ReplyOK(p)'
    BY <1>11, <1>14, <1>15, <2>1, SameCardinality DEF ReplyOK, Registry!Ambiguous
  <2> QED
    BY <1>12, <1>15, <2>2 DEF Registry!Codes
<1>16. CASE (\E id \in same : ~Registry!SameDefinition(id, job)) /\ Registry!Finish(p, 409)
  <2>1. pc'[p] = "idle" /\ reply'[p] = 409
    BY <1>1, <1>16 DEF TypeOK, Registry!TypeOK, Registry!Finish
  <2>2. PICK id \in same : ~Registry!SameDefinition(id, job)
    BY <1>16
  <2>3. job.type \notin {"Project", "Anchor"} /\ entities[id].def # job.def
    BY <1>6, <1>8, <2>2 DEF Registry!SameDefinition
  <2>4. o \notin Anchors \cup {Project}
    BY <1>6, <2>3, Kinds DEF Kind
  <2>5. o \in Objects /\ entities'[id].def # script'[p][o]
    BY <1>5, <1>6, <1>9, <1>14, <2>3, <2>4
  <2>6. ReplyOK(p)'
    BY <1>11, <1>14, <2>1, <2>5 DEF ReplyOK
  <2> QED
    BY <1>12, <1>16, <2>6 DEF Registry!Codes
<1>17. CASE /\ ~Registry!Ambiguous(same) /\ same # {} /\ Registry!ReturnsExisting(job)
            /\ Registry!Finish(p, 200)
  <2>1. pc'[p] = "idle" /\ reply'[p] = 200
    BY <1>1, <1>17 DEF TypeOK, Registry!TypeOK, Registry!Finish
  <2>2. o = Project
    BY <1>6, <1>17 DEF Registry!ReturnsExisting, Kind
  <2>3. answer'[p] \in same
    BY <1>1, <1>5, <1>7, <1>9, <1>17, <2>1, AnswerTyped DEF Serve
  <2>4. same \subseteq Registry!OfType({"Project"})
    BY <1>8, <2>2 DEF Kind, Registry!OfType, Rows
  <2>5. project[p] # 0 => project[p] \in same
    <3>1. QName(o) = <<Project>>
      BY <2>2 DEF QName
    <3>2. project[p] # 0 => project[p] \in Registry!OfType({"Project"})
      BY <1>1 DEF ProcessOK, ProjectOK
    <3>3. project[p] # 0 => project[p] \in Rows /\ entities[project[p]].qn = <<Project>>
      BY <1>1, <3>2, ProjectRow
    <3> QED
      BY <1>6, <1>7, <3>1, <3>3 DEF Registry!Named, Rows
  <2>6. PICK id : id = answer'[p]
    OBVIOUS
  <2>7. project[p] # 0 => id = project[p]
    <3>1. PICK y : y = project[p]
      OBVIOUS
    <3>2. ~(Cardinality(same) > 1) /\ id \in same /\ (y # 0 => y \in same)
      BY <1>17, <2>3, <2>5, <2>6, <3>1, SameCardinality DEF Registry!Ambiguous
    <3> QED
      BY <1>8, <3>1, <3>2, AtMostOne
  <2>8. GoodAnswer(p)'
    BY <1>11, <1>14, <2>2, <2>3, <2>4, <2>6, <2>7 DEF GoodAnswer
  <2>9. ReplyOK(p)'
    BY <2>1, <2>8 DEF ReplyOK
  <2> QED
    BY <1>12, <1>17, <2>9 DEF Registry!Codes
<1>18. CASE /\ same = {} \/ ~Registry!ReturnsExisting(job)
            /\ Registry!Proceed(p, job)
  <2>1. o = Project => project[p] = 0
    <3> SUFFICES ASSUME o = Project, project[p] # 0 PROVE FALSE
      OBVIOUS
    <3>1. project[p] \in Registry!OfType({"Project"})
      BY <1>1 DEF ProcessOK, ProjectOK
    <3>2. project[p] \in Rows /\ entities[project[p]].qn = <<Project>>
      BY <1>1, <3>1, ProjectRow
    <3>3. project[p] \in same
      BY <1>6, <1>7, <3>2 DEF Registry!Named, Rows, QName
    <3>4. Registry!ReturnsExisting(job)
      BY <1>6 DEF Registry!ReturnsExisting, Kind
    <3> QED
      BY <1>18, <3>3, <3>4
  <2>2. CASE job.type \in {"Project", "Source"} /\ Registry!Advance(p, "commit")
    BY <1>13, <2>1, <2>2
  <2>3. CASE job.type \in {"Anchor", "DerivedFeature"} /\ Registry!Advance(p, "refs")
    <3>1. o \in Anchors \cup Derived
      BY <1>5, <1>6, <2>3 DEF Kind, Objects
    <3> QED
      BY <1>13, <2>3, <3>1
  <2>4. CASE job.type = "AnchorFeature" /\ job.inputs # {} /\ Registry!Advance(p, "commit")
    BY <1>13, <2>1, <2>4
  <2>5. CASE job.type = "AnchorFeature" /\ job.inputs = {}
    <3>1. o \in Features
      BY <1>6, <2>5 DEF Kind
    <3>2. PICK a : a = AnchorOf(o)
      OBVIOUS
    <3>3. a \in Anchors /\ Prior(o) = {a} /\ o \notin Anchors
      BY <3>1, <3>2, AnchorOfIs, Kinds DEF Prior
    <3>4. Registered(p, a, marks[p][a])
      BY <1>5, <3>3
    <3>5. job.inputs = Registry!Neighbors({marks[p][a]}, "Consumes")
      BY <1>6, <3>1, <3>2, <3>3 DEF Inputs
    <3>6. Uses(a) = {SourceOf[a]}
      BY <3>3, UsesIs
    <3>7. job.inputs # {}
      BY <3>4, <3>5, <3>6 DEF Registered, InputsAs
    <3> QED
      BY <2>5, <3>7
  <2> QED
    BY <1>18, <2>2, <2>3, <2>4, <2>5 DEF Registry!Proceed
<1> QED
  BY <1>5, <1>7, <1>15, <1>16, <1>17, <1>18 DEF Registry!Check

LEMMA CheckRefsKeepsInv ==
  ASSUME IInv, NEW p \in Processes, Serve(p), Registry!CheckRefs(p)
  PROVE  IInv'
<1>1. TypeOK /\ TablesOK /\ ProcessOK(p)
  BY DEF IInv
<1>2. pc[p] = "refs" /\ UNCHANGED Registry!tables
  BY DEF Registry!CheckRefs
<1>3. PICK o : o = sent[p]
  OBVIOUS
<1>4. PICK job : job = Job(p, o)
  OBVIOUS
<1>5. /\ o \in Objects \cup {Project} /\ creating[p] = job
      /\ \A u \in Prior(o) : u \in Objects /\ Registered(p, u, marks[p][u])
  BY <1>2, <1>3, <1>4, Posted
<1>6. o \in Anchors \cup Derived /\ \A u \in Prior(o) : marks[p][u] # 0
  BY <1>1, <1>2, <1>3 DEF ProcessOK, JobOK
<1>7. job.type = Kind(o) /\ job.inputs = Inputs(p, o)
  BY <1>4 DEF Job
<1>8. Registry!RefsExist(job)
  <2>1. CASE o \in Anchors
    <3>1. PICK id : id = marks[p][SourceOf[o]]
      OBVIOUS
    <3>2. Registered(p, SourceOf[o], id)
      BY <1>5, <2>1, <3>1 DEF Prior
    <3>3. SourceOf[o] \in Sources
      BY <2>1, ObjectsAssumption
    <3>4. id \in Rows /\ entities[id].type = "Source"
      BY <3>2, <3>3, Kinds DEF Registered, Kind
    <3>5. job.inputs = {id} /\ job.type = "Anchor"
      BY <1>7, <2>1, <3>1, Kinds DEF Inputs, Kind
    <3> QED
      BY <3>4, <3>5 DEF Registry!RefsExist, Registry!OfType, Rows
  <2>2. CASE o \in Derived
    <3>1. ASSUME NEW i \in InputsOf[o]
          PROVE  marks[p][i] \in Registry!OfType(Registry!FeatureTypes)
      <4>1. i \in Features \cup Derived
        BY <2>2, ObjectsAssumption
      <4>2. i \in Prior(o)
        BY <2>2, Kinds DEF Prior
      <4>3. Registered(p, i, marks[p][i])
        BY <1>5, <4>2
      <4>4. Kind(i) \in {"AnchorFeature", "DerivedFeature"}
        BY <4>1, Kinds DEF Kind
      <4> QED
        BY <4>3, <4>4 DEF Registered, Registry!OfType, Registry!FeatureTypes, Rows
    <3>2. job.inputs = {marks[p][i] : i \in InputsOf[o]}
      BY <1>7, <2>2, Kinds DEF Inputs
    <3>3. job.type = "DerivedFeature"
      BY <1>7, <2>2, Kinds DEF Kind
    <3> QED
      BY <3>1, <3>2, <3>3 DEF Registry!RefsExist
  <2> QED
    BY <1>6, <2>1, <2>2
<1>9. Registry!Advance(p, "commit")
  BY <1>5, <1>8 DEF Registry!CheckRefs
<1>10. "commit" \in Registry!CreatePcs
  BY DEF Registry!CreatePcs
<1>11. Registry!TypeOK'
  BY <1>1, <1>2, <1>9, <1>10, AdvanceTyped
<1>12. UNCHANGED clientVars /\ nextId' = nextId
  BY <1>2 DEF Serve, Registry!tables
<1>13. /\ UNCHANGED <<script, marks, project, work, derived, sent, call, calls, faulted, faults>>
       /\ faulted' \in [Processes -> BOOLEAN] /\ faults' \in 0..MaxFaults
  BY <1>1, <1>12 DEF clientVars, TypeOK
<1>14. /\ pc'[p] = "commit" /\ creating'[p] = job /\ reply'[p] = 0
       /\ \A q \in Processes \ {p} :
            pc'[q] = pc[q] /\ creating'[q] = creating[q] /\ reply'[q] = reply[q]
  BY <1>1, <1>5, <1>9 DEF TypeOK, Registry!TypeOK, Registry!Advance, Registry!Goto
<1>15. /\ answer' \in [Processes -> Registry!Issued]
       /\ \A q \in Processes \ {p} : answer'[q] = answer[q]
  <2>1. reply'[p] # 200
    BY <1>14
  <2> QED
    BY <1>1, <1>12, <2>1, NoAnswerTyped
<1>16. JobOK(p)'
  <2>1. Grows
    BY <1>2, TablesStay
  <2>2. Job(p, o)' = job
    BY <1>1, <1>4, <1>5, <1>6, <1>13, <2>1, JobStays DEF ProcessOK
  <2>3. Prior(o)' = Prior(o)
    BY DEF Prior, AnchorOf
  <2>4. sent'[p] = o /\ marks' = marks /\ o # Project
    BY <1>3, <1>6, <1>13, Kinds
  <2> QED
    BY <1>6, <1>14, <2>2, <2>3, <2>4 DEF JobOK
<1>17. ReplyOK(p)'
  BY <1>14 DEF ReplyOK
<1> QED
  BY <1>2, <1>11, <1>13, <1>14, <1>15, <1>16, <1>17, ServerKeepsInv
LEMMA NewEdgesAre ==
  ASSUME NEW n, NEW owners, NEW inputs
  PROVE  /\ \A a, b : <<a, b, "Contains">> \in Registry!NewEdges(n, owners, inputs)
                        <=> a \in owners /\ b = n
         /\ \A a, b : <<a, b, "Consumes">> \in Registry!NewEdges(n, owners, inputs)
                        <=> a = n /\ b \in inputs
         /\ \A e \in Registry!NewEdges(n, owners, inputs) :
              /\ e = <<e[1], e[2], e[3]>> /\ e[3] \in Registry!RelationshipType
              /\ e[1] \in owners \cup inputs \cup {n} /\ e[2] \in owners \cup inputs \cup {n}
<1>1. PICK E : E = Registry!NewEdges(n, owners, inputs)
  OBVIOUS
<1>2. \A e : e \in E <=> (\/ \E a \in owners : e = <<a, n, "Contains">>
                          \/ \E a \in owners : e = <<n, a, "BelongsTo">>
                          \/ \E i \in inputs : e = <<n, i, "Consumes">>
                          \/ \E i \in inputs : e = <<i, n, "Produces">>)
  <2>1. /\ \A q \in owners \X {n} : q[1] \in owners /\ q[2] = n
        /\ \A a \in owners : <<a, n>> \in owners \X {n}
        /\ \A q \in {n} \X inputs : q[1] = n /\ q[2] \in inputs
        /\ \A i \in inputs : <<n, i>> \in {n} \X inputs
    OBVIOUS
  <2>2. E = {<<q[1], q[2], "Contains">> : q \in owners \X {n}}
              \cup {<<q[2], q[1], "BelongsTo">> : q \in owners \X {n}}
              \cup {<<q[1], q[2], "Consumes">> : q \in {n} \X inputs}
              \cup {<<q[2], q[1], "Produces">> : q \in {n} \X inputs}
    BY <1>1 DEF Registry!NewEdges, Registry!BothWays
  <2>3. \A e : (\E q \in owners \X {n} : e = <<q[1], q[2], "Contains">>)
               <=> \E a \in owners : e = <<a, n, "Contains">>
    BY <2>1
  <2>4. \A e : (\E q \in owners \X {n} : e = <<q[2], q[1], "BelongsTo">>)
               <=> \E a \in owners : e = <<n, a, "BelongsTo">>
    BY <2>1
  <2>5. \A e : (\E q \in {n} \X inputs : e = <<q[1], q[2], "Consumes">>)
               <=> \E i \in inputs : e = <<n, i, "Consumes">>
    BY <2>1
  <2>6. \A e : (\E q \in {n} \X inputs : e = <<q[2], q[1], "Produces">>)
               <=> \E i \in inputs : e = <<i, n, "Produces">>
    BY <2>1
  <2> QED
    BY <2>2, <2>3, <2>4, <2>5, <2>6
<1>3. \A a, b : <<a, b, "Contains">> \in E <=> a \in owners /\ b = n
  BY <1>2
<1>4. \A a, b : <<a, b, "Consumes">> \in E <=> a = n /\ b \in inputs
  BY <1>2
<1>5. ASSUME NEW e \in E
      PROVE  /\ e = <<e[1], e[2], e[3]>> /\ e[3] \in Registry!RelationshipType
             /\ e[1] \in owners \cup inputs \cup {n} /\ e[2] \in owners \cup inputs \cup {n}
  BY <1>2, <1>5 DEF Registry!RelationshipType
<1> QED
  BY <1>1, <1>3, <1>4, <1>5

\* What the row that is about to be inserted will be linked to.
LEMMA LinksExist ==
  ASSUME IInv, NEW p \in Processes, pc[p] # "idle", NEW o \in Objects, sent[p] = o
  PROVE  /\ Owners(p, o) \subseteq Rows /\ project[p] \in Owners(p, o)
         /\ project[p] \in Registry!OfType({"Project"})
         /\ \A a \in Owners(p, o) :
              a = project[p] \/ /\ o \in Features /\ entities[a].type = "Anchor"
                                /\ <<project[p], a, "Contains">> \in edges
         /\ InputsAs(p, Inputs(p, o), o)
         /\ o \in Anchors \cup Derived =>
              \A i \in Inputs(p, o) : <<project[p], i, "Contains">> \in edges
<1>1. TypeOK /\ TablesOK
  BY DEF IInv
<1>2. o # Project
  BY Kinds
<1>3. /\ \A u \in Prior(o) : u \in Objects /\ Registered(p, u, marks[p][u])
      /\ project[p] \in Registry!OfType({"Project"}) /\ project[p] \in Rows
  <2>1. /\ \A u \in Prior(o) : u \in Objects /\ Registered(p, u, marks[p][u])
        /\ project[p] \in Registry!OfType({"Project"})
    BY <1>2, Posted
  <2> QED
    BY <1>1, <2>1, ProjectRow
<1>4. CASE o \in Sources
  <2>1. Owners(p, o) = {project[p]} /\ Inputs(p, o) = {} /\ Uses(o) = {}
    BY <1>2, <1>4, Kinds, UsesIs DEF Owners, Inputs
  <2> QED
    BY <1>3, <1>4, <2>1, Kinds DEF InputsAs
<1>5. CASE o \in Anchors
  <2>1. PICK s : s = SourceOf[o]
    OBVIOUS
  <2>2. PICK id : id = marks[p][s]
    OBVIOUS
  <2>3. Owners(p, o) = {project[p]} /\ Inputs(p, o) = {id} /\ Uses(o) = {s}
    BY <1>2, <1>5, <2>1, <2>2, Kinds, UsesIs DEF Owners, Inputs
  <2>4. Registered(p, s, id)
    BY <1>3, <1>5, <2>1, <2>2 DEF Prior
  <2>5. id \in Rows /\ As(p, id, s) /\ <<project[p], id, "Contains">> \in edges
    BY <2>4 DEF Registered
  <2>6. InputsAs(p, {id}, o)
    BY <2>3, <2>5 DEF InputsAs
  <2> QED
    BY <1>3, <2>3, <2>5, <2>6
<1>6. CASE o \in Features
  <2>1. PICK a : a = AnchorOf(o)
    OBVIOUS
  <2>2. PICK id : id = marks[p][a]
    OBVIOUS
  <2>3. PICK ids : ids = Registry!Neighbors({id}, "Consumes")
    OBVIOUS
  <2>4. a \in Anchors /\ o \notin Anchors \cup Derived /\ Prior(o) = {a}
    BY <1>6, <2>1, AnchorOfIs, Kinds DEF Prior
  <2>5. Owners(p, o) = {project[p], id} /\ Inputs(p, o) = ids /\ Uses(o) = Uses(a)
    BY <1>2, <1>6, <2>1, <2>2, <2>3, <2>4, UsesIs DEF Owners, Inputs
  <2>6. Registered(p, a, id)
    BY <1>3, <2>2, <2>4
  <2>7. /\ id \in Rows /\ entities[id].type = "Anchor" /\ InputsAs(p, ids, a)
        /\ <<project[p], id, "Contains">> \in edges
    BY <2>3, <2>4, <2>6, Kinds DEF Registered, Kind
  <2>8. InputsAs(p, ids, o)
    BY <2>5, <2>7 DEF InputsAs
  <2> QED
    BY <1>3, <1>6, <2>4, <2>5, <2>7, <2>8
<1>7. CASE o \in Derived
  <2>1. /\ Owners(p, o) = {project[p]} /\ Inputs(p, o) = {marks[p][i] : i \in InputsOf[o]}
        /\ Uses(o) = InputsOf[o] /\ Prior(o) = InputsOf[o]
    BY <1>2, <1>7, Kinds, UsesIs DEF Owners, Inputs, Prior
  <2>2. ASSUME NEW i \in InputsOf[o]
        PROVE  /\ marks[p][i] \in Rows /\ As(p, marks[p][i], i)
               /\ <<project[p], marks[p][i], "Contains">> \in edges
    BY <1>3, <2>1, <2>2 DEF Registered
  <2>3. PICK ids : ids = Inputs(p, o)
    OBVIOUS
  <2>4. InputsAs(p, ids, o)
    <3>1. ids = {marks[p][i] : i \in InputsOf[o]}
      BY <2>1, <2>3
    <3>2. ids \subseteq Rows /\ \A id \in ids : \E u \in InputsOf[o] : As(p, id, u)
      BY <2>2, <3>1
    <3>3. \A u \in InputsOf[o] : marks[p][u] \in ids /\ As(p, marks[p][u], u)
      BY <2>2, <3>1
    <3> QED
      BY <2>1, <3>2, <3>3 DEF InputsAs
  <2> QED
    BY <1>3, <2>1, <2>2, <2>3, <2>4
<1> QED
  BY <1>4, <1>5, <1>6, <1>7 DEF Objects

\* The tables after a commit, seen from the row it adds.
AddsRow(p, o, n, owners, inputs) ==
  /\ o \in Objects \cup {Project} /\ n \notin Rows /\ nextId' = n + 1 /\ nextId' # n
  /\ Rows' = Rows \cup {n} /\ \A id \in Rows : entities'[id] = entities[id]
  /\ entities'[n] = [type |-> Kind(o), qn |-> QName(o), name |-> <<o>>, def |-> Job(p, o).def]
  /\ owners \subseteq Rows /\ inputs \subseteq Rows
  /\ edges' = edges \cup Registry!NewEdges(n, owners, inputs)
  /\ \A a, b : <<a, b, "Contains">> \in edges'
                 <=> <<a, b, "Contains">> \in edges \/ (a \in owners /\ b = n)
  /\ \A a, b : <<a, b, "Consumes">> \in edges'
                 <=> <<a, b, "Consumes">> \in edges \/ (a = n /\ b \in inputs)
  /\ \A e \in edges : e[1] # n /\ e[2] # n
  /\ Registry!Issued' = Registry!Issued \cup {n}

LEMMA CommitTables ==
  ASSUME IInv, NEW p \in Processes, Registry!Commit(p), NEW o, o = sent[p],
         NEW n, n = nextId, NEW owners, owners = Owners(p, o), NEW inputs, inputs = Inputs(p, o)
  PROVE  AddsRow(p, o, n, owners, inputs)
<1>1. TypeOK /\ TablesOK /\ pc[p] = "commit"
  BY DEF IInv, Registry!Commit
<1>2. o \in Objects \cup {Project} /\ creating[p] = Job(p, o)
  BY <1>1, Posted
<1>3. PICK job : job = creating[p]
  OBVIOUS
<1>4. /\ job.type = Kind(o) /\ job.qn = QName(o) /\ job.name = <<o>>
      /\ job.owners = owners /\ job.inputs = inputs /\ job.def = Job(p, o).def
  BY <1>2, <1>3 DEF Job
<1>5. /\ entities' = [id \in Rows \cup {n} |->
                        IF id = n THEN [type |-> job.type, qn |-> job.qn,
                                        name |-> job.name, def |-> job.def]
                        ELSE entities[id]]
      /\ edges' = edges \cup Registry!NewEdges(n, owners, inputs)
      /\ nextId' = n + 1
  BY <1>3, <1>4 DEF Registry!Commit, Rows
<1>6. n \notin Rows /\ n \in Nat \ {0}
  BY <1>1, RowsAreIssued DEF Rows, TypeOK, Registry!TypeOK
<1>7. Rows' = Rows \cup {n}
  BY <1>5 DEF Rows, Registry!Rows
<1>8. \A id \in Rows : entities'[id] = entities[id]
  BY <1>5, <1>6
<1>9. entities'[n] = [type |-> Kind(o), qn |-> QName(o), name |-> <<o>>, def |-> Job(p, o).def]
  BY <1>4, <1>5
<1>10. owners \subseteq Rows /\ inputs \subseteq Rows
  <2>1. CASE o = Project
    <3>1. owners = {} /\ inputs = {}
      BY <2>1, Kinds DEF Owners, Inputs, Objects
    <3> QED
      BY <3>1
  <2>2. CASE o \in Objects
    BY <1>1, <2>2, LinksExist DEF InputsAs
  <2> QED
    BY <1>2, <2>1, <2>2
<1>11. \A e \in edges : e[1] # n /\ e[2] # n
  BY <1>1, <1>6 DEF TablesOK, EndsExist
<1>12. Registry!Issued' = Registry!Issued \cup {n}
  BY <1>5, <1>6 DEF Registry!Issued
<1>13. nextId' # n
  BY <1>5, <1>6
<1> QED
  BY <1>2, <1>5, <1>6, <1>7, <1>8, <1>9, <1>10, <1>11, <1>12, <1>13, NewEdgesAre
  DEF AddsRow

LEMMA CommitGrows ==
  ASSUME IInv, NEW p \in Processes, Registry!Commit(p)
  PROVE  Grows
<1>1. PICK o : o = sent[p]
  OBVIOUS
<1>2. PICK n : n = nextId
  OBVIOUS
<1>3. PICK owners : owners = Owners(p, o)
  OBVIOUS
<1>4. PICK inputs : inputs = Inputs(p, o)
  OBVIOUS
<1>5. /\ n \notin Rows /\ Rows' = Rows \cup {n} /\ \A id \in Rows : entities'[id] = entities[id]
      /\ edges' = edges \cup Registry!NewEdges(n, owners, inputs)
      /\ \A a, b : <<a, b, "Consumes">> \in edges'
                        <=> <<a, b, "Consumes">> \in edges \/ (a = n /\ b \in inputs)
      /\ Registry!Issued' = Registry!Issued \cup {n}
      /\ \A e \in edges : e[1] # n /\ e[2] # n
  <2>1. AddsRow(p, o, n, owners, inputs)
    BY <1>1, <1>2, <1>3, <1>4, CommitTables
  <2> QED
    BY <2>1 DEF AddsRow
<1>6. ASSUME NEW id \in Rows
      PROVE  Registry!Neighbors({id}, "Consumes")' = Registry!Neighbors({id}, "Consumes")
  <2>1. \A b : <<id, b, "Consumes">> \in edges' <=> <<id, b, "Consumes">> \in edges
    BY <1>5, <1>6
  <2>2. <<id, n, "Consumes">> \notin edges
    BY <1>5
  <2> QED
    BY <1>5, <2>1, <2>2 DEF Registry!Neighbors
<1> QED
  BY <1>5, <1>6 DEF Grows

LEMMA CommitKeepsTables ==
  ASSUME IInv, NEW p \in Processes, Registry!Commit(p)
  PROVE  TablesOK'
<1>1. PICK o : o = sent[p]
  OBVIOUS
<1>2. PICK n : n = nextId
  OBVIOUS
<1>3. PICK owners : owners = Owners(p, o)
  OBVIOUS
<1>4. PICK inputs : inputs = Inputs(p, o)
  OBVIOUS
<1>5. PICK prj : prj = project[p]
  OBVIOUS
<1>6. TypeOK /\ TablesOK /\ pc[p] # "idle"
  BY DEF IInv, Registry!Commit
<1>7. /\ o \in Objects \cup {Project} /\ n \notin Rows
      /\ Rows' = Rows \cup {n} /\ \A id \in Rows : entities'[id] = entities[id]
      /\ entities'[n].type = Kind(o) /\ entities'[n].qn = QName(o) /\ entities'[n].name = <<o>>
      /\ owners \subseteq Rows /\ inputs \subseteq Rows
      /\ edges' = edges \cup Registry!NewEdges(n, owners, inputs)
      /\ \A a, b : <<a, b, "Contains">> \in edges'
                     <=> <<a, b, "Contains">> \in edges \/ (a \in owners /\ b = n)
      /\ \A a, b : <<a, b, "Consumes">> \in edges'
                     <=> <<a, b, "Consumes">> \in edges \/ (a = n /\ b \in inputs)
      /\ \A e \in edges : e[1] # n /\ e[2] # n
  <2>1. AddsRow(p, o, n, owners, inputs)
    BY <1>1, <1>2, <1>3, <1>4, CommitTables
  <2> QED
    BY <2>1 DEF AddsRow
<1>8. CASE o = Project
  <2>1. owners = {} /\ inputs = {}
    BY <1>3, <1>4, <1>8, Kinds DEF Owners, Inputs, Objects
  <2>2. edges' = edges
    BY <1>7, <2>1 DEF Registry!NewEdges, Registry!BothWays
  <2>3. RowsOK'
    <3>1. \A x : Kind(x)' = Kind(x) /\ QName(x)' = QName(x)
      BY DEF Kind, QName, AnchorOf
    <3> QED
      BY <1>6, <1>7, <3>1 DEF RowsOK, TablesOK
  <2>4. EndsExist'
    BY <1>6, <1>7, <2>2 DEF EndsExist, TablesOK
  <2>5. \A a \in Registry!OfType({"Project"})' : a = n \/ a \in Registry!OfType({"Project"})
    BY <1>7 DEF Registry!OfType, Rows
  <2>6. \A x, y, r : <<x, y, r>> \in edges => x # n /\ y # n /\ x \in Rows /\ y \in Rows
    BY <1>6, <1>7 DEF TablesOK, EndsExist
  <2>7. OneProject'
    BY <1>6, <1>7, <2>2, <2>5, <2>6 DEF TablesOK, OneProject
  <2>8. ProjectsOK'
    <3> SUFFICES ASSUME NEW a \in Registry!OfType({"Project"})', NEW x \in Rows',
                        <<a, x, "Contains">> \in edges'
                 PROVE  /\ entities'[x].type = "Anchor" =>
                             /\ \E i \in Rows' : <<x, i, "Consumes">> \in edges'
                             /\ \A i \in Rows' : <<x, i, "Contains">> \in edges'
                                                   => <<a, i, "Contains">> \in edges'
                        /\ entities'[x].type \in {"Anchor", "DerivedFeature"} =>
                             \A i \in Rows' : <<x, i, "Consumes">> \in edges'
                                                => <<a, i, "Contains">> \in edges'
      BY DEF ProjectsOK
    <3>1. a \in Registry!OfType({"Project"}) /\ x \in Rows /\ <<a, x, "Contains">> \in edges
      BY <2>2, <2>5, <2>6
    <3> QED
      BY <1>6, <1>7, <2>2, <2>6, <3>1 DEF TablesOK, ProjectsOK
  <2> QED
    BY <2>3, <2>4, <2>7, <2>8 DEF TablesOK
<1>9. CASE o \in Objects
  <2>1. /\ prj \in owners /\ prj \in Registry!OfType({"Project"})
        /\ \A a \in owners : a = prj \/ /\ o \in Features /\ entities[a].type = "Anchor"
                                        /\ <<prj, a, "Contains">> \in edges
        /\ InputsAs(p, inputs, o)
        /\ o \in Anchors \cup Derived => \A i \in inputs : <<prj, i, "Contains">> \in edges
    BY <1>1, <1>3, <1>4, <1>5, <1>6, <1>9, LinksExist
  <2>2. RowsOK'
    <3>1. \A x : Kind(x)' = Kind(x) /\ QName(x)' = QName(x)
      BY DEF Kind, QName, AnchorOf
    <3> QED
      BY <1>6, <1>7, <3>1 DEF RowsOK, TablesOK
  <2>3. EndsExist'
    <3>1. \A e \in Registry!NewEdges(n, owners, inputs) :
            e[1] \in owners \cup inputs \cup {n} /\ e[2] \in owners \cup inputs \cup {n}
      BY NewEdgesAre
    <3> QED
      BY <1>6, <1>7, <3>1 DEF EndsExist, TablesOK
  <2>4. Kind(o) # "Project"
    BY <1>9, Kinds DEF Kind
  <2>5. Registry!OfType({"Project"})' = Registry!OfType({"Project"})
    BY <1>7, <2>4 DEF Registry!OfType, Rows
  <2>6. \A x, y, r : <<x, y, r>> \in edges => x # n /\ y # n /\ x \in Rows /\ y \in Rows
    BY <1>6, <1>7 DEF TablesOK, EndsExist
  <2>7. prj \in Rows /\ entities[prj].type = "Project" /\ prj # n
    BY <1>7, <2>1 DEF Registry!OfType, Rows
  <2>8. \A a \in owners : a \in Registry!OfType({"Project"}) => a = prj
    BY <2>1 DEF Registry!OfType
  <2>9. OneProject'
    <3> SUFFICES ASSUME NEW x \in Rows', NEW a \in Registry!OfType({"Project"}),
                        NEW b \in Registry!OfType({"Project"}),
                        <<a, x, "Contains">> \in edges', <<b, x, "Contains">> \in edges'
                 PROVE  a = b
      BY <2>5 DEF OneProject
    <3>1. CASE x = n
      BY <1>7, <2>6, <2>8, <3>1
    <3>2. CASE x # n
      BY <1>6, <1>7, <3>2 DEF TablesOK, OneProject
    <3> QED
      BY <3>1, <3>2
  <2>10. ProjectsOK'
    <3> SUFFICES ASSUME NEW a \in Registry!OfType({"Project"}), NEW x \in Rows',
                        <<a, x, "Contains">> \in edges'
                 PROVE  /\ entities'[x].type = "Anchor" =>
                             /\ \E i \in Rows' : <<x, i, "Consumes">> \in edges'
                             /\ \A i \in Rows' : <<x, i, "Contains">> \in edges'
                                                   => <<a, i, "Contains">> \in edges'
                        /\ entities'[x].type \in {"Anchor", "DerivedFeature"} =>
                             \A i \in Rows' : <<x, i, "Consumes">> \in edges'
                                                => <<a, i, "Contains">> \in edges'
      BY <2>5 DEF ProjectsOK
    <3>1. CASE x = n
      <4>1. a = prj
        BY <1>7, <2>6, <2>8, <3>1
      <4>2. \A i : <<n, i, "Contains">> \notin edges'
        BY <1>7, <2>6
      <4>3. \A i : <<n, i, "Consumes">> \in edges' <=> i \in inputs
        BY <1>7, <2>6
      <4>4. entities'[n].type = "Anchor" => o \in Anchors
        BY <1>7, <1>9, Kinds DEF Kind
      <4>5. entities'[n].type = "DerivedFeature" => o \in Derived
        BY <1>7, <1>9, Kinds DEF Kind, Objects
      <4>6. o \in Anchors => inputs # {}
        <5>1. o \in Anchors => Uses(o) = {SourceOf[o]}
          BY UsesIs
        <5> QED
          BY <2>1, <5>1 DEF InputsAs
      <4>7. o \in Anchors \cup Derived => \A i \in inputs : <<prj, i, "Contains">> \in edges'
        BY <1>7, <2>1
      <4> QED
        BY <1>7, <3>1, <4>1, <4>2, <4>3, <4>4, <4>5, <4>6, <4>7
    <3>2. CASE x # n
      <4>1. x \in Rows /\ <<a, x, "Contains">> \in edges /\ entities'[x] = entities[x]
        BY <1>7, <3>2
      <4>2. \A i : <<x, i, "Consumes">> \in edges' <=> <<x, i, "Consumes">> \in edges
        BY <1>7, <3>2
      <4>3. \A i : <<x, i, "Consumes">> \in edges => i \in Rows
        BY <2>6
      <4>4. entities[x].type = "Anchor" => \E i \in Rows' : <<x, i, "Consumes">> \in edges'
        BY <1>6, <1>7, <4>1, <4>2 DEF TablesOK, ProjectsOK
      <4>5. entities[x].type \in {"Anchor", "DerivedFeature"} =>
              \A i : <<x, i, "Consumes">> \in edges' => <<a, i, "Contains">> \in edges'
        BY <1>6, <1>7, <4>1, <4>2, <4>3 DEF TablesOK, ProjectsOK
      <4>6. ASSUME NEW i, <<x, i, "Contains">> \in edges', entities[x].type = "Anchor"
            PROVE  <<a, i, "Contains">> \in edges'
        <5>1. CASE <<x, i, "Contains">> \in edges
          BY <1>6, <1>7, <2>6, <4>1, <4>6, <5>1 DEF TablesOK, ProjectsOK
        <5>2. CASE x \in owners /\ i = n
          <6>1. x # prj
            BY <2>7, <4>6
          <6>2. <<prj, x, "Contains">> \in edges
            BY <2>1, <5>2, <6>1
          <6>3. a = prj
            BY <1>6, <2>1, <4>1, <6>2 DEF TablesOK, OneProject
          <6> QED
            BY <1>7, <2>1, <5>2, <6>3
        <5> QED
          BY <1>7, <4>6, <5>1, <5>2
      <4> QED
        BY <4>1, <4>4, <4>5, <4>6
    <3> QED
      BY <3>1, <3>2
  <2> QED
    BY <2>2, <2>3, <2>9, <2>10 DEF TablesOK
<1> QED
  BY <1>7, <1>8, <1>9
LEMMA CommitKeepsInv ==
  ASSUME IInv, NEW p \in Processes, Serve(p), Registry!Commit(p)
  PROVE  IInv'
<1>1. PICK o : o = sent[p]
  OBVIOUS
<1>2. PICK n : n = nextId
  OBVIOUS
<1>3. PICK owners : owners = Owners(p, o)
  OBVIOUS
<1>4. PICK inputs : inputs = Inputs(p, o)
  OBVIOUS
<1>5. TypeOK /\ TablesOK /\ ProcessOK(p) /\ pc[p] = "commit"
  BY DEF IInv, Registry!Commit
<1>6. AddsRow(p, o, n, owners, inputs)
  BY <1>1, <1>2, <1>3, <1>4, CommitTables
<1>7. Grows /\ TablesOK'
  BY CommitGrows, CommitKeepsTables
<1>8. /\ n \notin Rows /\ nextId' = n + 1 /\ nextId' # n
      /\ Rows' = Rows \cup {n} /\ \A id \in Rows : entities'[id] = entities[id]
      /\ entities'[n] = [type |-> Kind(o), qn |-> QName(o), name |-> <<o>>, def |-> Job(p, o).def]
      /\ owners \subseteq Rows /\ inputs \subseteq Rows
      /\ edges' = edges \cup Registry!NewEdges(n, owners, inputs)
      /\ Registry!Issued' = Registry!Issued \cup {n} /\ o \in Objects \cup {Project}
  BY <1>6 DEF AddsRow
<1>9. /\ Registry!Finish(p, 200) /\ UNCHANGED clientVars
      /\ answer' = [answer EXCEPT ![p] = n]
  BY <1>2, <1>8 DEF Registry!Commit, Serve
<1>10. /\ pc'[p] = "idle" /\ reply'[p] = 200 /\ answer'[p] = n
       /\ \A q \in Processes \ {p} :
            /\ pc'[q] = pc[q] /\ creating'[q] = creating[q] /\ reply'[q] = reply[q]
            /\ answer'[q] = answer[q]
  BY <1>5, <1>9 DEF TypeOK, Registry!TypeOK, Registry!Finish
<1>11. Registry!TypeOK'
  <2>1. nextId' \in Nat \ {0} /\ DOMAIN entities' \subseteq 1..(nextId' - 1)
    BY <1>2, <1>5, <1>8 DEF TypeOK, Registry!TypeOK, Rows, Registry!Rows
  <2>2. entities' \in [DOMAIN entities' -> Registry!Entity]
    <3>1. Job(p, o) \in Registry!Creation
      BY <1>5, <1>8, JobTyped
    <3>2. entities'[n] \in Registry!Entity
      BY <1>8, <3>1 DEF Job, Registry!Creation, Registry!Entity
    <3>3. \A id \in Rows : entities'[id] \in Registry!Entity
      BY <1>5, <1>8 DEF TypeOK, Registry!TypeOK, Rows, Registry!Rows
    <3>4. entities' = [id \in DOMAIN entities' |-> entities'[id]]
      BY DEF Registry!Commit
    <3> QED
      BY <1>8, <3>2, <3>3, <3>4 DEF Rows, Registry!Rows
  <2>3. edges' \subseteq Registry!Issued' \X Registry!Issued' \X Registry!RelationshipType
    <3>1. PICK E : E = Registry!NewEdges(n, owners, inputs)
      OBVIOUS
    <3>2. owners \cup inputs \cup {n} \subseteq Registry!Issued'
      BY <1>5, <1>8, RowsAreIssued DEF Rows
    <3>3. \A e \in E :
            /\ e = <<e[1], e[2], e[3]>> /\ e[3] \in Registry!RelationshipType
            /\ e[1] \in Registry!Issued' /\ e[2] \in Registry!Issued'
      BY <3>1, <3>2, NewEdgesAre
    <3>4. E \subseteq Registry!Issued' \X Registry!Issued' \X Registry!RelationshipType
      BY <3>3
    <3>5. edges \subseteq Registry!Issued' \X Registry!Issued' \X Registry!RelationshipType
      BY <1>5, <1>8 DEF TypeOK, Registry!TypeOK
    <3> QED
      BY <1>8, <3>1, <3>4, <3>5
  <2>4. Registry!NoCreation \in Registry!Creation' /\ Registry!NoDeletion \in Registry!Deletion'
    BY <1>5, <1>8, NothingTyped DEF Registry!Creation, Registry!Deletion
  <2>5. creating' \in [Processes -> Registry!Creation'] /\ deleting' \in [Processes -> Registry!Deletion']
    <3>1. Registry!Creation \subseteq Registry!Creation' /\ Registry!Deletion \subseteq Registry!Deletion'
      BY <1>8 DEF Registry!Creation, Registry!Deletion
    <3>2. creating \in [Processes -> Registry!Creation] /\ deleting \in [Processes -> Registry!Deletion]
      BY <1>5 DEF TypeOK, Registry!TypeOK
    <3>3. /\ creating' = [creating EXCEPT ![p] = Registry!NoCreation]
          /\ deleting' = [deleting EXCEPT ![p] = Registry!NoDeletion]
      BY <1>9 DEF Registry!Finish
    <3> QED
      BY <2>4, <3>1, <3>2, <3>3
  <2>6. /\ pc' \in [Processes -> {"idle"} \cup Registry!CreatePcs \cup Registry!DeletePcs]
        /\ reply' \in [Processes -> Registry!Codes]
    BY <1>5, <1>9 DEF TypeOK, Registry!TypeOK, Registry!Finish, Registry!Codes
  <2> QED
    BY <2>1, <2>2, <2>3, <2>5, <2>6 DEF Registry!TypeOK
<1>12. UNCHANGED <<script, marks, project, work, derived, sent, call, calls, faulted, faults>>
  BY <1>9 DEF clientVars
<1>13. TypeOK'
  <2>1. Registry!Issued \subseteq Registry!Issued' /\ n \in Registry!Issued'
    BY <1>8
  <2>2. marks \in [Processes -> [Objects -> Registry!Issued']]
    BY <1>5, <2>1 DEF TypeOK
  <2>3. project \in [Processes -> Registry!Issued'] /\ answer' \in [Processes -> Registry!Issued']
    BY <1>5, <1>9, <2>1 DEF TypeOK
  <2> QED
    BY <1>5, <1>11, <1>12, <2>2, <2>3 DEF TypeOK
<1>14. sent'[p] = o /\ script'[p] = script[p] /\ project'[p] = project[p] /\ marks'[p] = marks[p]
  BY <1>1, <1>12
<1>15. GoodAnswer(p)'
  <2>1. CASE o = Project
    <3>1. n \in Registry!OfType({"Project"})'
      BY <1>8, <2>1 DEF Registry!OfType, Rows, Kind
    <3>2. project[p] = 0
      BY <1>1, <1>5, <2>1 DEF ProcessOK, JobOK
    <3> QED
      BY <1>10, <1>14, <2>1, <3>1, <3>2 DEF GoodAnswer
  <2>2. CASE o \in Objects
    <3>1. /\ project[p] \in owners /\ InputsAs(p, inputs, o)
      BY <1>1, <1>3, <1>4, <1>5, <2>2, LinksExist
    <3>2. <<project'[p], n, "Contains">> \in edges'
      BY <1>6, <1>14, <3>1 DEF AddsRow
    <3>3. As(p, n, o)'
      <4>1. o \notin Anchors => entities'[n].def = script[p][o]
        BY <1>8, <2>2, Kinds DEF Job
      <4> QED
        BY <1>8, <1>14, <4>1 DEF As
    <3>4. Registry!Neighbors({n}, "Consumes")' = inputs
      <4>1. \A b : <<n, b, "Consumes">> \in edges' <=> b \in inputs
        <5>1. \A b : <<n, b, "Consumes">> \notin edges
          BY <1>6 DEF AddsRow
        <5> QED
          BY <1>6, <5>1 DEF AddsRow
      <4>2. inputs \subseteq Registry!Issued'
        BY <1>5, <1>8, RowsAreIssued DEF Rows
      <4> QED
        BY <4>1, <4>2 DEF Registry!Neighbors
    <3>5. InputsAs(p, inputs, o)'
      <4>1. Uses(o)' = Uses(o)
        BY DEF Uses
      <4>2. inputs \subseteq Rows /\ \A i \in inputs : \A x : As(p, i, x)' <=> As(p, i, x)
        BY <1>8, <1>14 DEF As
      <4> QED
        BY <1>8, <3>1, <4>1, <4>2 DEF InputsAs
    <3>6. n \in Rows' /\ entities'[n].type = Kind(o) /\ Kind(o)' = Kind(o)
      BY <1>8 DEF Kind
    <3>7. Registered(p, o, n)'
      BY <3>2, <3>3, <3>4, <3>5, <3>6 DEF Registered
    <3> QED
      BY <1>10, <1>14, <2>2, <3>7, Kinds DEF GoodAnswer
  <2> QED
    BY <1>8, <2>1, <2>2
<1>16. ProcessOK(p)'
  <2>1. JobOK(p)' /\ ReplyOK(p)'
    BY <1>10, <1>15 DEF JobOK, ReplyOK
  <2>2. CallOK(p)'
    BY <1>5, <1>10, <1>12 DEF ProcessOK, CallOK, Registry!DeletePcs
  <2>3. ProjectOK(p)' /\ MarksOK(p)'
    BY <1>5, <1>7, <1>12, ProjectsStay, MarksStay DEF ProcessOK, ProjectOK
  <2>4. WorkOK(p)'
    BY <1>5, <1>12 DEF ProcessOK, WorkOK, Prior, AnchorOf
  <2> QED
    BY <2>1, <2>2, <2>3, <2>4 DEF ProcessOK
<1>17. \A q \in Processes \ {p} : Still(q)
  BY <1>10, <1>12 DEF Still
<1> QED
  BY <1>7, <1>13, <1>16, <1>17, OneMoves

\* No process deletes.
LEMMA StepIsPost ==
  ASSUME IInv, NEW p \in Processes, Registry!Step(p)
  PROVE  Registry!Check(p) \/ Registry!CheckRefs(p) \/ Registry!Commit(p)
BY DEF IInv, ProcessOK, CallOK, Registry!Step, Registry!DeletePcs, Registry!BfsStep,
       Registry!BfsDone, Registry!Purge, Registry!DeleteEdges, Registry!DeleteEntityRow

LEMMA ServeKeepsInv ==
  ASSUME IInv, NEW p \in Processes, Serve(p)
  PROVE  IInv'
BY StepIsPost, CheckKeepsInv, CheckRefsKeepsInv, CommitKeepsInv DEF Serve

-----------------------------------------------------------------------------
(* The invariant holds *)

LEMMA InitInv == Init => IInv
<1> SUFFICES ASSUME Init PROVE IInv
  OBVIOUS
<1>1. /\ entities = [id \in {} |-> {}] /\ edges = {} /\ nextId = 1
      /\ pc = [t \in Processes |-> "idle"] /\ creating = [t \in Processes |-> Registry!NoCreation]
      /\ deleting = [t \in Processes |-> Registry!NoDeletion] /\ reply = [t \in Processes |-> 0]
  BY DEF Init, Registry!Init
<1>2. Rows = {} /\ Registry!Issued = {0}
  BY <1>1 DEF Rows, Registry!Rows, Registry!Issued
<1>3. Registry!AnyDef \in Defs /\ (CHOOSE d \in Defs : TRUE) \in Defs
  BY DefsAssumption DEF Registry!AnyDef
<1>4. Registry!TypeOK
  <2>1. Registry!NoCreation \in Registry!Creation /\ Registry!NoDeletion \in Registry!Deletion
    BY <1>2, <1>3 DEF Registry!NoCreation, Registry!Creation, Registry!NoDeletion,
                      Registry!Deletion, Registry!EntityType, Registry!RelationshipType
  <2>2. entities \in [DOMAIN entities -> Registry!Entity] /\ DOMAIN entities = {}
    BY <1>1
  <2> QED
    BY <1>1, <2>1, <2>2 DEF Registry!TypeOK, Registry!Codes
<1>5. TypeOK
  <2>1. marks \in [Processes -> [Objects -> Registry!Issued]]
    BY <1>2 DEF Init, Unmarked
  <2>2. script \in [Processes -> [Objects -> Defs]]
    BY <1>3 DEF Init
  <2>3. work \in [Processes -> Seq(Objects \ Derived)] /\ derived \in [Processes -> SUBSET Derived]
    BY DEF Init
  <2> QED
    BY <1>2, <1>4, <2>1, <2>2, <2>3, LimitsAssumption DEF TypeOK, Init
<1>6. TablesOK
  BY <1>1, <1>2 DEF TablesOK, RowsOK, EndsExist, OneProject, ProjectsOK
<1>7. ASSUME NEW p \in Processes PROVE ProcessOK(p)
  <2>1. /\ call[p] = "new" /\ sent[p] = Nothing /\ work[p] = <<>> /\ pc[p] = "idle"
        /\ project[p] = 0 /\ \A o \in Objects : marks[p][o] = 0
    BY <1>1 DEF Init, Unmarked
  <2> QED
    BY <2>1 DEF ProcessOK, CallOK, ProjectOK, MarksOK, WorkOK, JobOK, ReplyOK, Registry!DeletePcs
<1> QED
  BY <1>5, <1>6, <1>7 DEF IInv

LEMMA StutterKeepsInv ==
  ASSUME IInv, UNCHANGED vars
  PROVE  IInv'
<1>1. UNCHANGED <<registryVars, clientVars, answer>>
  BY DEF vars
<1>2. /\ UNCHANGED registryVars /\ answer' = answer
      /\ UNCHANGED <<script, marks, project, work, derived, sent, call, faulted, calls, faults>>
  BY <1>1 DEF clientVars
<1>3. TypeOK /\ TablesOK
  BY DEF IInv
<1>4. Registry!TypeOK' /\ UNCHANGED Registry!tables
  BY <1>2, <1>3, RegistryStillTyped
<1>5. Grows /\ TablesOK' /\ Registry!Issued' = Registry!Issued
  BY <1>3, <1>4, TablesStay
<1>6. TypeOK'
  BY <1>2, <1>3, <1>4, <1>5 DEF TypeOK
<1>7. ASSUME NEW p \in Processes PROVE ProcessOK(p)'
  <2>1. Still(p)
    BY <1>2 DEF Still, registryVars
  <2> QED
    BY <1>3, <1>5, <1>6, <2>1, ProcessStays DEF IInv
<1> QED
  BY <1>5, <1>6, <1>7 DEF IInv

LEMMA NextInv == IInv /\ [Next]_vars => IInv'
<1> SUFFICES ASSUME IInv, [Next]_vars PROVE IInv'
  OBVIOUS
<1>1. ASSUME NEW p \in Processes, Call(p) PROVE IInv'
  BY <1>1, CallKeepsInv
<1>2. ASSUME NEW p \in Processes, Client(p) PROVE IInv'
  BY <1>2, SendKeepsInv, SendDerivedKeepsInv, ReceiveKeepsInv, EndKeepsInv DEF Client
<1>3. ASSUME NEW p \in Processes, LoseAnswer(p) PROVE IInv'
  BY <1>3, EndKeepsInv
<1>4. ASSUME NEW p \in Processes, Serve(p) PROVE IInv'
  BY <1>4, ServeKeepsInv
<1>5. ASSUME NEW p \in Processes, Break(p) PROVE IInv'
  BY <1>5, BreakKeepsInv
<1>6. CASE UNCHANGED vars
  BY <1>6, StutterKeepsInv
<1> QED
  BY <1>1, <1>2, <1>3, <1>4, <1>5, <1>6 DEF Next

LEMMA Invariance == Spec => []IInv
BY InitInv, NextInv, PTL DEF Spec

\* Every variable of the clients and of the registry keeps its type.
THEOREM RegistrationTypeCorrectness == Spec => []TypeOK
<1>1. IInv => TypeOK
  BY DEF IInv
<1> QED
  BY <1>1, Invariance, PTL
\* What an id that an object keeps leads to is what the process defined, and so is
\* what that consumes (_registry_id, _feathr_registry_client.py:103-114).
THEOREM LineageAsWrittenAlways == Spec => []LineageAsWritten
<1>1. IInv => LineageAsWritten
  <2> SUFFICES ASSUME IInv PROVE LineageAsWritten
    OBVIOUS
  <2>1. ASSUME NEW p \in Processes, NEW o \in Objects, marks[p][o] # 0
        PROVE  LET id == marks[p][o]
                   as(i, x) == /\ entities[i].name = <<x>>
                               /\ x \in Anchors \/ entities[i].def = script[p][x]
                   inputs == Registry!Neighbors({id}, "Consumes")
               IN /\ id \in Rows /\ as(id, o)
                  /\ inputs \subseteq Rows
                  /\ \A i \in inputs : \E u \in Uses(o) : as(i, u)
                  /\ \A u \in Uses(o) : \E i \in inputs : as(i, u)
    <3>1. Registered(p, o, marks[p][o])
      BY <2>1 DEF IInv, ProcessOK, MarksOK
    <3> QED
      BY <3>1 DEF Registered, InputsAs, As
  <2> QED
    BY <2>1 DEF LineageAsWritten
<1> QED
  BY <1>1, Invariance, PTL

\* GET /projects/{project} finds at every moment what it looks up among the
\* children of the project (get_project, db_registry.py:229).
THEOREM EveryProjectReadableAlways == Spec => []EveryProjectReadable
<1>1. IInv => EveryProjectReadable
  <2> SUFFICES ASSUME IInv, NEW a \in Registry!OfType({"Project"})
               PROVE  Registry!ProjectReadable(a)
    BY DEF EveryProjectReadable
  <2>1. TypeOK /\ TablesOK
    BY DEF IInv
  <2>2. PICK children : children = Registry!Neighbors({a}, "Contains") \cap Rows
    OBVIOUS
  <2>3. \A x, y, r : <<x, y, r>> \in edges => x \in Rows /\ y \in Rows
    BY <2>1 DEF TablesOK, EndsExist
  <2>4. Rows \subseteq Registry!Issued
    BY <2>1, RowsAreIssued DEF Rows
  <2>5. \A x : x \in children <=> <<a, x, "Contains">> \in edges
    BY <2>2, <2>3, <2>4 DEF Registry!Neighbors
  <2>6. \A x, y : /\ y \in Registry!Neighbors({x}, "Contains") => <<x, y, "Contains">> \in edges
                  /\ y \in Registry!Neighbors({x}, "Consumes") <=> <<x, y, "Consumes">> \in edges
    BY <2>3, <2>4 DEF Registry!Neighbors
  <2>7. ASSUME NEW x \in children, entities[x].type = "Anchor"
        PROVE  /\ Registry!Neighbors({x}, "Consumes") # {}
               /\ Registry!Neighbors({x}, "Consumes") \cup Registry!Neighbors({x}, "Contains")
                    \subseteq children
    <3>1. x \in Rows /\ <<a, x, "Contains">> \in edges
      BY <2>2, <2>5, <2>7
    <3>2. /\ \E i \in Rows : <<x, i, "Consumes">> \in edges
          /\ \A i \in Rows : <<x, i, "Contains">> \in edges => <<a, i, "Contains">> \in edges
          /\ \A i \in Rows : <<x, i, "Consumes">> \in edges => <<a, i, "Contains">> \in edges
      BY <2>1, <2>7, <3>1 DEF TablesOK, ProjectsOK
    <3> QED
      BY <2>3, <2>5, <2>6, <3>2
  <2>8. ASSUME NEW x \in children, entities[x].type = "DerivedFeature"
        PROVE  Registry!Neighbors({x}, "Consumes") \subseteq children
    <3>1. x \in Rows /\ <<a, x, "Contains">> \in edges
      BY <2>2, <2>5, <2>8
    <3>2. \A i \in Rows : <<x, i, "Consumes">> \in edges => <<a, i, "Contains">> \in edges
      BY <2>1, <2>8, <3>1 DEF TablesOK, ProjectsOK
    <3> QED
      BY <2>3, <2>5, <2>6, <3>2
  <2>9. a \in Rows
    BY <2>1, ProjectRow
  <2> QED
    BY <2>2, <2>7, <2>8, <2>9 DEF Registry!ProjectReadable, Rows
<1> QED
  BY <1>1, Invariance, PTL

\* After a call that returned, everything the process has ids for is in the project
\* it worked on (_feathr_registry_client.py:116).
THEOREM ReturnedIsInProjectAlways == Spec => []ReturnedIsInProject
<1>1. IInv => ReturnedIsInProject
  BY DEF IInv, ProcessOK, MarksOK, Registered, ReturnedIsInProject
<1> QED
  BY <1>1, Invariance, PTL

LEMMA PostedNameIs ==
  ASSUME TypeOK, NEW p \in Processes, sent[p] # Nothing
  PROVE  PostedName(p) = QName(sent[p])
<1>1. PICK o : o = sent[p]
  OBVIOUS
<1>2. o \in Objects \cup {Project}
  BY <1>1 DEF TypeOK
<1>3. o \in Features => o # Project
  BY Kinds
<1> QED
  BY <1>1, <1>2, <1>3 DEF PostedName, QName

\* A call raises only when something broke during it, when the rows of a name have
\* multiplied (db_registry.py:427), when the registry holds another definition of
\* the name, or when an input of a derived feature was never registered.
THEOREM RaisesForAReasonAlways == Spec => RaisesForAReason
<1> DEFINE Reason(p) ==
      LET same == Registry!Named(PostedName(p)) IN
      \/ faulted'[p]
      \/ sent[p] = Nothing /\ \E d \in derived[p] : \E i \in InputsOf[d] : marks[p][i] = 0
      \/ sent[p] # Nothing /\ reply[p] = 500 /\ Cardinality(same) > 1
      \/ /\ sent[p] \in Objects /\ reply[p] = 409
         /\ \E id \in same : entities[id].def # script[p][sent[p]]
<1>1. ASSUME IInv, [Next]_vars, NEW p \in Processes, call[p] = "running", call'[p] = "raised"
      PROVE  Reason(p)
  <2>1. TypeOK /\ ProcessOK(p)
    BY <1>1 DEF IInv
  <2>2. PICK q \in Processes : Call(q) \/ Client(q) \/ LoseAnswer(q) \/ Serve(q) \/ Break(q)
    BY <1>1 DEF Next, vars, clientVars
  <2>3. InputHasNoId(q) \/ ReceiveError(q) \/ LoseAnswer(q)
    <3>1. call \in [Processes -> {"new", "running", "returned", "raised"}]
      BY <2>1 DEF TypeOK
    <3>2. ~Call(q) /\ ~Send(q) /\ ~SendDerived(q) /\ ~Receive(q) /\ ~Return(q) /\ ~Serve(q) /\ ~Break(q)
      BY <1>1, <3>1 DEF Call, Send, SendDerived, Receive, Return, Serve, Break, Leave, clientVars
    <3> QED
      BY <2>2, <3>2 DEF Client
  <2>4. q = p
    BY <1>1, <2>1, <2>3 DEF TypeOK, InputHasNoId, ReceiveError, LoseAnswer, Leave
  <2>5. CASE InputHasNoId(p)
    BY <2>5 DEF InputHasNoId, Ready, HasIds, DerivedTodo
  <2>6. CASE LoseAnswer(p)
    <3>1. faulted'[p]
      BY <2>1, <2>6 DEF TypeOK, LoseAnswer
    <3> QED
      BY <3>1
  <2>7. CASE ReceiveError(p)
    <3>1. sent[p] # Nothing /\ pc[p] = "idle" /\ reply[p] # 200 /\ faulted' = faulted
      BY <2>7 DEF ReceiveError, Answered
    <3>2. PostedName(p) = QName(sent[p])
      BY <2>1, <3>1, PostedNameIs
    <3> QED
      BY <2>1, <3>1, <3>2 DEF ProcessOK, ReplyOK
  <2> QED
    BY <2>3, <2>4, <2>5, <2>6, <2>7
<1>2. IInv /\ [Next]_vars =>
        [\A p \in Processes : call[p] = "running" /\ call'[p] = "raised" => Reason(p)]_vars
  BY <1>1
<1> QED
  BY <1>2, Invariance, PTL DEF Spec, RaisesForAReason

-----------------------------------------------------------------------------
(* To the registry, the processes are clients like any other *)

\* A derived feature names no more inputs than a request may.
LEMMA InputsAreFew ==
  ASSUME TypeOK, NEW p \in Processes, NEW d \in Derived
  PROVE  LET ids == {marks[p][i] : i \in InputsOf[d]} IN
         Registry!Cardinality(ids) <= Registry!Cardinality(Features \cup Derived)
<1>1. PICK S : S = InputsOf[d]
  OBVIOUS
<1>2. PICK m : m = marks[p]
  OBVIOUS
<1>3. PICK T : T = {m[i] : i \in S}
  OBVIOUS
<1>4. S \in SUBSET (Features \cup Derived)
  BY <1>1, ObjectsAssumption
<1>5. PICK A : A = Features \cup Derived
  OBVIOUS
<1>6. IsFiniteSet(A) /\ S \in SUBSET A
  BY <1>4, <1>5, KindsAssumption
<1>7. IsFiniteSet(S) /\ Cardinality(S) <= Cardinality(A)
  BY <1>6, FS_Subset
<1>8. PICK f : f = [i \in S |-> m[i]]
  OBVIOUS
<1>9. f \in Surjection(S, T)
  BY <1>3, <1>8 DEF Surjection
<1>10. IsFiniteSet(T) /\ Cardinality(T) <= Cardinality(S)
  BY <1>7, <1>9, FS_Surjection
<1>11. Cardinality(T) \in Nat /\ Cardinality(S) \in Nat /\ Cardinality(A) \in Nat
  BY <1>6, <1>7, <1>10, FS_CardinalityType
<1>12. Cardinality(T) <= Cardinality(A)
  BY <1>7, <1>10, <1>11
<1>13. Registry!Cardinality(T) <= Registry!Cardinality(A)
  BY <1>12, SameCardinality
<1> QED
  BY <1>1, <1>2, <1>3, <1>5, <1>13

\* What Send posts has what it needs: nothing that it waits for is left out.
LEMMA NextObjectReady ==
  ASSUME IInv, NEW p \in Processes, Send(p)
  PROVE  \E o \in Objects : Post(p, o) /\ \A u \in Prior(o) : marks[p][u] # 0
<1>1. TypeOK /\ ProcessOK(p)
  BY DEF IInv
<1>2. PICK w : w = work[p]
  OBVIOUS
<1>3. w \in Seq(Objects \ Derived)
  BY <1>1, <1>2 DEF TypeOK
<1>4. PICK k \in DOMAIN w : Upcoming(p, k) /\ Post(p, w[k])
  BY <1>2 DEF Send
<1>5. w[k] \in Objects
  BY <1>3
<1>6. \A j \in 1..(k - 1) : marks[p][w[j]] # 0
  BY <1>2, <1>4 DEF Upcoming, Skips
<1>7. sent[p] = Nothing
  BY DEF Send, Ready
<1>8. ASSUME NEW u \in Prior(w[k]) PROVE marks[p][u] # 0
  <2>1. u \in Objects /\ u # Nothing
    BY <1>5, PriorIsObject, ObjectsAssumption
  <2>2. marks[p][u] # 0 \/ \E j \in 1..(k - 1) : w[j] = u
    BY <1>1, <1>2, <1>4, <1>7, <1>8, <2>1 DEF ProcessOK, WorkOK
  <2> QED
    BY <1>6, <2>2
<1> QED
  BY <1>4, <1>5, <1>8

\* What register_features posts is a request that any client may send.
LEMMA PostIsRequest ==
  ASSUME IInv, NEW p \in Processes, NEW o \in Objects, Ready(p), Post(p, o),
         \A u \in Prior(o) : marks[p][u] # 0
  PROVE  Registry!Request(p)
<1>1. TypeOK /\ TablesOK /\ ProcessOK(p) /\ o \notin {Project, Nothing} /\ Nothing # Project
  BY ObjectsAssumption DEF IInv
<1>2. project[p] \in Registry!OfType({"Project"})
  BY <1>1 DEF ProcessOK, ProjectOK, Ready
<1>3. \A u \in Prior(o) : u \in Objects /\ Registered(p, u, marks[p][u])
  BY <1>1, PriorIsObject DEF ProcessOK, MarksOK
<1>4. <<o>> \in Names /\ Registry!Accept(p)
  BY DEF Names, Post
<1>5. project[p] \in Registry!Args({"Project"})
  BY <1>2 DEF Registry!Args
<1>6. script[p][o] \in Defs
  BY <1>1 DEF TypeOK
<1>7. CASE o \in Sources
  <2>1. Registry!CreateSource(p, project[p], <<o>>, script[p][o])
    BY <1>7, Kinds DEF Post
  <2> QED
    BY <1>4, <1>5, <1>6, <2>1 DEF Registry!Request, Registry!NewSource
<1>8. CASE o \in Anchors
  <2>1. PICK s : s = SourceOf[o]
    OBVIOUS
  <2>2. s \in Sources /\ s # Project /\ Registered(p, s, marks[p][s])
    BY <1>3, <1>8, <2>1, Kinds, ObjectsAssumption DEF Prior
  <2>3. marks[p][s] \in Registry!Args({"Source"})
    BY <2>2 DEF Registered, Kind, Registry!Args, Registry!OfType, Rows
  <2>4. Registry!CreateAnchor(p, project[p], <<o>>, marks[p][s])
    BY <1>8, <2>1, Kinds DEF Post
  <2> QED
    BY <1>4, <1>5, <2>3, <2>4 DEF Registry!Request, Registry!NewAnchor
<1>9. CASE o \in Features
  <2>1. PICK a : a = AnchorOf(o)
    OBVIOUS
  <2>2. a \in Anchors /\ a # Project /\ a \notin Sources /\ Registered(p, a, marks[p][a])
    BY <1>3, <1>9, <2>1, AnchorOfIs, Kinds DEF Prior
  <2>3. marks[p][a] \in Registry!Args({"Anchor"})
    BY <2>2 DEF Registered, Kind, Registry!Args, Registry!OfType, Rows
  <2>4. project[p] \in Registry!ProjectArgsFor(marks[p][a])
    <3>1. project[p] \in Registry!Issued
      BY <1>1 DEF TypeOK
    <3>2. <<project[p], marks[p][a], "Contains">> \in edges
      BY <2>2 DEF Registered
    <3> QED
      BY <1>2, <3>1, <3>2 DEF Registry!ProjectArgsFor
  <2>5. Registry!CreateAnchorFeature(p, project[p], marks[p][a], <<o>>, script[p][o])
    BY <1>9, <2>1, Kinds DEF Post
  <2> QED
    BY <1>4, <1>6, <2>3, <2>4, <2>5 DEF Registry!Request, Registry!NewAnchorFeature
<1>10. CASE o \in Derived
  <2>1. PICK ids : ids = {marks[p][i] : i \in InputsOf[o]}
    OBVIOUS
  <2>2. ids \subseteq Registry!Args(Registry!FeatureTypes)
    <3>1. ASSUME NEW i \in InputsOf[o]
          PROVE  marks[p][i] \in Registry!OfType(Registry!FeatureTypes)
      <4>1. i \in Features \cup Derived /\ Registered(p, i, marks[p][i])
        BY <1>3, <1>10, <3>1, Kinds, ObjectsAssumption DEF Prior
      <4>2. Kind(i) \in Registry!FeatureTypes
        BY <4>1, Kinds DEF Kind, Registry!FeatureTypes
      <4> QED
        BY <4>1, <4>2 DEF Registered, Registry!OfType, Rows
    <3> QED
      BY <2>1, <3>1 DEF Registry!Args
  <2>3. Registry!Cardinality(ids) <= Registry!Cardinality(Features \cup Derived)
    BY <1>1, <1>10, <2>1, InputsAreFew
  <2>4. Registry!CreateDerivedFeature(p, project[p], <<o>>, script[p][o], ids)
    BY <1>10, <2>1, Kinds DEF Post
  <2> QED
    BY <1>4, <1>5, <1>6, <2>2, <2>3, <2>4, SameCardinality
    DEF Registry!Request, Registry!NewDerivedFeature
<1> QED
  BY <1>7, <1>8, <1>9, <1>10 DEF Objects

\* Every step is a step of the registry, or none of its variables moves.
LEMMA RegistryMoves ==
  ASSUME IInv, [Next]_vars
  PROVE  [Registry!Next]_Registry!vars
<1>1. ASSUME NEW p \in Processes, Call(p) PROVE Registry!Request(p)
  <2>1. <<Project>> \in Names
    BY DEF Names
  <2> QED
    BY <1>1, <2>1 DEF Call, Registry!Request, Registry!NewProject
<1>2. ASSUME NEW p \in Processes, Send(p) PROVE Registry!Request(p)
  <2>1. PICK o \in Objects : Post(p, o) /\ \A u \in Prior(o) : marks[p][u] # 0
    BY <1>2, NextObjectReady
  <2> QED
    BY <1>2, <2>1, PostIsRequest DEF Send
<1>3. ASSUME NEW p \in Processes, SendDerived(p) PROVE Registry!Request(p)
  <2>1. PICK d \in DerivedTodo(p) : HasIds(p, d) /\ Post(p, d)
    BY <1>3 DEF SendDerived
  <2>2. d \in Derived /\ d \in Objects
    BY <2>1 DEF IInv, TypeOK, DerivedTodo, Objects
  <2>3. \A u \in Prior(d) : marks[p][u] # 0
    BY <2>1, <2>2, Kinds DEF Prior, HasIds
  <2> QED
    BY <1>3, <2>1, <2>2, <2>3, PostIsRequest DEF SendDerived
<1>4. ASSUME NEW p \in Processes,
             \/ InputHasNoId(p) \/ Receive(p) \/ ReceiveError(p) \/ Return(p)
             \/ LoseAnswer(p) \/ UNCHANGED vars
      PROVE  UNCHANGED Registry!vars
  BY <1>4 DEF InputHasNoId, Receive, ReceiveError, Return, LoseAnswer, vars, registryVars, Registry!vars
<1>5. ASSUME NEW p \in Processes, Serve(p) PROVE Registry!Step(p)
  BY <1>5 DEF Serve
<1>6. ASSUME NEW p \in Processes, Break(p) PROVE Registry!Fail(p)
  BY <1>6 DEF Break
<1>7. UNCHANGED vars => UNCHANGED Registry!vars
  BY DEF vars, registryVars, Registry!vars
<1>8. CASE Next
  <2>1. PICK p \in Processes : Call(p) \/ Client(p) \/ LoseAnswer(p) \/ Serve(p) \/ Break(p)
    BY <1>8 DEF Next
  <2>2. CASE Call(p) \/ Send(p) \/ SendDerived(p)
    BY <1>1, <1>2, <1>3, <2>2 DEF Registry!Next
  <2>3. CASE InputHasNoId(p) \/ Receive(p) \/ ReceiveError(p) \/ Return(p) \/ LoseAnswer(p)
    BY <1>4, <2>3
  <2>4. CASE Serve(p) \/ Break(p)
    BY <1>5, <1>6, <2>4 DEF Registry!Next
  <2> QED
    BY <2>1, <2>2, <2>3, <2>4 DEF Client
<1> QED
  BY <1>7, <1>8

\* Whatever scripts the processes run, and whatever breaks, the registry is used as
\* SqlRegistry says: no request passes an id that is not of the kind it is for, and
\* none names a project its anchor is not in.  What is proved of SqlRegistry for any
\* threads and any faults holds of the registry here.
THEOREM RegistryUsedAsSpecified == Spec => Registry!Spec
<1>1. Init => Registry!Init
  BY DEF Init
<1>2. IInv /\ [Next]_vars => [Registry!Next]_Registry!vars
  BY RegistryMoves
<1> QED
  BY <1>1, <1>2, Invariance, PTL DEF Spec, Registry!Spec
=============================================================================
