------------------------- MODULE MCPurviewRegistry -------------------------
(* Values of the constants of PurviewRegistry for TLC. *)
EXTENDS PurviewRegistry, TLC

CONSTANTS t1, t2, plain, streaming

\* An entity, and what it is linked to.
Is(type, qn, owners, inputs) ==
  [type |-> type, qn |-> qn, def |-> plain, owners |-> owners, inputs |-> inputs]

\* A catalogue of entities that are all linked; features keep no reference to the
\* source they consume.
Linked(list) ==
  [entities |-> [i \in DOMAIN list |->
     [type |-> list[i].type, qn |-> list[i].qn, def |-> list[i].def,
      refs |-> IF list[i].type = "AnchorFeature" THEN {} ELSE Range(list[i].inputs)]],
   edges |-> UNION {Range(Links(i, list[i])) : i \in DOMAIN list}]

Project == Is("Project", <<"p">>, <<>>, <<>>)
Source == Is("Source", <<"p", "a">>, <<1>>, <<>>)
Anchor == Is("Anchor", <<"p", "a">>, <<1>>, <<2>>)
Derived == Is("DerivedFeature", <<"p", "a">>, <<1>>, <<>>)
Other == Is("DerivedFeature", <<"p", "p">>, <<1>>, <<2>>)

\* Nothing; a project with a source, and with an anchor; one with a derived feature
\* made of another.
SomeCatalogues ==
  {Linked(<<>>), Linked(<<Project, Source>>), Linked(<<Project, Source, Anchor>>),
   Linked(<<Project, Derived, Other>>)}

\* A request that leaves out what makes a source a streaming one agrees with the
\* streaming source that is there; the other way round they differ.
LeavesOut == {<<plain, streaming>>}

ASSUME CompleteAssumption == \A c \in Catalogues : Complete(c)

ThreadSymmetry == Permutations(Threads)
=============================================================================
