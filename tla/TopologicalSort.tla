-------------------------- MODULE TopologicalSort --------------------------
(***************************************************************************)
(* topological_sort of registry_utils.py: the order in which a client       *)
(* registers its derived features.  Lists are bags here, functions from     *)
(* features to the number of their copies: the order inside one level of    *)
(* the result follows the caller's list, and nothing depends on it.  A      *)
(* caller may list a feature twice, and a feature may name an input twice.  *)
(***************************************************************************)
EXTENDS Integers, Sequences, FiniteSets

CONSTANTS
  Features,       \* derived features
  MaxCopies,      \* bound: copies of a feature in the caller's list
  MaxUses         \* bound: times a feature names one input

ASSUME CountsAssumption == MaxCopies \in Nat /\ MaxUses \in Nat

VARIABLES
  inputs,         \* inputs[f][i]: how often f names i as an input; never changes
  listed,         \* derived_feature_list; never changes
  input,          \* what is not in ret yet
  current,        \* what may be the most downstream of input
  unseen,         \* the part of current_copy the for loop has not reached
  ret,            \* the levels found so far, most downstream first
  outcome         \* "none" while it runs, then "returned" or "raised"

vars == <<inputs, listed, input, current, unseen, ret, outcome>>

Bag == [Features -> Nat]
EmptyBag == [f \in Features |-> 0]
In(f, bag) == bag[f] > 0

TypeOK ==
  /\ inputs \in [Features -> Bag]
  /\ listed \in Bag /\ input \in Bag /\ current \in Bag /\ unseen \in Bag
  /\ ret \in Seq(Bag)
  /\ outcome \in {"none", "returned", "raised"}

Init ==
  /\ inputs \in [Features -> [Features -> 0..MaxUses]]
  /\ listed \in [Features -> 0..MaxCopies]
  /\ input = listed /\ current = listed /\ unseen = listed
  /\ ret = <<>>
  /\ outcome = "none"

RemoveUnchecked(f) == [i \in Features |-> current[i] - inputs[f][i]]
RemoveVisited(f) ==
  [i \in Features |-> IF i = f /\ In(f, current) /\ \E j \in Features : inputs[f][j] > 0
                      THEN current[i] - 1 ELSE current[i]]

\* One remove for every time f names an input that is still in the list.
WithoutInputs(f) ==
  [i \in Features |-> IF current[i] > inputs[f][i]
                      THEN current[i] - inputs[f][i] ELSE 0]

VisitCurrent(f) ==
  /\ outcome = "none"
  /\ In(f, input) /\ In(f, unseen)
  /\ unseen' = [unseen EXCEPT ![f] = @ - 1]
  /\ current' = IF In(f, current) THEN WithoutInputs(f) ELSE current
  /\ UNCHANGED <<inputs, listed, input, ret, outcome>>

\* The body of the for loop: what f depends on is not the most downstream.
Visit(f) ==
  /\ outcome = "none"
  /\ In(f, input) /\ In(f, unseen)
  /\ unseen' = [unseen EXCEPT ![f] = @ - 1]
  /\ current' = WithoutInputs(f)
  /\ UNCHANGED <<inputs, listed, input, ret, outcome>>

TakeEverything(bag, taken) == EmptyBag
TakeAllCopies(bag, taken) == [f \in Features |-> IF In(f, taken) THEN 0 ELSE bag[f]]

\* list.remove takes one copy away for each feature in taken.
Without(bag, taken) == [f \in Features |-> bag[f] - taken[f]]

\* The end of a round: the level goes to ret and out of input.
Take ==
  /\ outcome = "none"
  /\ input # EmptyBag /\ unseen = EmptyBag
  /\ ret' = IF current = EmptyBag THEN ret ELSE Append(ret, current)
  /\ input' = Without(input, current)
  /\ current' = input' /\ unseen' = input'
  /\ UNCHANGED <<inputs, listed, outcome>>

Placed == {f \in Features : \E k \in 1..Len(ret) : In(f, ret[k])}

\* The end of the loop, and the check of the result against the list.
Leave ==
  /\ outcome = "none"
  /\ input = EmptyBag
  /\ outcome' = IF Placed # {f \in Features : In(f, listed)}
                THEN "raised" ELSE "returned"
  /\ UNCHANGED <<inputs, listed, input, current, unseen, ret>>

Next == (\E f \in Features : Visit(f)) \/ Take \/ Leave

Spec == Init /\ [][Next]_vars

\* A sequential function runs on.
FairSpec == Spec /\ WF_vars(Next)

-----------------------------------------------------------------------------
(* Properties *)

\* ret is reversed before it is returned, so a registered feature finds all its
\* inputs registered: after every level with f there is one with each listed
\* input of f ("we need to make sure all upstream are registered before
\* registering one derived feature", registry_utils.py:226).
UpstreamFirst ==
  outcome = "returned" =>
    \A f, i \in Features : \A k \in 1..Len(ret) :
      /\ In(f, ret[k]) /\ inputs[f][i] > 0 /\ In(i, listed)
      => \E m \in (k + 1)..Len(ret) : In(i, ret[m])

\* placed[k] copies of f are in the first k levels.
CountsCopies(placed, f) ==
  /\ placed[0] = 0
  /\ \A k \in 1..Len(ret) : placed[k] = placed[k - 1] + ret[k][f]

\* Nothing is lost and nothing doubled: the copies of a feature the caller listed
\* are those still to be placed and those in the levels of the result.
EveryCopyPlaced ==
  \A f \in Features : \E placed \in [0..Len(ret) -> 0..listed[f]] :
    CountsCopies(placed, f) /\ listed[f] = input[f] + placed[Len(ret)]

\* Whatever the caller lists, the check after the loop finds nothing missing: the
\* loop is left only with every listed feature placed, and nothing else.
NeverRaises == outcome # "raised"

\* Listed features with an order in which each comes after its inputs.
Acyclic ==
  \E rank \in [Features -> 1..Cardinality(Features)] :
    \A f, i \in Features :
      In(f, listed) /\ In(i, listed) /\ inputs[f][i] > 0 => rank[i] < rank[f]

\* Without a cycle the function returns.
ReturnsWithoutCycle == Acyclic ~> outcome = "returned"

\* With a cycle it says so: "Cyclic dependency detected" (registry_utils.py:259).
ReportsCycle == ~Acyclic ~> outcome = "raised"

=============================================================================
