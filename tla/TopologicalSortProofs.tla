----------------------- MODULE TopologicalSortProofs -----------------------
(***************************************************************************)
(* For every graph of inputs and every list, cyclic ones included: what     *)
(* topological_sort returns has each feature's inputs before the feature,   *)
(* and its ValueError is never raised.                                      *)
(***************************************************************************)
EXTENDS TopologicalSort, TLAPS

\* The bags shrink from listed over input to current.
Shrinking ==
  \A f \in Features : /\ current[f] <= input[f] /\ unseen[f] <= input[f]
                      /\ input[f] <= listed[f]

\* A feature waits for its inputs: while it is in input, they are.
Waiting ==
  \A f, i \in Features :
    In(f, input) /\ inputs[f][i] > 0 /\ In(i, listed) => In(i, input)

\* Of what a visited feature needs, a copy stays out of this level.
HeldBack ==
  \A f, i \in Features :
    unseen[f] < input[f] /\ inputs[f][i] > 0 /\ In(i, input)
    => current[i] < input[i]

\* What a placed feature needs is placed in a later level or waits.
Backed ==
  \A f, i \in Features : \A k \in 1..Len(ret) :
    In(f, ret[k]) /\ inputs[f][i] > 0 /\ In(i, listed)
    => In(i, input) \/ \E m \in (k + 1)..Len(ret) : In(i, ret[m])

\* What is listed is placed or waits, and only what is listed is placed.
Accounted ==
  /\ \A f \in Features : In(f, listed) => In(f, input) \/ f \in Placed
  /\ \A f \in Placed : In(f, listed)

\* The function ends with an empty list and does not raise.
Ended == /\ outcome # "none" => input = EmptyBag
         /\ outcome # "raised"

IInv == /\ TypeOK /\ Shrinking /\ Waiting /\ HeldBack
        /\ Backed /\ Accounted /\ Ended

LEMMA InitIInv == Init => IInv
<1> SUFFICES ASSUME Init PROVE IInv
  OBVIOUS
<1> USE CountsAssumption DEF Init
<1>1. TypeOK
  BY DEF TypeOK, Bag
<1>2. Shrinking /\ Waiting /\ HeldBack
  BY <1>1 DEF Shrinking, Waiting, HeldBack, TypeOK, Bag
<1>3. Len(ret) = 0
  OBVIOUS
<1>4. Backed /\ Accounted
  BY <1>1, <1>3 DEF Backed, Accounted, Placed, TypeOK, Bag
<1>5. Ended
  BY DEF Ended
<1> QED
  BY <1>1, <1>2, <1>4, <1>5 DEF IInv

\* What WithoutInputs leaves of current: no more than there was, and less than
\* any positive bound of it for each input of f.
LEMMA WithoutInputsShrinks ==
  ASSUME TypeOK, NEW f \in Features
  PROVE  /\ WithoutInputs(f) \in Bag
         /\ \A i \in Features : WithoutInputs(f)[i] <= current[i]
         /\ \A i \in Features : inputs[f][i] > 0
              => WithoutInputs(f)[i] < current[i] \/ WithoutInputs(f)[i] = 0
<1>1. \A i \in Features : current[i] \in Nat /\ inputs[f][i] \in Nat
  BY DEF TypeOK, Bag
<1> QED
  BY <1>1 DEF WithoutInputs, Bag

LEMMA VisitIInv ==
  ASSUME IInv, NEW f \in Features, Visit(f)
  PROVE  IInv'
<1> USE DEF IInv
<1>1. /\ unseen' \in Bag /\ \A g \in Features : unseen'[g] <= unseen[g]
      /\ \A g \in Features \ {f} : unseen'[g] = unseen[g]
  BY DEF Visit, TypeOK, Bag, In
<1>2. /\ current' \in Bag
      /\ \A i \in Features : current'[i] <= current[i]
      /\ \A i \in Features : inputs[f][i] > 0 => current'[i] < current[i] \/ current'[i] = 0
  BY WithoutInputsShrinks DEF Visit
<1>3. TypeOK'
  BY <1>1, <1>2 DEF Visit, TypeOK
<1> USE DEF TypeOK, Bag
<1>4. Shrinking'
  BY <1>1, <1>2 DEF Visit, Shrinking
<1>5. HeldBack'
  <2> SUFFICES ASSUME NEW g \in Features, NEW i \in Features,
                      unseen'[g] < input[g], inputs[g][i] > 0, In(i, input)
               PROVE  current'[i] < input[i]
    BY DEF HeldBack, Visit, In
  <2>1. CASE g = f
    BY <1>2, <2>1 DEF Shrinking, In
  <2>2. CASE g # f
    <3>1. current[i] < input[i]
      BY <1>1, <2>2 DEF HeldBack
    <3> QED
      BY <1>2, <3>1
  <2> QED
    BY <2>1, <2>2
<1>6. Waiting' /\ Backed' /\ Accounted' /\ Ended'
  BY DEF Visit, Waiting, Backed, Accounted, Ended, Placed, In, EmptyBag
<1> QED
  BY <1>3, <1>4, <1>5, <1>6

LEMMA TakeIInv ==
  ASSUME IInv, Take
  PROVE  IInv'
<1> USE DEF IInv
<1> /\ ret \in Seq(Bag) /\ input \in Bag /\ current \in Bag /\ listed \in Bag
    /\ inputs \in [Features -> Bag]
  BY DEF TypeOK
<1>1. \A f \in Features : /\ input'[f] = input[f] - current[f]
                          /\ input'[f] \in Nat /\ input'[f] <= input[f]
  <2> SUFFICES ASSUME NEW f \in Features
               PROVE  /\ input'[f] = input[f] - current[f]
                      /\ input'[f] \in Nat /\ input'[f] <= input[f]
    OBVIOUS
  <2>1. input'[f] = input[f] - current[f]
    BY DEF Take, Without
  <2>2. input[f] \in Nat /\ current[f] \in Nat /\ current[f] <= input[f]
    BY DEF Shrinking, Bag
  <2> QED
    BY <2>1, <2>2
<1>2. /\ input' \in Bag /\ current' = input' /\ unseen' = input'
      /\ inputs' = inputs /\ listed' = listed /\ outcome' = outcome
  BY <1>1 DEF Take, Without, Bag
<1>3. ret' = ret \/ ret' = Append(ret, current)
  BY DEF Take
<1>4. TypeOK'
  BY <1>2, <1>3 DEF TypeOK
<1>5. Shrinking' /\ HeldBack'
  BY <1>1, <1>2 DEF Shrinking, HeldBack, Bag
\* At the end of a round every feature left was visited.
<1>6. \A f, i \in Features :
        In(f, input) /\ inputs[f][i] > 0 /\ In(i, listed) => In(i, input')
  <2> SUFFICES ASSUME NEW f \in Features, NEW i \in Features,
                      In(f, input), inputs[f][i] > 0, In(i, listed)
               PROVE  In(i, input')
    OBVIOUS
  <2>1. In(i, input)
    BY DEF Waiting
  <2>2. unseen[f] < input[f]
    BY DEF Take, EmptyBag, In, Bag
  <2>3. current[i] < input[i]
    BY <2>1, <2>2 DEF HeldBack
  <2> QED
    BY <1>1, <2>3 DEF In, Bag
<1>7. Waiting'
  <2>1. \A f \in Features : In(f, input') => In(f, input)
    BY <1>1 DEF In, Bag
  <2> QED
    BY <1>2, <1>6, <2>1 DEF Waiting, In
\* What leaves input is in the level that this step appends.
<1>8. \A f \in Features : In(f, input) /\ ~In(f, input') =>
        /\ ret' = Append(ret, current)
        /\ In(f, current)
  <2> SUFFICES ASSUME NEW f \in Features, In(f, input), ~In(f, input')
               PROVE  ret' = Append(ret, current) /\ In(f, current)
    OBVIOUS
  <2>1. In(f, current)
    BY <1>1 DEF In, Bag
  <2>2. current # EmptyBag
    BY <2>1 DEF In, EmptyBag
  <2> QED
    BY <2>1, <2>2 DEF Take
<1>9. /\ \A k \in 1..Len(ret) : k \in 1..Len(ret') /\ ret'[k] = ret[k]
      /\ \A k \in 1..Len(ret') : k \notin 1..Len(ret) =>
           /\ k = Len(ret) + 1 /\ ret'[k] = current
           /\ ret' = Append(ret, current)
      /\ ret' = Append(ret, current) =>
           Len(ret') = Len(ret) + 1 /\ ret'[Len(ret) + 1] = current
      /\ Len(ret) \in Nat /\ Len(ret') \in Nat
  BY <1>3
<1>10. \A f \in Features : In(f, current) => In(f, input)
  BY DEF Shrinking, In, Bag
<1>11. Backed'
  <2> SUFFICES ASSUME NEW f \in Features, NEW i \in Features, NEW k \in 1..Len(ret'),
                      In(f, ret'[k]), inputs[f][i] > 0, In(i, listed),
                      ~In(i, input')
               PROVE  \E m \in (k + 1)..Len(ret') : In(i, ret'[m])
    BY <1>2 DEF Backed, In
  <2>1. k \in 1..Len(ret)
    <3> SUFFICES ASSUME k \notin 1..Len(ret) PROVE FALSE
      OBVIOUS
    <3>1. In(f, current)
      BY <1>9 DEF In
    <3> QED
      BY <1>6, <1>10, <3>1
  <2>2. In(f, ret[k])
    BY <1>9, <2>1 DEF In
  <2>3. CASE In(i, input)
    <3>1. ret' = Append(ret, current) /\ In(i, current)
      BY <1>8, <2>3
    <3>2. Len(ret) + 1 \in (k + 1)..Len(ret') /\ ret'[Len(ret) + 1] = current
      BY <1>9, <2>1, <3>1
    <3> QED
      BY <3>1, <3>2 DEF In
  <2>4. CASE \E m \in (k + 1)..Len(ret) : In(i, ret[m])
    <3>1. PICK m \in (k + 1)..Len(ret) : In(i, ret[m])
      BY <2>4
    <3>2. m \in 1..Len(ret)
      BY <1>9, <2>1
    <3>3. m \in (k + 1)..Len(ret') /\ ret'[m] = ret[m]
      BY <1>9, <2>1, <3>2
    <3> QED
      BY <3>1, <3>3 DEF In
  <2> QED
    BY <2>1, <2>2, <2>3, <2>4 DEF Backed
<1>12. Accounted'
  <2>1. \A f \in Features : In(f, listed) => In(f, input') \/ f \in Placed'
    <3> SUFFICES ASSUME NEW f \in Features, In(f, listed), ~In(f, input')
                 PROVE  \E k \in 1..Len(ret') : In(f, ret'[k])
      BY DEF Placed, In
    <3>1. CASE In(f, input)
      <4>1. ret' = Append(ret, current) /\ In(f, current)
        BY <1>8, <3>1
      <4>2. Len(ret) + 1 \in 1..Len(ret') /\ ret'[Len(ret) + 1] = current
        BY <1>9, <4>1
      <4> QED
        BY <4>1, <4>2 DEF In
    <3>2. CASE f \in Placed
      BY <1>9, <3>2 DEF Placed, In
    <3> QED
      BY <3>1, <3>2 DEF Accounted
  <2>2. \A f \in Placed' : In(f, listed)
    <3> SUFFICES ASSUME NEW f \in Features, NEW k \in 1..Len(ret'), In(f, ret'[k])
                 PROVE  In(f, listed)
      BY DEF Placed, In
    <3>1. CASE k \in 1..Len(ret)
      BY <1>9, <3>1 DEF Accounted, Placed, In
    <3>2. CASE k \notin 1..Len(ret)
      BY <1>9, <3>2 DEF Shrinking, In, Bag
    <3> QED
      BY <3>1, <3>2
  <2> QED
    BY <1>2, <2>1, <2>2 DEF Accounted, In
<1>13. Ended'
  BY <1>2 DEF Ended, Take
<1> QED
  BY <1>4, <1>5, <1>7, <1>11, <1>12, <1>13

LEMMA LeaveIInv ==
  ASSUME IInv, Leave
  PROVE  IInv'
<1> USE DEF IInv
<1>1. Placed = {f \in Features : In(f, listed)}
  <2>1. \A f \in Features : ~In(f, input)
    BY DEF Leave, EmptyBag, In
  <2> QED
    BY <2>1 DEF Accounted, Placed
<1>2. outcome' = "returned"
  BY <1>1 DEF Leave
<1>3. TypeOK'
  BY <1>2 DEF Leave, TypeOK
<1>4. Ended'
  BY <1>2 DEF Ended, Leave, EmptyBag
<1> QED
  BY <1>3, <1>4 DEF Leave, Shrinking, Waiting, HeldBack, Backed, Accounted,
                    Placed, In

LEMMA NextIInv == IInv /\ [Next]_vars => IInv'
<1> SUFFICES ASSUME IInv, [Next]_vars PROVE IInv'
  OBVIOUS
<1>1. ASSUME NEW f \in Features, Visit(f) PROVE IInv'
  BY <1>1, VisitIInv
<1>2. CASE Take
  BY <1>2, TakeIInv
<1>3. CASE Leave
  BY <1>3, LeaveIInv
<1>4. CASE UNCHANGED vars
  BY <1>4 DEF vars, IInv, TypeOK, Shrinking, Waiting, HeldBack, Backed,
              Accounted, Ended, Placed, In, EmptyBag, Bag
<1> QED
  BY <1>1, <1>2, <1>3, <1>4 DEF Next

LEMMA Invariance == Spec => []IInv
<1>1. Init => IInv
  BY InitIInv
<1>2. IInv /\ [Next]_vars => IInv'
  BY NextIInv
<1> QED
  BY <1>1, <1>2, PTL DEF Spec

\* Whatever features depend on each other and in whatever order and number they
\* are listed, the result of topological_sort registers inputs first.
THEOREM SortedUpstreamFirst == Spec => []UpstreamFirst
<1>1. IInv => UpstreamFirst
  <2> SUFFICES ASSUME IInv, outcome = "returned",
                      NEW f \in Features, NEW i \in Features, NEW k \in 1..Len(ret),
                      In(f, ret[k]), inputs[f][i] > 0, In(i, listed)
               PROVE  \E m \in (k + 1)..Len(ret) : In(i, ret[m])
    BY DEF UpstreamFirst
  <2>1. ~In(i, input)
    BY DEF IInv, Ended, EmptyBag, In
  <2> QED
    BY <2>1 DEF IInv, Backed
<1> QED
  BY <1>1, Invariance, PTL

\* "Cyclic dependency detected" is dead code: the check of the result against the
\* list never fails, with a cycle in the list or without.
THEOREM CycleNeverReported == Spec => []NeverRaises
<1>1. IInv => NeverRaises
  BY DEF IInv, Ended, NeverRaises
<1> QED
  BY <1>1, Invariance, PTL

\* The lists of the loop stay bags of features: remove is never called for a copy
\* that is not there.
THEOREM TypeCorrectness == Spec => []TypeOK
<1>1. IInv => TypeOK
  BY DEF IInv
<1> QED
  BY <1>1, Invariance, PTL

LEMMA InitEveryCopyPlaced == Init => EveryCopyPlaced
<1> SUFFICES ASSUME Init, NEW f \in Features
             PROVE  \E placed \in [0..Len(ret) -> 0..listed[f]] :
                      CountsCopies(placed, f) /\ listed[f] = input[f] + placed[Len(ret)]
  BY DEF EveryCopyPlaced
<1>1. Len(ret) = 0 /\ listed[f] \in Nat /\ input[f] = listed[f]
  BY CountsAssumption DEF Init
<1>2. PICK placed : placed = [k \in 0..0 |-> 0]
  OBVIOUS
<1>3. placed \in [0..Len(ret) -> 0..listed[f]] /\ placed[0] = 0
  BY <1>1, <1>2
<1>4. CountsCopies(placed, f)
  BY <1>1, <1>3 DEF CountsCopies
<1> QED
  BY <1>1, <1>3, <1>4

\* A level takes out of input what it adds to ret.
LEMMA TakePlacesCopies ==
  ASSUME IInv, EveryCopyPlaced, Take
  PROVE  EveryCopyPlaced'
<1> SUFFICES ASSUME NEW f \in Features
             PROVE  \E placed \in [0..Len(ret') -> 0..listed'[f]] :
                      CountsCopies(placed, f)' /\ listed'[f] = input'[f] + placed[Len(ret')]
  BY DEF EveryCopyPlaced
<1>1. PICK placed \in [0..Len(ret) -> 0..listed[f]] :
        CountsCopies(placed, f) /\ listed[f] = input[f] + placed[Len(ret)]
  BY DEF EveryCopyPlaced
<1>2. /\ listed[f] \in Nat /\ input[f] \in Nat /\ current[f] \in Nat
      /\ current[f] <= input[f] /\ input[f] <= listed[f]
      /\ ret \in Seq(Bag) /\ current \in Bag /\ Len(ret) \in Nat
  BY DEF IInv, TypeOK, Bag, Shrinking
<1>3. listed' = listed /\ input'[f] = input[f] - current[f]
  BY DEF Take, Without
<1>4. CASE ret' = ret /\ current = EmptyBag
  <2>1. input'[f] = input[f]
    BY <1>2, <1>3, <1>4 DEF EmptyBag
  <2>2. CountsCopies(placed, f)'
    BY <1>1, <1>4 DEF CountsCopies
  <2> QED
    BY <1>1, <1>3, <1>4, <2>1, <2>2
<1>5. CASE ret' = Append(ret, current)
  <2>1. /\ Len(ret') = Len(ret) + 1 /\ ret'[Len(ret')] = current
        /\ \A k \in 1..Len(ret) : ret'[k] = ret[k]
    BY <1>2, <1>5
  <2>2. PICK more : more = [k \in 0..Len(ret') |->
                              IF k = Len(ret') THEN placed[Len(ret)] + current[f] ELSE placed[k]]
    OBVIOUS
  <2>3. /\ more[Len(ret')] = placed[Len(ret)] + current[f]
        /\ \A k \in 0..Len(ret) : more[k] = placed[k]
    BY <1>2, <2>1, <2>2
  <2>4. placed[Len(ret)] + current[f] \in 0..listed[f]
    BY <1>1, <1>2
  <2>5. more \in [0..Len(ret') -> 0..listed'[f]]
    BY <1>2, <1>3, <2>1, <2>2, <2>4
  <2>6. more[0] = 0
    BY <1>1, <1>2, <2>3 DEF CountsCopies
  <2>7. ASSUME NEW k \in 1..Len(ret') PROVE more[k] = more[k - 1] + ret'[k][f]
    <3>1. CASE k = Len(ret')
      BY <1>2, <2>1, <2>3, <3>1
    <3>2. CASE k # Len(ret')
      <4>1. k \in 1..Len(ret) /\ k \in 0..Len(ret) /\ k - 1 \in 0..Len(ret)
        BY <1>2, <2>1, <3>2
      <4> QED
        BY <1>1, <2>1, <2>3, <4>1 DEF CountsCopies
    <3> QED
      BY <3>1, <3>2
  <2>8. CountsCopies(more, f)'
    BY <2>6, <2>7 DEF CountsCopies
  <2> QED
    BY <1>1, <1>2, <1>3, <2>3, <2>5, <2>8
<1> QED
  BY <1>4, <1>5 DEF Take

\* However often features are listed and name each other, topological_sort neither
\* loses a copy nor registers one twice.
THEOREM EveryCopyPlacedAlways == Spec => []EveryCopyPlaced
<1>1. IInv /\ EveryCopyPlaced /\ [Next]_vars => EveryCopyPlaced'
  <2> SUFFICES ASSUME IInv, EveryCopyPlaced, [Next]_vars PROVE EveryCopyPlaced'
    OBVIOUS
  <2>1. CASE Take
    BY <2>1, TakePlacesCopies
  <2>2. ASSUME UNCHANGED <<listed, input, ret>> PROVE EveryCopyPlaced'
    BY <2>2 DEF EveryCopyPlaced, CountsCopies
  <2> QED
    BY <2>1, <2>2 DEF Next, Visit, Leave, vars
<1> QED
  BY <1>1, InitEveryCopyPlaced, Invariance, PTL DEF Spec

=============================================================================
