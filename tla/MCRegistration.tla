--------------------------- MODULE MCRegistration ---------------------------
(* Values of the constants of Registration for TLC. *)
EXTENDS Registration, TLC

CONSTANTS ic, a1, a2, f1, d1, d2, old, new

\* Two anchors on INPUT_CONTEXT, one of them with a feature; two derived
\* features on top of each other.
AllOnInputContext == [a \in {a1, a2} |-> ic]
OneFeature == (a1 :> <<f1>>) @@ (a2 :> <<>>)
OnTopOfEachOther == (d1 :> {f1}) @@ (d2 :> {d1})

\* An anchor and what is derived from it; both anchors and a derived feature
\* without the one it is derived from, by a user who defines the feature another
\* way; and that derived feature alone.
Plain == [o \in Objects |-> old]
ThreeNotebooks ==
  {[anchors |-> <<a1>>, derived |-> {d1, d2}, script |-> Plain],
   [anchors |-> <<a1, a2>>, derived |-> {d2}, script |-> [Plain EXCEPT ![f1] = new]],
   [anchors |-> <<>>, derived |-> {d2}, script |-> Plain]}
=============================================================================
