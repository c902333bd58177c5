---------------------------- MODULE MCWorkspace ----------------------------
(* Values of the constants of Workspace for TLC. *)
EXTENDS Workspace, TLC

CONSTANTS clean, other, namesake, bad

\* Two functions of one name, one that is broken.
Named == (clean :> "clean") @@ (other :> "other") @@ (namesake :> "clean") @@ (bad :> "bad")

\* Both anchors with a function each; two functions of one name; no function; a
\* broken one after a good one; and one that fails late.
FiveLists ==
  {(1 :> clean) @@ (2 :> other), (1 :> clean) @@ (2 :> namesake),
   1 :> NoFunc, (1 :> clean) @@ (2 :> bad), (1 :> other) @@ (2 :> NoFunc)}
TwoDays == <<"day1", "day2">>

FailLate == {(1 :> other) @@ (2 :> NoFunc)}
=============================================================================
