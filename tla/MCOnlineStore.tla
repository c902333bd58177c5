---------------------------- MODULE MCOnlineStore ----------------------------
(* Values of the constants of OnlineStore for TLC; it has no liveness property. *)
EXTENDS OnlineStore, TLC

\* Redis to MongoDB without names, with faults; and both ways with names, where
\* nothing fails.
BothDirections ==
  {[from |-> "redis", to |-> "mongo", named |-> Features, written |-> {"redis"}, faults |-> FALSE],
   [from |-> "redis", to |-> "mongo", named |-> {}, written |-> {"redis"}, faults |-> TRUE],
   [from |-> "mongo", to |-> "redis", named |-> Features, written |-> {"mongo"}, faults |-> FALSE]}

Symmetry == Permutations(Keys) \cup Permutations(Features) \cup Permutations(Transfers)
=============================================================================
