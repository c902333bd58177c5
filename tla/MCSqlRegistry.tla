--------------------------- MODULE MCSqlRegistry ---------------------------
(* Values of the constants of SqlRegistry for TLC. *)
EXTENDS SqlRegistry, TLC

PlainNames == {<<p>> : p \in Parts}

\* Names that hold the separator "__" as well.
JoinedNames == PlainNames \cup {<<p, p>> : p \in Parts}

Symmetry == Permutations(Threads) \cup Permutations(Parts) \cup Permutations(Defs)
=============================================================================
