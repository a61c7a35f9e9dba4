------------------------- MODULE MCJsTransactions -------------------------
(* Instances of JsTransactions for TLC. *)
EXTENDS JsTransactions, TLC
CONSTANTS c1, c2, s1, s2, b1, b2
Symmetry == Permutations({c1, c2}) \cup Permutations({s1, s2})
=============================================================================
