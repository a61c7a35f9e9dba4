---------------------------- MODULE MCOrekaServer ----------------------------
(* Model-checking instances of OrekaServer. *)
EXTENDS OrekaServer, TLC

CONSTANTS c1, c2, p1, p2, p3, p4, h1, h2, h3, h4

\* The addresses of FILEs are interchangeable; so are calls when RxNamed singles
\* none of them out, and ports when StartupPorts and Unbindable do not.
PortSymmetry == Permutations(Heap) \cup Permutations(Ports)
CallSymmetry == Permutations(Calls) \cup Permutations(Heap)
Symmetry == CallSymmetry \cup Permutations(Ports)
==============================================================================
