------------------------- MODULE MCServerLifecycle -------------------------
(* Small instances of ServerLifecycle for TLC. *)
EXTENDS ServerLifecycle, TLC

CONSTANTS l1, l2, c1, c2, c3

OneLoop == {l1}
TwoLoops == {l1, l2}
TwoConns == {c1, c2}
ThreeConns == {c1, c2, c3}
NoDirect == {}
OneDirect == {c3}

\* Loops are interchangeable, and so are the conns loops accept.
Symmetry == Permutations({l1, l2}) \cup Permutations({c1, c2})

=============================================================================
