--------------------------- MODULE MCRunContract ---------------------------
(* A small plan on which TLC checks RunContract and BlockBranch. *)
EXTENDS BlockBranch

\* A plan with two roots, joins, a shortcut, and successors out of order: a walk
\* reaches nodes again that it blocked, and settled nodes in its way.
Lattice == << <<4, 3>>, <<5, 3>>, <<6, 4, 5>>, <<6>>, <<6>>, <<>> >>
=============================================================================
