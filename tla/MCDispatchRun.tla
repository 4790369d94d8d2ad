--------------------------- MODULE MCDispatchRun ---------------------------
(* Small plans and hosts on which TLC checks DispatchRun. *)
EXTENDS DispatchRun

\* A join: 1 and 2 feed 3.
Join == <<  <<3>>, <<3>>, <<>> >>
\* A pipeline: 1 feeds 2.
Pipe == << <<2>>, <<>> >>
\* One node.
Single == << <<>> >>
NoNodes == {}
=============================================================================
