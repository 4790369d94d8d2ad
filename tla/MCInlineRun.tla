---------------------------- MODULE MCInlineRun ----------------------------
(* Small plans on which TLC checks InlineRun. *)
EXTENDS InlineRun

\* A join: 1 and 2 feed 3.
Join == << <<3>>, <<3>>, <<>> >>
NoNodes == {}
=============================================================================
