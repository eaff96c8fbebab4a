----------------------------- MODULE MCAnghaIngest -----------------------------
(* Every outcome of NFiles files over two function names, a window of    *)
(* two futures on two workers.                                             *)
EXTENDS AnghaIngest

MCVerdicts == [Files -> {"f", "g", Rejected}]
MCStem == [f \in Files |-> f]
=============================================================================
