------------------------------- MODULE MCDeploy -------------------------------
(***************************************************************************)
(* Instances of Deploy for TLC: three commits, the second with new          *)
(* requirements, the third with a new unit file.                            *)
(***************************************************************************)
EXTENDS Deploy

MCReqs == <<"old", "new", "new">>
MCUnit == <<"u1", "u1", "u2">>

\* Commit 1 runs only with the requirements it was released with; commit 2 is broken.
MCWorks == {<<1, "old">>, <<3, "new">>}

\* Commit 3 logs an ERROR line while it starts.
MCNoisy == {<<3, "new">>}

\* Two commits: the second brings new requirements and does not come up.
MCReqs2 == <<"old", "new">>
OneUnit == <<"u1", "u1">>
MCWorks2 == {<<1, "old">>}
=============================================================================
