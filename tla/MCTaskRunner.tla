---------------------------- MODULE MCTaskRunner ----------------------------
(* Instances of TaskRunner for TLC.                                        *)
EXTENDS TaskRunner

SomeLists == {<<2, 1, 2>>, <<1, 1>>}
OneOrTwo == {0, 2}

=============================================================================
