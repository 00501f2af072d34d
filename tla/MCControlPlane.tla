--------------------------- MODULE MCControlPlane ---------------------------
(* Instance of ControlPlane for TLC.                                       *)
EXTENDS ControlPlane

\* A job for every minute, one for every other minute, and one for two of them.
Schedules == <<0 .. 9, {1, 3, 5}, {0, 4}>>

\* The first agent's work is about both crons, the second one's about one.
AboutCrons == {<<"a1", "c1">>, <<"a1", "c2">>, <<"a2", "c2">>}
=============================================================================
