-------------------------- MODULE MCTrafficReport --------------------------
(* Small instances of TrafficReport for TLC. *)
EXTENDS TrafficReport, TLC

CONSTANTS u1, u2, t1, t2

OneUser  == {u1}
TwoUsers == {u1, u2}
OneTag   == {t1}
TwoTags  == {t1, t2}

Symmetric == Permutations(Users) \cup Permutations(Tags)

=============================================================================
