----------------------------- MODULE MCService -----------------------------
(***************************************************************************)
(* Small sets for TLC: two Controllers, so that a replaced one and the one *)
(* that follows can be at work at once.                                    *)
(***************************************************************************)
EXTENDS Service

TwoGens  == 1..2
AllJobs  == TwoGens \X {"start", "node", "cert"}
KeyIds3  == 1..3
CertIds5 == 1..5
=============================================================================
