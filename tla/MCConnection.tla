---------------------------- MODULE MCConnection ----------------------------
(* Nodes with speed limits only, with and without re-tags; with the auto      *)
(* speed limit; with the global device limit; and with rules, with re-tags,   *)
(* and with a client that has an ETag for the rules.                          *)
EXTENDS Connection, TLC

CONSTANTS c1, c2, u1, a1, a2, a3, bad, worse

MCUserOf == c1 :> u1 @@ c2 :> u1

Node == [speed |-> FALSE, auto |-> FALSE, global |-> FALSE, rules |-> FALSE,
         ruleETag |-> FALSE, sniffs |-> TRUE, retags |-> FALSE, most |-> 2]
MCSettings ==
    {[Node EXCEPT !.speed = TRUE],
     [Node EXCEPT !.speed = TRUE, !.retags = TRUE, !.most = 1],
     [Node EXCEPT !.speed = TRUE, !.auto = TRUE, !.most = 1],
     [Node EXCEPT !.global = TRUE],
     [Node EXCEPT !.rules = TRUE],
     [Node EXCEPT !.rules = TRUE, !.retags = TRUE, !.sniffs = FALSE, !.most = 1],
     [Node EXCEPT !.rules = TRUE, !.retags = TRUE, !.ruleETag = TRUE, !.most = 1]}

Symmetry == Permutations({c1, c2})

\* Once the history excuses everything that the properties say of a setting
\* (it is never taken back), the states after it are checked but not continued.
\* With the auto speed limit, reports and sweeps are followed while it excuses
\* nothing of what RecordExplained and InnocentNotLimited say.
Telling ==
    /\ setting.global => letIn # None
    /\ setting.auto => disturbed # Users \/ suspect # Users \/ raced = {}
    /\ setting.auto /\ push.pc # "idle" => disturbed # Users /\ suspect # Users
=============================================================================
