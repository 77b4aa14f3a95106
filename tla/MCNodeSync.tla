---------------------------- MODULE MCNodeSync -----------------------------
(* Small instances of NodeSync for TLC. *)
EXTENDS NodeSync, TLC

CONSTANTS p1, p2, s1, s2, r1, a, b, good, other, bad

TwoPorts    == {p1, p2}
TwoSettings == {s1, s2}
OneRuleSet  == {r1}
TwoUids     == {a, b}
BothAccounts == {good, bad}
ThreeAccounts == {good, other, bad}
NoneBad     == {}
SomeBad     == {bad}
NoFaults    == {}
FetchFaults == {"users"}

Symmetric == Permutations(Ports) \cup Permutations(Settings)
             \cup Permutations(Uids)

=============================================================================
