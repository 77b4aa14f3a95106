----------------------------- MODULE NodeUsers -----------------------------
(* The users of a node and their connections: what the parts of Connection    *)
(* have in common.                                                            *)
EXTENDS Integers, FiniteSets

CONSTANTS
    Users, Conns,
    UserOf,       \* [Conns -> Users]
    None

ASSUME UserAssumption ==
    /\ UserOf \in [Conns -> Users]
    /\ IsFiniteSet(Conns)
=============================================================================
