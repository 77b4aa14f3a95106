--------------------------- MODULE MCDeviceLimit ----------------------------
(* Small instances of DeviceLimit for TLC. *)
EXTENDS DeviceLimit, TLC

CONSTANTS c1, c2, c3, c4, u1, u2, a1, a2

ThreeConns == {c1, c2, c3}
FourConns  == {c1, c2, c3, c4}
OneUser    == {u1}
TwoUsers   == {u1, u2}
TwoAddrs   == {a1, a2}

Symmetric == Permutations(Conns) \cup Permutations(Users)
             \cup Permutations(Addrs)

=============================================================================
