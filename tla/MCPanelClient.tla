--------------------------- MODULE MCPanelClient ---------------------------
(***************************************************************************)
(* Small sets for TLC: the eight packages with a VMess node; sspanel also  *)
(* in its old format, by the panel's release or, with Trojan, by setting.  *)
(* Each push has everything to report.                                     *)
(***************************************************************************)
EXTENDS PanelClient

NodeAnswer(port, rules, proto, release, raw) ==
    [port |-> port, net |-> "tcp", sec |-> "none", cipher |-> "", psk |-> "",
     speed |-> 0, clients |-> 1, vless |-> FALSE, reality |-> FALSE, rkey |-> "",
     proto |-> proto, version |-> 2, custom |-> TRUE, release |-> release,
     rules |-> rules, users |-> {}, raw |-> raw]

Settled(type, old) == [type |-> type, vless |-> FALSE, speed |-> 0, device |-> 0,
                       old |-> old]
SomeCfgs == {Settled("V2ray", FALSE), Settled("Trojan", TRUE)}
SomeDues == {{"traffic", "online", "illegal"}}
OldestRelease == <<2021, 1>>
OldRelease == <<2022, 1>>
NewRelease == <<2023, 2>>
GoodNodes  == {NodeAnswer(2, "block", "vmess", OldRelease, "whole")}
AllNodes   == GoodNodes \cup {NodeAnswer(2, "invalid", "vmess", NewRelease, "whole"),
                              NodeAnswer(0, "none", "vmess", NewRelease, "whole"),
                              NodeAnswer(2, "none", "trojan", OldestRelease, "cut")}
=============================================================================
