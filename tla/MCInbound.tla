----------------------------- MODULE MCInbound -----------------------------
(***************************************************************************)
(* Small sets for TLC: every package with every node type and both formats *)
(* of sspanel, the local settings that differ in what is built, and node   *)
(* answers that do.                                                        *)
(***************************************************************************)
EXTENDS Inbound

Cfg(type, vless, old) ==
    [type |-> type, vless |-> vless, speed |-> 0, device |-> 0, old |-> old]
AllCfgs == {Cfg("V2ray", v, o) : v, o \in BOOLEAN}
           \cup {Cfg("Vmess", TRUE, FALSE)}
           \cup {Cfg(t, FALSE, FALSE) : t \in {"Vless", "Hysteria", "Hysteria2"}}
           \cup {Cfg(t, FALSE, o) : o \in BOOLEAN,
                 t \in {"Trojan", "Shadowsocks", "Shadowsocks-Plugin"}}

Local(cert, disableLocal, reality, realityConfigs, fallback) ==
    [cert |-> cert, disableLocal |-> disableLocal, reality |-> reality,
     realityConfigs |-> realityConfigs, rkey |-> "key", fallback |-> fallback]
SomeLocals ==
    {Local(c, d, r, TRUE, "off") : c \in {None, "none", "nofile", "lego"},
                                   d, r \in BOOLEAN}
    \cup {Local("file", d, r, FALSE, "off") : d, r \in BOOLEAN}
    \cup {Local("file", FALSE, FALSE, TRUE, f) : f \in {"ok", "nodest"}}

Node(port, net, sec, cipher, rkey) ==
    [port |-> port, net |-> net, sec |-> sec, cipher |-> cipher, psk |-> "",
     speed |-> 0, clients |-> 0, vless |-> sec = "reality",
     reality |-> sec = "reality", rkey |-> rkey, proto |-> "", version |-> 2, custom |-> TRUE,
     release |-> <<2023, 2>>, rules |-> "none", users |-> {"account"}, raw |-> "whole"]
SomeNodes ==
    {Node(2, n, s, "aes-128-gcm", "key") : n \in {"tcp", "ws"},
                                           s \in {"none", "tls", "reality"}}
    \cup {Node(2, "tcp", "reality", "2022-128", ""),
          Node(2, "quic", "none", "2022-128-UPPER", ""),
          Node(3, "kcp", "none", "2022-256", ""),
          Node(8, "tcp", "none", "bogus", ""),
          [Node(2, "tcp", "tls", "", "") EXCEPT !.raw = "cut"]}
=============================================================================
