------------------------------- MODULE Xboard -------------------------------
(* Package xboard: V2 of the panel's API, and V1 for good once a V2 request *)
(* was answered 404.                                                        *)
EXTENDS PanelApi

\* configPath, userPath, alivePath: chosen when the request is sent.
Path(c) == IF c.useV1 THEN "v1" ELSE "v2"

nodeTypeForRequests(type, vless) ==
    IF type = "V2ray" /\ vless THEN "vless"
    ELSE IF type \in {"V2ray", "Vmess"} THEN "vmess"
    ELSE IF type \in {"Hysteria", "Hysteria2"} THEN "hysteria"
    ELSE IF type = "Vless" THEN "vless"
    ELSE IF type = "Trojan" THEN "trojan"
    ELSE IF type = "Shadowsocks" THEN "shadowsocks"
    ELSE type

protocolMatches(cfg, protocol) ==
    protocol = nodeTypeForRequests(cfg.type, cfg.vless)

\* Mutant of parseResponse: after the fallback the call has failed.
parseResponseNoRetry(c, a) ==
    CASE a.status \in Answered -> Reply(c, "answered")
      [] a.status = "missing" /\ ~c.useV1 /\ a.path = "v2"
           -> Reply([c EXCEPT !.useV1 = TRUE], Error)
      [] OTHER -> Reply(c, Error)

\* parseResponse: the first 404 of a V2 request turns the client to V1, and its
\* caller sends the request Again.
parseResponse(c, a) ==
    CASE a.status \in Answered -> Reply(c, "answered")
      [] a.status = "missing" /\ ~c.useV1 /\ a.path = "v2"
           -> Reply([c EXCEPT !.useV1 = TRUE], Again)
      [] OTHER -> Reply(c, Error)

\* tlsMode.
tlsMode(sec) == [tls |-> sec # "none", reality |-> sec = "reality"]

\* REALITYConfig is there only if the panel asks for REALITY.
parseTrojanNodeResponse(cfg, s) ==
    [NodeInfo(cfg, s.port, IF s.net = Empty THEN "tcp" ELSE s.net)
     EXCEPT !.tls = tlsMode(s.sec).tls, !.reality = tlsMode(s.sec).reality,
            !.rkey = IF s.sec = "reality" THEN s.rkey ELSE None]

parseSSNodeResponse(cfg, s) ==
    [NodeInfo(cfg, s.port, "tcp") EXCEPT !.cipher = s.cipher, !.psk = s.psk]

EnableVless(cfg) == nodeTypeForRequests(cfg.type, cfg.vless) = "vless"
parseV2rayNodeResponse(cfg, s) ==
    [NodeInfo(cfg, s.port, s.net)
     EXCEPT !.tls = tlsMode(s.sec).tls, !.reality = tlsMode(s.sec).reality,
            !.rkey = s.rkey,
            !.vless = EnableVless(cfg)]

parseHysteriaNodeResponse(cfg, s) ==
    IF s.version # 2 THEN Error
    ELSE [NodeInfo(cfg, s.port, "hysteria")
          EXCEPT !.tls = TRUE, !.hysteria = s.version]

parseNode(cfg, s) ==
    CASE s.proto \in {"vmess", "vless"} -> parseV2rayNodeResponse(cfg, s)
      [] s.proto = "trojan"             -> parseTrojanNodeResponse(cfg, s)
      [] s.proto = "shadowsocks"        -> parseSSNodeResponse(cfg, s)
      [] s.proto = "hysteria"           -> parseHysteriaNodeResponse(cfg, s)
      [] OTHER                          -> Error

\* GetNodeInfo.  The ETag is stored once the body is JSON.
GetNodeInfo(cfg, c, a) ==
    LET p == parseResponse(c, a)
        told == IF WellFormed(a) THEN StoreETag(c, a, "node") ELSE c
    IN  IF a.status = "same" THEN Reply(c, NotModified)
        ELSE IF p.out # "answered" THEN p
        ELSE IF ~Valid(a) THEN Reply(told, Error)
        ELSE IF a.body.port = 0 \/ ~protocolMatches(cfg, a.body.proto) THEN Reply(told, Error)
        ELSE Reply([told EXCEPT !.resp = a.body.rules], parseNode(cfg, a.body))

UserOf(cfg, u) ==
    UserInfo("uuid", IF cfg.type = "Shadowsocks" THEN "uuid" ELSE None,
             SpeedLimit(cfg, u.speed), DeviceLimit(cfg, u.limit))

\* GetUserList.  The ETag is stored before the body is parsed.
GetUserList(cfg, c, a) ==
    LET p == parseResponse(c, a)
        told == StoreETag(c, a, "users")
    IN  IF a.status = "same" THEN Reply(c, NotModified)
        ELSE IF p.out # "answered" THEN p
        ELSE IF a.status = "nulls" THEN Reply(told, Panic)
        ELSE IF ~Valid(a) \/ a.body = {} THEN Reply(told, Error)
        ELSE Reply(told, {UserOf(cfg, u) : u \in a.body})

\* GetUserAlive.
GetUserAlive(c, a) ==
    LET p == parseResponse(c, a)
    IN  IF p.out # "answered" THEN p
        ELSE IF WellFormed(a) THEN Reply(c, "done")
        ELSE Reply(c, Error)

\* GetNodeRule: no request; without a configuration there are no panel rules.
GetNodeRule(c) == Reply(c, IF c.resp = None THEN {} ELSE Rules(c.resp))

\* Reports: a body that says no is an answer all the same.
ReportUserTraffic(c, a) ==
    LET p == parseResponse(c, a)
    IN  IF p.out = "answered" THEN Reply(c, "done") ELSE p
\* Errors are not passed on.
ReportNodeOnlineUsers(c, a) ==
    LET p == parseResponse(c, a)
    IN  IF p.out = Again THEN p ELSE Reply(p.client, "done")
\* V1 has no such endpoint.  A fallback is taken for success, nothing is sent again.
ReportNodeStatus(c, a) ==
    LET p == parseResponse(c, a)
    IN  IF p.out = Error THEN p ELSE Reply(p.client, "done")
=============================================================================
