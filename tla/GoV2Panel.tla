------------------------------ MODULE GoV2Panel ------------------------------
(* Package gov2panel: a V2board fork with other fields; only the traffic is *)
(* reported.                                                                *)
EXTENDS PanelApi

NodeTypes == V2rayTypes \cup PlainTypes

parseTrojanNodeResponse(cfg, s) ==
    [NodeInfo(cfg, s.port, "tcp") EXCEPT !.tls = TRUE]

parseSSNodeResponse(cfg, s) ==
    [NodeInfo(cfg, s.port, "tcp") EXCEPT !.cipher = s.cipher, !.psk = s.psk]

parseV2rayNodeResponse(cfg, s) ==
    [NodeInfo(cfg, s.port, s.net) EXCEPT !.tls = AsksTLS(s), !.vless = cfg.vless]

\* GetNodeInfo.
GetNodeInfo(cfg, c, a) ==
    LET told == StoreETag(c, a, "node")
        kept == [told EXCEPT !.resp = a.body.rules]
    IN  IF a.status = "same" THEN Reply(c, NotModified)
        ELSE IF ~Valid(a) \/ a.body.port = 0 THEN Reply(told, Error)
        ELSE IF cfg.type \in V2rayTypes THEN Reply(kept, parseV2rayNodeResponse(cfg, a.body))
        ELSE IF cfg.type = "Trojan" THEN Reply(kept, parseTrojanNodeResponse(cfg, a.body))
        ELSE IF cfg.type = "Shadowsocks" THEN Reply(kept, parseSSNodeResponse(cfg, a.body))
        ELSE Reply(kept, Error)

\* Only the local device limit.
UserOf(cfg, u) ==
    UserInfo("uuid", IF cfg.type = "Shadowsocks" THEN "uuid" ELSE None,
             SpeedLimit(cfg, u.speed), cfg.device)

GetUserList(cfg, c, a) ==
    LET told == StoreETag(c, a, "users")
    IN  IF cfg.type \notin NodeTypes THEN Reply(c, Error)
        ELSE IF a.status = "same" THEN Reply(c, NotModified)
        ELSE IF a.status = "nulls" THEN Reply(told, Panic)
        ELSE IF ~Valid(a) \/ a.body = {} THEN Reply(told, Error)
        ELSE Reply(told, {UserOf(cfg, u) : u \in a.body})

GetNodeRule(c) == Reply(c, IF c.resp = None THEN Panic ELSE Rules(c.resp))

ReportUserTraffic(c, a) == PostUnread(c, a)
=============================================================================
