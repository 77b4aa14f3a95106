----------------------------- MODULE NewV2board -----------------------------
(* Package newV2board.                                                      *)
EXTENDS PanelApi

NodeTypes == V2rayTypes \cup PlainTypes

\* Always TLS, REALITY never.
parseTrojanNodeResponse(cfg, s) ==
    [NodeInfo(cfg, s.port, IF s.net = Empty THEN "tcp" ELSE s.net)
     EXCEPT !.tls = TRUE]

parseSSNodeResponse(cfg, s) ==
    [NodeInfo(cfg, s.port, "tcp") EXCEPT !.cipher = s.cipher, !.psk = s.psk]

EnableTLS(s) == s.sec # "none"
\* tls is 0, 1 or 2 for REALITY; there is always a REALITYConfig.
parseV2rayNodeResponse(cfg, s) ==
    [NodeInfo(cfg, s.port, s.net)
     EXCEPT !.tls = EnableTLS(s), !.reality = AsksREALITY(s),
            !.rkey = s.rkey, !.vless = cfg.vless]

\* Mutant of GetNodeInfo: whatever came is kept, nil after an error.
GetNodeInfoKeepsAny(cfg, c, a) ==
    LET told == StoreETag(c, a, "node")
    IN  IF a.status = "same" THEN Reply(c, NotModified)
        ELSE IF ~Valid(a) \/ a.body.port = 0 THEN Reply([told EXCEPT !.resp = None], Error)
        ELSE Reply([told EXCEPT !.resp = a.body.rules],
                   parseV2rayNodeResponse(cfg, a.body))

\* GetNodeInfo.  The configuration is kept before the node type is looked at.
GetNodeInfo(cfg, c, a) ==
    LET told == StoreETag(c, a, "node")
        kept == [told EXCEPT !.resp = a.body.rules]
    IN  IF a.status = "same" THEN Reply(c, NotModified)
        ELSE IF ~Valid(a) \/ a.body.port = 0 THEN Reply(told, Error)
        ELSE IF cfg.type \in V2rayTypes THEN Reply(kept, parseV2rayNodeResponse(cfg, a.body))
        ELSE IF cfg.type = "Trojan" THEN Reply(kept, parseTrojanNodeResponse(cfg, a.body))
        ELSE IF cfg.type = "Shadowsocks" THEN Reply(kept, parseSSNodeResponse(cfg, a.body))
        ELSE Reply(kept, Error)

UserOf(cfg, u) ==
    UserInfo("uuid", IF cfg.type = "Shadowsocks" THEN "uuid" ELSE None,
             SpeedLimit(cfg, u.speed), DeviceLimit(cfg, u.limit))

\* GetUserList.  An empty list is an error, its ETag is kept; the users are
\* pointers, which are read without a look.
GetUserList(cfg, c, a) ==
    LET told == StoreETag(c, a, "users")
    IN  IF cfg.type \notin NodeTypes THEN Reply(c, Error)
        ELSE IF a.status = "same" THEN Reply(c, NotModified)
        ELSE IF a.status = "nulls" THEN Reply(told, Panic)
        ELSE IF ~Valid(a) \/ a.body = {} THEN Reply(told, Error)
        ELSE Reply(told, {UserOf(cfg, u) : u \in a.body})

\* GetUserAlive.
GetUserAlive(c, a) == Reply(c, IF WellFormed(a) THEN "done" ELSE Error)

\* GetNodeRule: no request; an interface that holds nil is asserted.
GetNodeRule(c) == Reply(c, IF c.resp = None THEN Panic ELSE Rules(c.resp))

ReportUserTraffic(c, a)     == PostUnread(c, a)
\* "the panel has no such endpoint: no error for now"
ReportNodeOnlineUsers(c, a) == Reply(c, "done")
=============================================================================
