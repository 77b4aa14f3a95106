----------------------------- MODULE ProxyPanel -----------------------------
(* Package proxypanel: no ETags; a device limit of the node that is taken   *)
(* from the first answer that has one.                                      *)
EXTENDS PanelApi

NodeTypes == V2rayTypes \cup PlainTypes

\* The DeviceLimit field is the local setting until a node answer fills it.
TakeClientLimit(c, s) ==
    IF c.device = 0 /\ s.clients > 0 THEN [c EXCEPT !.device = s.clients] ELSE c

ParseV2rayNodeResponse(cfg, c, s) ==
    Reply(TakeClientLimit(c, s),
          [NodeInfo(cfg, s.port, s.net)
           EXCEPT !.speed = SpeedLimit(cfg, s.speed), !.tls = AsksTLS(s),
                  !.vless = cfg.vless])

ParseSSNodeResponse(cfg, c, s) ==
    Reply(TakeClientLimit(c, s),
          [NodeInfo(cfg, s.port, "tcp")
           EXCEPT !.speed = SpeedLimit(cfg, s.speed), !.cipher = s.cipher])

ParseTrojanNodeResponse(cfg, c, s) ==
    Reply(TakeClientLimit(c, s),
          [NodeInfo(cfg, s.port, "tcp")
           EXCEPT !.speed = SpeedLimit(cfg, s.speed), !.tls = TRUE])

GetNodeInfo(cfg, c, a) ==
    IF cfg.type \notin NodeTypes \/ ~WellFormed(a) THEN Reply(c, Error)
    ELSE IF cfg.type \in V2rayTypes THEN ParseV2rayNodeResponse(cfg, c, Content(a))
    ELSE IF cfg.type = "Trojan" THEN ParseTrojanNodeResponse(cfg, c, Content(a))
    ELSE ParseSSNodeResponse(cfg, c, Content(a))

ParseV2rayUserListResponse(cfg, c, accounts) ==
    {UserInfo("uuid", None, SpeedLimit(cfg, u.speed), c.device) : u \in accounts}
ParseTrojanUserListResponse(cfg, c, accounts) ==
    {UserInfo("passwd", None, SpeedLimit(cfg, u.speed), c.device) : u \in accounts}
ParseSSUserListResponse(cfg, c, accounts) ==
    {UserInfo(None, "passwd", SpeedLimit(cfg, u.speed), c.device) : u \in accounts}

\* The users are pointers, which are read without a look.
GetUserList(cfg, c, a) ==
    LET accounts == Listed(a)
    IN  Reply(c,
            IF cfg.type \in NodeTypes /\ a.status = "nulls" THEN Panic
            ELSE IF cfg.type \notin NodeTypes \/ ~WellFormed(a) THEN Error
            ELSE IF cfg.type \in V2rayTypes THEN ParseV2rayUserListResponse(cfg, c, accounts)
            ELSE IF cfg.type = "Trojan" THEN ParseTrojanUserListResponse(cfg, c, accounts)
            ELSE ParseSSUserListResponse(cfg, c, accounts))

\* Only rules of the mode "reject"; the mode "none" of s.rules stands for others.
GetNodeRule(cfg, c, a) ==
    Reply(c, IF cfg.type \in NodeTypes /\ WellFormed(a) THEN Rules(Content(a).rules)
             ELSE Error)

Report(cfg, c, a) == IF cfg.type \in NodeTypes THEN Post(c, a) ELSE Reply(c, Error)
ReportNodeStatus(cfg, c, a)      == Report(cfg, c, a)
ReportNodeOnlineUsers(cfg, c, a) == Report(cfg, c, a)
ReportUserTraffic(cfg, c, a)     == Report(cfg, c, a)
\* One request per result; the first refusal ends the call.
ReportIllegal(cfg, c, a)         == Report(cfg, c, a)
=============================================================================
