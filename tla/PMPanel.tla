------------------------------- MODULE PMPanel -------------------------------
(* Package pmpanel: no ETags; one credential for every protocol.            *)
EXTENDS PanelApi

NodeTypes == {"V2ray"} \cup PlainTypes

ParseV2rayNodeResponse(cfg, s) ==
    [NodeInfo(cfg, s.port, s.net)
     EXCEPT !.speed = SpeedLimit(cfg, s.speed), !.tls = AsksTLS(s),
            !.vless = cfg.vless]

ParseSSNodeResponse(cfg, s) ==
    [NodeInfo(cfg, s.port, "tcp")
     EXCEPT !.speed = SpeedLimit(cfg, s.speed), !.cipher = s.cipher]

ParseTrojanNodeResponse(cfg, s) ==
    [NodeInfo(cfg, s.port, IF s.net = "grpc" THEN "grpc" ELSE "tcp")
     EXCEPT !.speed = SpeedLimit(cfg, s.speed), !.tls = TRUE]

\* GetNodeInfo.
GetNodeInfo(cfg, c, a) ==
    Reply(c, IF cfg.type \notin NodeTypes \/ ~WellFormed(a) THEN Error
             ELSE IF cfg.type = "V2ray" THEN ParseV2rayNodeResponse(cfg, Content(a))
             ELSE IF cfg.type = "Trojan" THEN ParseTrojanNodeResponse(cfg, Content(a))
             ELSE ParseSSNodeResponse(cfg, Content(a)))

\* Mutant of ParseUserListResponse: the UUID is left empty.
ParseUserListPasswdOnly(cfg, accounts) ==
    {UserInfo(None, "passwd", SpeedLimit(cfg, u.speed),
              DeviceLimit(cfg, u.limit)) : u \in accounts}

ParseUserListResponse(cfg, accounts) ==
    {UserInfo("passwd", "passwd", SpeedLimit(cfg, u.speed),
              DeviceLimit(cfg, u.limit)) : u \in accounts}

\* A list that is null stays a nil pointer, which is read.
GetUserList(cfg, c, a) ==
    Reply(c, IF cfg.type \notin NodeTypes \/ ~WellFormed(a) THEN Error
             ELSE IF Valid(a) THEN ParseUserListResponse(cfg, a.body)
             ELSE Panic)

GetNodeRule(cfg, c, a) ==
    Reply(c, IF cfg.type \in NodeTypes /\ WellFormed(a) THEN Rules(Content(a).rules)
             ELSE Error)

ReportUserTraffic(c, a)     == Post(c, a)
ReportNodeOnlineUsers(c, a) == Post(c, a)
=============================================================================
