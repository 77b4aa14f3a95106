----------------------------- MODULE V2RaySocks -----------------------------
(* Package v2raysocks: the panel answers an xray configuration, whose       *)
(* routing holds the rules; no envelope is checked.                         *)
EXTENDS PanelApi

NodeTypes == V2rayTypes \cup PlainTypes

\* Mutant of Accepted: the status is not compared.
AcceptedAny(a) == a.status \in {"ok", "empty", "refused", "missing"}
\* parseResponse: any JSON whose status is not above 400.
Accepted(a) == a.status \in {"ok", "empty", "refused"}
PostUnchecked(c, a) == Reply(c, IF Accepted(a) THEN "done" ELSE Error)

ParseTrojanNodeResponse(cfg, s) ==
    [NodeInfo(cfg, s.port, "tcp") EXCEPT !.tls = TRUE]

\* A key of the server only for the ciphers of Shadowsocks 2022.
ParseSSNodeResponse(cfg, s, ciphers2022) ==
    [NodeInfo(cfg, s.port, "tcp")
     EXCEPT !.cipher = s.cipher,
            !.psk = IF s.cipher \in ciphers2022 THEN s.psk ELSE Empty]

\* VLESS is on exactly with REALITY.
ParseV2rayNodeResponse(cfg, s) ==
    [NodeInfo(cfg, s.port, s.net)
     EXCEPT !.tls = AsksTLS(s), !.vless = AsksREALITY(s),
            !.reality = AsksREALITY(s),
            !.rkey = IF AsksREALITY(s) THEN s.rkey ELSE Empty]

\* GetNodeInfo.  ConfigResp is replaced by whatever came, nil after an error;
\* an answer without inbounds is indexed at 0.
GetNodeInfo(cfg, c, a, ciphers2022) ==
    LET told == StoreETag(c, a, "node")
    IN  IF cfg.type \notin NodeTypes THEN Reply(c, Error)
        ELSE IF a.status = "same" THEN Reply(c, NotModified)
        ELSE IF ~Accepted(a) THEN Reply([told EXCEPT !.resp = None], Error)
        ELSE IF a.status # "ok" THEN Reply([told EXCEPT !.resp = "none"], Panic)
        ELSE Reply([told EXCEPT !.resp = a.body.rules],
                   CASE cfg.type \in V2rayTypes -> ParseV2rayNodeResponse(cfg, a.body)
                     [] cfg.type = "Trojan"     -> ParseTrojanNodeResponse(cfg, a.body)
                     [] OTHER -> ParseSSNodeResponse(cfg, a.body, ciphers2022))

\* One user; the credential is where the node's protocol has it.
ParseUser(cfg, u) ==
    [CASE cfg.type = "Shadowsocks" -> UserInfo(None, "passwd", SpeedLimit(cfg, u.speed),
                                               DeviceLimit(cfg, u.limit))
       [] cfg.type = "Trojan" -> UserInfo("passwd", None, SpeedLimit(cfg, u.speed),
                                          DeviceLimit(cfg, u.limit))
       [] OTHER -> UserInfo("uuid", None, SpeedLimit(cfg, u.speed),
                            DeviceLimit(cfg, u.limit))
     EXCEPT !.method = IF cfg.type = "Shadowsocks" THEN u.method ELSE Empty]

\* An error object, refused or not, has no "data": nobody is a user.
GetUserList(cfg, c, a) ==
    LET told == StoreETag(c, a, "users")
    IN  IF cfg.type \notin NodeTypes THEN Reply(c, Error)
        ELSE IF a.status = "same" THEN Reply(c, NotModified)
        ELSE IF ~Accepted(a) THEN Reply(told, Error)
        ELSE IF a.status # "ok" THEN Reply(told, {})
        ELSE Reply(told, {ParseUser(cfg, u) : u \in a.body})

\* No request: the configuration that came last, used without a check for nil.
GetNodeRule(c) == Reply(c, IF c.resp = None THEN Panic ELSE Rules(c.resp))

ReportUserTraffic(c, a)     == PostUnchecked(c, a)
ReportNodeStatus(c, a)      == PostUnchecked(c, a)
ReportNodeOnlineUsers(c, a) == PostUnchecked(c, a)
=============================================================================
