------------------------------ MODULE BunPanel ------------------------------
(* Package bunpanel: the device quota of sspanel in other words, no speed   *)
(* limit of the node, no rules.                                             *)
EXTENDS PanelApi

EnableTLS(cfg, s) == \/ cfg.type = "V2ray" /\ s.sec \in {"tls", "xtls"}
                     \/ cfg.type = "Trojan"
EnableREALITY(cfg, s) == cfg.type = "V2ray" /\ AsksREALITY(s)
\* ParseNodeInfo.  REALITY turns VLESS on and leaves TLS off.
ParseNodeInfo(cfg, s) ==
    [NodeInfo(cfg, s.port, CASE cfg.type = "V2ray"   -> s.net
                             [] cfg.type \in PlainTypes -> "tcp"
                             [] OTHER                -> Empty)
     EXCEPT !.tls     = EnableTLS(cfg, s),
            !.vless   = EnableREALITY(cfg, s),
            !.reality = EnableREALITY(cfg, s),
            !.cipher  = s.cipher,
            !.rkey    = s.rkey]

GetNodeInfo(cfg, c, a) ==
    LET told == StoreETag(c, a, "node")
    IN  IF a.status = "same" THEN Reply(c, NotModified)
        ELSE IF ~WellFormed(a) THEN Reply(told, Error)
        ELSE Reply(told, ParseNodeInfo(cfg, Content(a)))

\* What the account has left on the panel, this node's own devices added back.
Left(limit, alive, last) == limit - alive + last
Serves(limit, alive, last) ==
    limit = 0 \/ alive = 0 \/ Left(limit, alive, last) > 0 \/ last > 0
Quota(limit, alive, last) ==
    IF limit = 0 \/ alive = 0 THEN limit
    ELSE IF Left(limit, alive, last) > 0 THEN Left(limit, alive, last)
    ELSE last

ParseUserListResponse(cfg, c, accounts) ==
    LET limit(u) == DeviceLimit(cfg, u.limit)
    IN  Reply([c EXCEPT !.last = 0],
              {UserInfo("uuid", "uuid", SpeedLimit(cfg, u.speed),
                        Quota(limit(u), u.alive, c.last)) :
               u \in {v \in accounts : Serves(limit(v), v.alive, c.last)}})

GetUserList(cfg, c, a) ==
    IF a.status = "same" THEN Reply(c, NotModified)
    ELSE IF ~WellFormed(a) THEN Reply(StoreETag(c, a, "users"), Error)
    ELSE ParseUserListResponse(cfg, StoreETag(c, a, "users"), Listed(a))

OnlineToReport(c, devices)  == [c EXCEPT !.last = devices]
ReportNodeOnlineUsers(c, a) == Post(c, a)
ReportUserTraffic(c, a)     == Post(c, a)
=============================================================================
