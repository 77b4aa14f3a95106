------------------------------- MODULE SSPanel -------------------------------
(* Package sspanel: both node formats, the device quota, the rules.         *)
EXTENDS PanelApi

\* compareVersion: numbers between the dots, missing ones are 0.
CompareVersion(v, w) ==
    LET At(s, i) == IF i <= Len(s) THEN s[i] ELSE 0
        differ == {i \in 1..(Len(v) + Len(w)) : At(v, i) # At(w, i)}
        first == CHOOSE i \in differ : \A j \in differ : i <= j
    IN  IF differ = {} THEN 0
        ELSE IF At(v, first) > At(w, first) THEN 1
        ELSE -1
Before(v, w) == CompareVersion(v, w) = -1

\* ParseV2rayNodeResponse: addr;port;alterId;transport;tls;...  Anything but
\* "tls" in the last two names the transport.  The parts are indexed unchecked.
ParseV2rayNodeResponse(cfg, s) ==
    IF s.raw = "cut" THEN Panic
    ELSE IF s.raw = "none" \/ s.port = None THEN Error
    ELSE [NodeInfo(cfg, s.port,
                   IF s.sec \in {"none", "tls"} THEN s.net ELSE s.sec)
          EXCEPT !.speed = SpeedLimit(cfg, s.speed), !.tls = AsksTLS(s),
                 !.vless = cfg.vless]

\* ParseSSNodeResponse asks for the users: the port is that of the first one.
\* The cipher is declared and never set.
ParseSSNodeResponse(cfg, s, users) ==
    IF users = Error THEN Error
    ELSE [NodeInfo(cfg, IF users = {} THEN 0 ELSE s.port, "tcp")
          EXCEPT !.speed = SpeedLimit(cfg, s.speed)]

\* ParseSSPluginNodeResponse: the port below is for Shadowsocks; the unsigned
\* port has wrapped around when it is compared with 0.  Even an empty string
\* is indexed.
ParseSSPluginNodeResponse(cfg, s) ==
    LET port == (s.port + Uint32 - 1) % Uint32
        read == s.port # None /\ s.raw # "none"
    IN  IF ~read /\ s.raw # "whole" THEN Panic
        ELSE IF ~read \/ port <= 0 THEN Error
        ELSE IF s.raw = "cut" THEN Panic
        ELSE [NodeInfo(cfg, port, CASE s.net = "ws"   -> "ws"
                                    [] s.net = "obfs" -> "tcp"
                                    [] OTHER          -> Empty)
              EXCEPT !.speed = SpeedLimit(cfg, s.speed), !.tls = AsksTLS(s)]

\* ParseTrojanNodeResponse.  The port is searched for, the options are indexed.
ParseTrojanNodeResponse(cfg, s) ==
    IF s.raw = "none" \/ s.port = None THEN Error
    ELSE IF s.raw = "cut" THEN Panic
    ELSE [NodeInfo(cfg, s.port, IF s.net = "grpc" THEN "grpc" ELSE "tcp")
          EXCEPT !.speed = SpeedLimit(cfg, s.speed), !.tls = TRUE]

CustomTLS(cfg, s) == \/ cfg.type = "V2ray" /\ s.sec \in {"tls", "xtls"}
                     \/ cfg.type = "Trojan"
CustomVless(cfg, s) == cfg.type = "V2ray" /\ s.vless
\* ParseSSPanelNodeInfo: custom_config, any node type.
ParseSSPanelNodeInfo(cfg, s) ==
    LET transport == CASE cfg.type = "Shadowsocks" -> "tcp"
                       [] cfg.type = "V2ray"       -> s.net
                       [] cfg.type = "Trojan" -> IF s.net = Empty THEN "tcp" ELSE s.net
                       [] OTHER -> Empty
    IN  IF ~s.custom \/ s.port = None THEN Error
        ELSE [NodeInfo(cfg, s.port, transport)
              EXCEPT !.speed = SpeedLimit(cfg, s.speed),
                     !.tls = CustomTLS(cfg, s),
                     !.vless = CustomVless(cfg, s),
                     !.cipher = s.cipher,
                     !.reality = s.reality,
                     !.rkey = s.rkey]

\* The old format, by node type.
ParseOldNodeInfo(cfg, s, users) ==
    CASE cfg.type = "V2ray"              -> ParseV2rayNodeResponse(cfg, s)
      [] cfg.type = "Trojan"             -> ParseTrojanNodeResponse(cfg, s)
      [] cfg.type = "Shadowsocks"        -> ParseSSNodeResponse(cfg, s, users)
      [] cfg.type = "Shadowsocks-Plugin" -> ParseSSPluginNodeResponse(cfg, s)
      [] OTHER                           -> Error

\* GetNodeInfo.  The ETag is stored before the answer is looked at.  An answer
\* that holds nothing has no version, so it is read in the old format.
GetNodeInfo(cfg, c, a) ==
    LET s == Content(a)
        told == StoreETag(c, a, "node")
    IN  IF a.status = "same" THEN Reply(c, NotModified)
        ELSE IF ~WellFormed(a) THEN Reply(told, Error)
        ELSE Reply([told EXCEPT !.release = s.release],
                   IF cfg.old \/ Before(s.release, <<2021, 11>>)
                   THEN ParseOldNodeInfo(cfg, s, s.users)
                   ELSE ParseSSPanelNodeInfo(cfg, s))

\* Mutant of Quota: what is left may be less than nothing.
QuotaUnfloored(limit, alive, last) ==
    IF limit > 0 /\ alive > 0 THEN limit - alive + last ELSE limit

\* The devices a user may have here: what is left on the panel, counting
\* those of this node as its own; 0 takes the user off this node.
Quota(limit, alive, last) ==
    IF limit > 0 /\ alive > 0
    THEN IF limit - alive + last > 0 THEN limit - alive + last ELSE last
    ELSE limit
Refused(limit, alive, last) == limit > 0 /\ Quota(limit, alive, last) = 0

\* Mutant of ParseUserListResponse: the devices of this node are not added back.
ParseUserListNoOwn(cfg, c, accounts) ==
    LET limit(u) == DeviceLimit(cfg, u.limit)
    IN  Reply([c EXCEPT !.last = 0],
              {[UserInfo("uuid", "passwd", SpeedLimit(cfg, u.speed),
                         Quota(limit(u), u.alive, 0))
                EXCEPT !.method = u.method] :
               u \in {v \in accounts : ~Refused(limit(v), v.alive, 0)}})

\* ParseUserListResponse, under the access lock.
ParseUserListResponse(cfg, c, accounts) ==
    LET limit(u) == DeviceLimit(cfg, u.limit)
    IN  Reply([c EXCEPT !.last = 0],
              {[UserInfo("uuid", "passwd", SpeedLimit(cfg, u.speed),
                         Quota(limit(u), u.alive, c.last))
                EXCEPT !.method = u.method] :
               u \in {v \in accounts : ~Refused(limit(v), v.alive, c.last)}})

GetUserList(cfg, c, a) ==
    IF a.status = "same" THEN Reply(c, NotModified)
    ELSE IF ~WellFormed(a) THEN Reply(StoreETag(c, a, "users"), Error)
    ELSE ParseUserListResponse(cfg, StoreETag(c, a, "users"), Listed(a))

GetNodeRule(cfg, c, a) ==
    IF a.status = "same" THEN Reply(c, NotModified)
    ELSE IF ~WellFormed(a) THEN Reply(StoreETag(c, a, "rules"), Error)
    ELSE Reply(StoreETag(c, a, "rules"), Rules(Content(a).rules))

\* Reports.  The status is no longer wanted from 2023.2 on.
StatusWanted(c)             == Before(c.release, <<2023, 2>>)
ReportNodeStatus(c, a)      == Post(c, a)
ReportUserTraffic(c, a)     == Post(c, a)
ReportIllegal(c, a)         == Post(c, a)
\* Mutant of OnlineToReport: the devices are added to those remembered.
OnlineToReportAdded(c, devices) == [c EXCEPT !.last = @ + devices]
\* Before the report is sent, under the access lock until it is answered.
OnlineToReport(c, devices)  == [c EXCEPT !.last = devices]
ReportNodeOnlineUsers(c, a) == Post(c, a)
=============================================================================
