------------------------------- MODULE Panels -------------------------------
(***************************************************************************)
(* The packages under api side by side: the interface api.API by package.  *)
(***************************************************************************)
EXTENDS PanelApi

AllKinds == {"SSPanel", "BunPanel", "PMPanel", "ProxyPanel", "V2RaySocks",
             "NewV2board", "GoV2Panel", "Xboard"}
\* Ciphers of Shadowsocks 2022, by name.
Ciphers2022 == {"2022-128", "2022-256"}

SS  == INSTANCE SSPanel
Bun == INSTANCE BunPanel
PM  == INSTANCE PMPanel
PP  == INSTANCE ProxyPanel
VS  == INSTANCE V2RaySocks
NV  == INSTANCE NewV2board
GV  == INSTANCE GoV2Panel
XB  == INSTANCE Xboard

NodeReply(kind, cfg, c, a) ==
    CASE kind = "SSPanel"    -> SS!GetNodeInfo(cfg, c, a)
      [] kind = "BunPanel"   -> Bun!GetNodeInfo(cfg, c, a)
      [] kind = "PMPanel"    -> PM!GetNodeInfo(cfg, c, a)
      [] kind = "ProxyPanel" -> PP!GetNodeInfo(cfg, c, a)
      [] kind = "V2RaySocks" -> VS!GetNodeInfo(cfg, c, a, Ciphers2022)
      [] kind = "NewV2board" -> NV!GetNodeInfo(cfg, c, a)
      [] kind = "GoV2Panel"  -> GV!GetNodeInfo(cfg, c, a)
      [] OTHER               -> XB!GetNodeInfo(cfg, c, a)

UsersReply(kind, cfg, c, a) ==
    CASE kind = "SSPanel"    -> SS!GetUserList(cfg, c, a)
      [] kind = "BunPanel"   -> Bun!GetUserList(cfg, c, a)
      [] kind = "PMPanel"    -> PM!GetUserList(cfg, c, a)
      [] kind = "ProxyPanel" -> PP!GetUserList(cfg, c, a)
      [] kind = "V2RaySocks" -> VS!GetUserList(cfg, c, a)
      [] kind = "NewV2board" -> NV!GetUserList(cfg, c, a)
      [] kind = "GoV2Panel"  -> GV!GetUserList(cfg, c, a)
      [] OTHER               -> XB!GetUserList(cfg, c, a)

\* How they read an answer: those of the first set take one that holds nothing
\* for a node or a list of users; the lists of users of the second are lists of
\* pointers; the answer to a report has no envelope in the third.
TakeEmpty  == {"SSPanel", "BunPanel", "PMPanel", "ProxyPanel", "V2RaySocks"}
Pointers   == {"ProxyPanel", "NewV2board", "GoV2Panel", "Xboard"}
NoEnvelope == {"V2RaySocks", "NewV2board", "GoV2Panel", "Xboard"}

\* GetUserAlive: an api.AliveGetter only in these packages.
AliveGetters == {"NewV2board", "Xboard"}
AliveReply(kind, c, a) ==
    IF kind = "Xboard" THEN XB!GetUserAlive(c, a)
    ELSE NV!GetUserAlive(c, a)

\* GetNodeRule: a request of its own only in these packages.
AskForRules == {"SSPanel", "PMPanel", "ProxyPanel"}
RulesReply(kind, cfg, c, a) ==
    CASE kind = "SSPanel"    -> SS!GetNodeRule(cfg, c, a)
      [] kind = "PMPanel"    -> PM!GetNodeRule(cfg, c, a)
      [] OTHER               -> PP!GetNodeRule(cfg, c, a)
\* Elsewhere they come with the node, or, with BunPanel, from a file only.
KeptRules(kind, c) ==
    CASE kind = "V2RaySocks" -> VS!GetNodeRule(c)
      [] kind = "NewV2board" -> NV!GetNodeRule(c)
      [] kind = "GoV2Panel"  -> GV!GetNodeRule(c)
      [] kind = "Xboard"     -> XB!GetNodeRule(c)
      [] OTHER               -> Reply(c, {})

\* The reports that make a request.
Requests(kind, c) ==
    {r \in {"status", "traffic", "online", "illegal"} :
        CASE r = "status"  -> \/ kind = "SSPanel" /\ SS!StatusWanted(c)
                              \/ kind \in {"ProxyPanel", "V2RaySocks"}
                              \/ kind = "Xboard" /\ ~c.useV1
          [] r = "online"  -> kind # "GoV2Panel"
          [] r = "illegal" -> kind \in {"SSPanel", "ProxyPanel"}
          [] OTHER         -> TRUE}
\* Those sent of what is due, in the order of pushMonitor; a status always is.
Reports(kind, c, due) ==
    LET If(r) == IF r \in Requests(kind, c) /\ r \in due \cup {"status"}
                 THEN <<r>> ELSE <<>>
    IN  If("status") \o If("traffic") \o If("online") \o If("illegal")

StatusReply(kind, cfg, c, a) ==
    CASE kind = "SSPanel"    -> SS!ReportNodeStatus(c, a)
      [] kind = "ProxyPanel" -> PP!ReportNodeStatus(cfg, c, a)
      [] kind = "V2RaySocks" -> VS!ReportNodeStatus(c, a)
      [] OTHER               -> XB!ReportNodeStatus(c, a)
TrafficReply(kind, cfg, c, a) ==
    CASE kind = "SSPanel"    -> SS!ReportUserTraffic(c, a)
      [] kind = "BunPanel"   -> Bun!ReportUserTraffic(c, a)
      [] kind = "PMPanel"    -> PM!ReportUserTraffic(c, a)
      [] kind = "ProxyPanel" -> PP!ReportUserTraffic(cfg, c, a)
      [] kind = "V2RaySocks" -> VS!ReportUserTraffic(c, a)
      [] kind = "NewV2board" -> NV!ReportUserTraffic(c, a)
      [] kind = "GoV2Panel"  -> GV!ReportUserTraffic(c, a)
      [] OTHER               -> XB!ReportUserTraffic(c, a)
OnlineReply(kind, cfg, c, a) ==
    CASE kind = "SSPanel"    -> SS!ReportNodeOnlineUsers(c, a)
      [] kind = "BunPanel"   -> Bun!ReportNodeOnlineUsers(c, a)
      [] kind = "PMPanel"    -> PM!ReportNodeOnlineUsers(c, a)
      [] kind = "ProxyPanel" -> PP!ReportNodeOnlineUsers(cfg, c, a)
      [] kind = "V2RaySocks" -> VS!ReportNodeOnlineUsers(c, a)
      [] kind = "NewV2board" -> NV!ReportNodeOnlineUsers(c, a)
      [] OTHER               -> XB!ReportNodeOnlineUsers(c, a)
IllegalReply(kind, cfg, c, a) ==
    IF kind = "SSPanel" THEN SS!ReportIllegal(c, a)
    ELSE PP!ReportIllegal(cfg, c, a)

ReportReply(kind, cfg, c, at, a) ==
    CASE at = "status"  -> StatusReply(kind, cfg, c, a)
      [] at = "traffic" -> TrafficReply(kind, cfg, c, a)
      [] at = "online"  -> OnlineReply(kind, cfg, c, a)
      [] OTHER          -> IllegalReply(kind, cfg, c, a)

\* What the packages that work out a quota remember of an online report.
WithQuota == {"SSPanel", "BunPanel"}
OnlineToReport(kind, c, devices) ==
    IF kind = "SSPanel" THEN SS!OnlineToReport(c, devices)
    ELSE Bun!OnlineToReport(c, devices)
=============================================================================
