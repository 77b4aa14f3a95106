------------------------------ MODULE Inbound ------------------------------
(***************************************************************************)
(* From a panel's answer to a listening node: the panel's client parses it,*)
(* the Controller has handlers built of it and puts them into xray-core,   *)
(* and adds the accounts.  Start does so once; nodeInfoMonitor does it     *)
(* again whenever the panel has changed the node.  Any package under api,  *)
(* any node type and any local settings; the order of the Controller's     *)
(* steps is kept within one action, and an error leaves done what came     *)
(* before it.  What polls do meanwhile is in NodeSync.                     *)
(***************************************************************************)
EXTENDS Builders

CONSTANTS
    Kinds,    \* the packages
    Cfgs,     \* settings of the client
    Locals,   \* settings of the Controller
    Nodes,    \* node answers of the panel
    MaxEdits  \* bound: changes of the node on the panel

\* What is kept of an update that was broken off: whether it was at its users,
\* the answer it was made of, whether it was Start's, and if an error ended it.
Breaks == [users : BOOLEAN, node : Nodes, start : BOOLEAN, error : BOOLEAN]

\* Only sspanel's answers are strings that may lack a port.
ASSUME InboundConstants ==
    /\ None \notin Breaks
    /\ Kinds \subseteq AllKinds /\ MaxEdits \in Nat
    /\ \A c \in Cfgs : c \in Settings
    /\ \A l \in Locals : l \in LocalSettings
    /\ \A n \in Nodes :
          /\ n \in NodeAnswers
          /\ n.port = None => Kinds \subseteq {"SSPanel"} /\ n.users \in {{}, Error}

VARIABLES
    kind, cfg, local,      \* the package and the settings
    node, edits,           \* the panel's answer, and the bound's counter
    nodeInfo, seen,        \* the Controller's, and the answer it came from
    certMonitor,           \* Start has made the task
    inbounds, outbounds,   \* xray-core's handlers by tag
    phase,                 \* "new", "running", "unwatched", "stopped", "crashed"
    broken,                \* history: where the last update was broken off
    hadTLS                 \* history: EnableTLS at Start

settings == <<kind, cfg, local>>
books    == <<nodeInfo, seen, certMonitor, hadTLS>>
core     == <<inbounds, outbounds>>
vars     == <<settings, node, edits, books, core, phase, broken>>

\* buildNodeTag; the outer inbound of a pair has a tag of its own.
Tag(info) == [port |-> info.port, outer |-> FALSE]
DokodemoTag(info) == [port |-> info.port, outer |-> TRUE]

With(f, k, v) == [x \in DOMAIN f \cup {k} |-> IF x = k THEN v ELSE f[x]]
Without(f, k) == [x \in DOMAIN f \ {k} |-> f[x]]

-----------------------------------------------------------------------------
(* Steps of an update, on s: the handlers and whether to go on.            *)

Core(ib, ob) == [ib |-> ib, ob |-> ob, then |-> "on"]
Failed(s) == s.then # "on"

\* addInbound: a handler that cannot listen stays registered.
AddInbound(s, tag, h, busy) ==
    IF Failed(s) THEN s
    ELSE IF h = Panic THEN [s EXCEPT !.then = "panic"]
    ELSE IF h = Error THEN [s EXCEPT !.then = "error"]
    ELSE IF tag \in DOMAIN s.ib THEN [s EXCEPT !.then = "error"]
    ELSE [s EXCEPT !.ib = With(@, tag, h),
                 !.then = IF busy THEN "error" ELSE "on"]
AddOutbound(s, tag, redirect) ==
    IF Failed(s) THEN s
    ELSE IF tag \in DOMAIN s.ob THEN [s EXCEPT !.then = "error"]
    ELSE [s EXCEPT !.ob = With(@, tag, redirect)]
AddPair(s, tag, info, busy, issued) ==
    AddOutbound(AddInbound(s, tag, InboundBuilder(local, info, issued), busy),
                tag, OutboundBuilder(info))

\* addInboundForSSPlugin: Shadowsocks on the loopback, then the stream above it.
InnerInfo(info) == [info EXCEPT !.transport = "tcp", !.tls = FALSE]
OuterInfo(info) ==
    [info EXCEPT !.port = (@ + 1) % Uint32, !.type = "dokodemo-door"]
addInboundForSSPlugin(s, info, busy, issued) ==
    AddPair(AddPair(s, Tag(info), InnerInfo(info), busy, issued),
            DokodemoTag(info), OuterInfo(info), busy, issued)

addNewTag(s, info, busy, issued) ==
    IF info.type = "Shadowsocks-Plugin" THEN addInboundForSSPlugin(s, info, busy, issued)
    ELSE AddPair(s, Tag(info), info, busy, issued)

\* removeOldTag: RemoveHandler knows every inbound it is asked to remove; an
\* outbound need not be there.
RemoveTag(s, tag) ==
    IF Failed(s) THEN s
    ELSE IF tag \notin DOMAIN s.ib THEN [s EXCEPT !.then = "error"]
    ELSE [s EXCEPT !.ib = Without(@, tag), !.ob = Without(@, tag)]
removeOldTag(s, info) ==
    IF info.type = "Shadowsocks-Plugin"
    THEN RemoveTag(RemoveTag(s, Tag(info)), DokodemoTag(info))
    ELSE RemoveTag(s, Tag(info))

\* addNewUser: the first account that cannot join ends it.
addNewUser(s, info, users) ==
    LET accounts == UNION {buildUser(kind, info, u) : u \in users}
        tag == Tag(info)
    IN  IF Failed(s) THEN s
        ELSE IF tag \notin DOMAIN s.ib THEN [s EXCEPT !.then = "error"]
        ELSE IF \E a \in accounts : ~CanJoin(s.ib[tag], a) THEN [s EXCEPT !.then = "error"]
        ELSE [s EXCEPT !.ib = With(@, tag, [s.ib[tag] EXCEPT !.users = accounts])]

\* What the client makes of the panel's answers: one account, no limits, and
\* for Xboard the protocol it asks for.
Answer(body) == [status |-> "ok", path |-> "v2", body |-> body]
NodeAnswer == [node EXCEPT !.proto = XB!nodeTypeForRequests(cfg.type, cfg.vless)]
Parsed == NodeReply(kind, cfg, NewClient(cfg), Answer(NodeAnswer)).out
Users == UsersReply(kind, cfg, NewClient(cfg),
                    Answer({[limit |-> 0, alive |-> 0, speed |-> 0,
                             method |-> node.cipher]})).out
Unreadable == Parsed \in {Error, Panic} \/ Users = Error

-----------------------------------------------------------------------------
Init ==
    /\ kind \in Kinds /\ cfg \in Cfgs /\ local \in Locals
    /\ node \in Nodes
    /\ edits = 0
    /\ nodeInfo = None /\ seen = None /\ certMonitor = FALSE /\ hadTLS = FALSE
    /\ inbounds = << >> /\ outbounds = << >>
    /\ phase = "new" /\ broken = None

\* Mutant of PortMissing: the port is not looked at.
PortIgnored(info) == FALSE
PortMissing(info) == info.port = 0
\* Mutant of NeedsCertMonitor: the panel's REALITY is looked at, not the local one.
NeedsCertMonitorOfNode(info) == info.tls /\ ~info.reality
NeedsCertMonitor(info) == info.tls /\ ~local.reality

Usable == ~Unreadable /\ ~PortMissing(Parsed)

\* GetNodeInfo panics, at Start or in a poll: sspanel's old format.
ClientPanics ==
    /\ phase \in {"new", "running"}
    /\ Parsed = Panic
    /\ phase' = "crashed"
    /\ UNCHANGED <<settings, node, edits, books, core, broken>>

\* Start; Panel.Start ends the process when it fails.
StartFails ==
    /\ phase = "new"
    /\ ~Usable /\ Parsed # Panic
    /\ phase' = "stopped"
    /\ UNCHANGED <<settings, node, edits, books, core, broken>>

\* An update that does not come to its end.
Break(s, built, start) ==
    IF Failed(s) THEN [users |-> ~Failed(built), node |-> node, start |-> start,
                       error |-> s.then = "error"]
    ELSE None

\* Start makes a panic of any error of addNewTag, with logger.Panic.
Start(busy, issued) ==
    LET built == addNewTag(Core(inbounds, outbounds), Parsed, busy, issued)
        s == addNewUser(built, Parsed, Users)
    IN  /\ phase = "new"
        /\ Usable
        /\ phase' = CASE Failed(built) -> "crashed"
                      [] ~Failed(built) /\ Failed(s) -> "stopped"
                      [] OTHER -> "running"
        /\ broken' = Break(s, built, TRUE)
        /\ inbounds' = s.ib /\ outbounds' = s.ob
        /\ nodeInfo' = Parsed /\ seen' = node
        /\ certMonitor' = (~Failed(s) /\ NeedsCertMonitor(Parsed))
        /\ hadTLS' = Parsed.tls
        /\ UNCHANGED <<settings, node, edits>>

\* The operator changes the node.
Edit(n) ==
    /\ phase = "running" /\ edits < MaxEdits
    /\ node' = n /\ edits' = edits + 1
    /\ UNCHANGED <<settings, books, core, phase, broken>>

\* nodeInfoMonitor.  An error of the client ends the poll, port 0 the task.
NoPort ==
    /\ phase = "running" /\ ~Unreadable /\ PortMissing(Parsed)
    /\ phase' = "unwatched"
    /\ UNCHANGED <<settings, node, edits, books, core, broken>>

Retag(busy, issued) ==
    LET removed == removeOldTag(Core(inbounds, outbounds), nodeInfo)
        built   == addNewTag(removed, Parsed, busy, issued)
        s       == addNewUser(built, Parsed, Users)
    IN  /\ phase = "running"
        /\ Usable /\ Parsed # nodeInfo
        /\ phase' = IF s.then = "panic" THEN "crashed" ELSE phase
        /\ inbounds' = s.ib /\ outbounds' = s.ob
        /\ broken' = Break(s, built, FALSE)
        /\ IF Failed(removed) THEN UNCHANGED <<nodeInfo, seen>>
           ELSE nodeInfo' = Parsed /\ seen' = node
        /\ UNCHANGED <<settings, node, edits, certMonitor, hadTLS>>

\* certMonitor.  What it renews is in Certificates; it needs a CertConfig, which
\* a node of the panel's REALITY starts without.
CertMonitorPanics ==
    /\ phase = "running" /\ certMonitor
    /\ NeedsCertMonitor(nodeInfo) /\ local.cert = None
    /\ phase' = "crashed"
    /\ UNCHANGED <<settings, node, edits, books, core, broken>>

Next == \/ ClientPanics \/ StartFails \/ NoPort \/ CertMonitorPanics
        \/ \E n \in Nodes : Edit(n)
        \/ \E busy, issued \in BOOLEAN : Start(busy, issued) \/ Retag(busy, issued)
Spec == Init /\ [][Next]_vars

-----------------------------------------------------------------------------
(* Properties.                                                             *)

\* Types of the state; only the upper one of a pair may be given port 0, where
\* the port after the last wraps around.
TypeOK ==
    /\ kind \in Kinds /\ cfg \in Cfgs /\ local \in Locals /\ node \in Nodes
    /\ edits \in 0..MaxEdits
    /\ phase \in {"new", "running", "unwatched", "stopped", "crashed"}
    /\ {certMonitor, hadTLS} \subseteq BOOLEAN
    /\ DOMAIN inbounds \cup DOMAIN outbounds
         \subseteq [port : 1..(Uint32 - 1), outer : BOOLEAN]
    /\ \A t \in DOMAIN inbounds :
          /\ inbounds[t].protocol \in Protocols
          /\ inbounds[t].port \in 0..(Uint32 - 1)
          /\ inbounds[t].port = 0 => t.outer
          /\ inbounds[t].security \in {"none", "tls", "reality"}
    /\ broken = None \/ broken \in Breaks

\* A node the panel wants encrypted: Trojan (xboard's too only with TLS),
\* Hysteria, and VMess or VLESS with TLS or REALITY.
WantsSecurity(s) == \/ cfg.type = "Trojan" /\ ~(kind = "Xboard" /\ s.sec = "none")
                    \/ cfg.type = "Hysteria"
                    \/ cfg.type \in V2rayTypes /\ (AsksTLS(s) \/ AsksREALITY(s))
\* Clients that tell the Controller of the panel's REALITY instead of TLS.
ToldOfReality(s) == \/ kind \in {"BunPanel", "V2RaySocks"}
                    \/ kind = "SSPanel" /\ ~cfg.old /\ s.reality
\* It is served in the clear only if CertMode is "none"; or it wants REALITY,
\* the client makes of that neither TLS nor, for lack of a section, REALITY.
ClearOnlyForCause ==
    \A t \in DOMAIN inbounds :
       ~t.outer /\ inbounds[t].security = "none" /\ WantsSecurity(seen) =>
          \/ local.cert = "none"
          \/ /\ cfg.type \in V2rayTypes /\ AsksREALITY(seen)
             /\ kind \notin {"NewV2board", "Xboard"}
             /\ \/ ~ToldOfReality(seen)
                \/ ~local.disableLocal /\ ~(local.reality /\ local.realityConfigs)

\* The accounts of an inbound are of its protocol, across the builders of
\* inboundbuilder.go and userbuilder.go.
AccountsMatchInbound ==
    \A t \in DOMAIN inbounds : \A a \in inbounds[t].users :
       IF a.protocol = "2022"
       THEN inbounds[t].protocol = "shadowsocks" /\ inbounds[t].cipher \in Ciphers2022
       ELSE a.protocol = inbounds[t].protocol

\* The account of the panel is one xray-core can take, whatever field the
\* package puts the credential in; but for Shadowsocks 2022 the UUIDs of
\* GoV2Panel and BunPanel are no keys, and where keys are cut from UUIDs an
\* upper-case method is taken for the other size.
AccountsJoin ==
    broken # None /\ broken.users =>
       /\ cfg.type = "Shadowsocks" /\ ToLower(broken.node.cipher) \in Ciphers2022
       /\ \/ kind \in {"GoV2Panel", "BunPanel"}
          \/ kind \in CutsKeys /\ broken.node.cipher # ToLower(broken.node.cipher)

\* The process panics over a node, in Start or in a goroutine of its own, only
\* if Start could not add the tag; if sspanel's string lacks what its old format
\* indexes; or over a section that is missing, in a builder or certMonitor:
\* CertConfig with TLS, REALITYConfigs with the panel's REALITY.
CrashHasCause ==
    phase = "crashed" =>
       \/ broken # None /\ broken.start /\ broken.error
       \/ kind = "SSPanel" /\ node.raw # "whole"
       \/ local.cert = None
       \/ local.disableLocal /\ ~local.realityConfigs

\* A certificate in use that lego issued is renewed, unless TLS came with an
\* update after Start, or the local REALITY switch is on without effect.
RenewedUnlessLate ==
    \A t \in DOMAIN inbounds :
       inbounds[t].security = "tls" /\ local.cert = "lego" /\ phase = "running" =>
          \/ certMonitor
          \/ ~hadTLS
          \/ local.reality /\ (local.disableLocal \/ ~local.realityConfigs)
=============================================================================
