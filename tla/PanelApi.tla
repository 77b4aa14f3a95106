------------------------------ MODULE PanelApi ------------------------------
(***************************************************************************)
(* Package api, and what the clients of all panels have in common.  A      *)
(* client turns a panel's answers into NodeInfo and UserInfo, keeps the    *)
(* ETags of what it has been told, and hands results to the Controller.    *)
(*                                                                         *)
(* Each client module defines its handlers as functions of the local       *)
(* settings cfg, the client's state c and the panel's answer a; they       *)
(* return the client's next state and what the Controller gets.  Strings   *)
(* of the protocols are model values or members of small sets; hosts,      *)
(* paths, headers, flows and names are left out.                           *)
(***************************************************************************)
EXTENDS Integers, Sequences

CONSTANTS
    None,         \* nil, an absent value
    Error,        \* a call returned an error
    NotModified,  \* ErrNodeNotModified, ErrUserNotModified, ErrRuleNotModified
    Panic,        \* a call panicked
    Again,        \* the caller sends its request again
    Uint32        \* bound: stands for 2^32, where ports wrap around

\* What a call returns instead of a result.
Markers == {Error, NotModified, Panic, Again}
\* Local settings, the panel's answer about a node, and what is made of them.
Settings == [type : STRING, vless : BOOLEAN, speed : Nat, device : Nat, old : BOOLEAN]
RuleSets == {"none", "block", "invalid"}
Empty == ""
\* Strings; those listed are written by the clients themselves.
Words == STRING \cup RuleSets
         \cup {Empty, "tcp", "ws", "grpc", "hysteria", "done", "answered",
               "uuid", "passwd", "vless", "vmess", "trojan", "shadowsocks",
               "dokodemo-door"}
\* raw is the string of sspanel's old format: "none" if it is empty, "cut" if a
\* part or the value of an option that the parser reads is not there, the port
\* among them when it is None.
NodeAnswers ==
    [port : Int \cup {None}, net : Words, sec : Words, cipher : Words, psk : Words,
     speed : Nat, clients : Nat, vless : BOOLEAN, reality : BOOLEAN,
     rkey : Words, proto : Words, version : Nat, custom : BOOLEAN,
     release : Seq(Nat), rules : RuleSets, users : {Error} \cup SUBSET STRING,
     raw : {"whole", "cut", "none"}]
NodeInfos ==
    [type : Words, port : 0..(Uint32 - 1), speed : Int, transport : Words,
     tls : BOOLEAN, reality : BOOLEAN, rkey : Words \cup {None}, vless : BOOLEAN,
     cipher : Words, psk : Words, hysteria : Nat]

ASSUME ApiConstants ==
    /\ Uint32 \in Nat \ {0, 1}
    /\ Error \notin {NotModified, Panic, Again, None}
    /\ NotModified \notin {Panic, Again, None}
    /\ Panic \notin {Again, None} /\ Again # None
    /\ \A m \in Markers : m \notin Words /\ m \notin NodeInfos
    /\ Markers \cap {{}, {"block"}} = {}
    /\ None \notin Words /\ None \notin Int

\* Settings replace those of the panel; 0 leaves them to the panel.
Prefer(local, remote) == IF local > 0 THEN local ELSE remote
\* Mbps to bytes per second.
Bps(mbps) == (mbps * 1000000) \div 8
SpeedLimit(cfg, mbps)  == Bps(Prefer(cfg.speed, mbps))
DeviceLimit(cfg, limit) == Prefer(cfg.device, limit)

V2rayTypes == {"V2ray", "Vmess", "Vless"}
PlainTypes == {"Trojan", "Shadowsocks"}

\* NodeInfo.  rkey is None when REALITYConfig is nil.
NodeInfo(cfg, port, transport) ==
    [type |-> cfg.type, port |-> port % Uint32, speed |-> 0,
     transport |-> transport, tls |-> FALSE, reality |-> FALSE,
     rkey |-> None, vless |-> FALSE, cipher |-> Empty, psk |-> Empty, hysteria |-> 0]

\* The transport security a panel asks for.
AsksTLS(s)     == s.sec = "tls"
AsksREALITY(s) == s.sec = "reality"

\* UserInfo of one account.  The credentials tell which string the panel gave.
UserInfo(uuid, passwd, speed, device) ==
    [uuid |-> uuid, passwd |-> passwd, speed |-> speed, device |-> device,
     method |-> Empty]

\* A client as New makes it.
NewClient(cfg) ==
    [tags   |-> {},          \* resources whose current ETag it holds
     resp   |-> None,        \* the last configuration, kept for its rules
     device |-> cfg.device,  \* the DeviceLimit field
     last   |-> 0,           \* LastReportOnline of the account
     release |-> <<>>,       \* the panel's version
     useV1  |-> FALSE]

Reply(c, out) == [client |-> c, out |-> out]
\* A call the client does not implement.
Skip(c) == Reply(c, "done")

\* An answer: "ok", with the body asked for; "empty", a body that parses and
\* holds nothing ("data": null, or an error object with the status 200 where no
\* envelope is checked); "nulls", a list of users with a null where one is due;
\* "garbled", a body that does not parse or an error in the envelope; these four
\* are 2xx.  "same" (304); "refused" (400, a JSON error); "missing" (404);
\* "failed", no answer or an error of the server.
Answered == {"ok", "empty", "nulls", "garbled"}
Statuses == Answered \cup {"same", "refused", "missing", "failed"}
\* What json.Unmarshal leaves of an answer about the node that holds nothing.
Blank == [port |-> 0, net |-> Empty, sec |-> Empty, cipher |-> Empty, psk |-> Empty,
          speed |-> 0, clients |-> 0, vless |-> FALSE, reality |-> FALSE,
          rkey |-> Empty, proto |-> Empty, version |-> 0, custom |-> FALSE,
          release |-> <<>>, rules |-> "none", users |-> {}, raw |-> "none"]
\* An answer about the node, or with the users, as it is read.
Content(a) == IF a.status = "empty" THEN [Blank EXCEPT !.users = a.body.users]
              ELSE a.body
Listed(a)  == IF a.status = "empty" THEN {} ELSE a.body
\* Mutant of StoreETag: the ETag of any answer is stored.
StoreETagOfAny(c, a, resource) == [c EXCEPT !.tags = @ \cup {resource}]
\* 2xx answers carry an ETag.
StoreETag(c, a, resource) ==
    IF a.status \in Answered
    THEN [c EXCEPT !.tags = @ \cup {resource}] ELSE c

\* parseResponse of clients that check the envelope or reject 400.
Valid(a) == a.status = "ok"
\* The same for an answer that is read: there may be nothing in it.
WellFormed(a) == a.status \in {"ok", "empty"}
Post(c, a) == Reply(c, IF Valid(a) THEN "done" ELSE Error)
\* parseResponse of the V2board family: only the status counts.
PostUnread(c, a) == Reply(c, IF a.status \in Answered THEN "done" ELSE Error)

\* The panel's rules become audit rules by regexp.MustCompile.
Rules(routes) == CASE routes = "invalid" -> Panic
                   [] routes = "block"   -> {"block"}
                   [] OTHER              -> {}
=============================================================================
