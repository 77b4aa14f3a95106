---------------------------- MODULE PanelsProofs ----------------------------
(***************************************************************************)
(* What the packages make of an answer about the node, for any answer and  *)
(* any settings: a NodeInfo, an error or, with sspanel, a panic.            *)
(***************************************************************************)
EXTENDS Panels, TLAPS

LEMMA PlainInfo ==
    ASSUME NEW s \in Settings, NEW port \in Int, NEW transport \in Words
    PROVE  /\ SS!NodeInfo(s, port, transport) \in NodeInfos
           /\ Bun!NodeInfo(s, port, transport) \in NodeInfos
           /\ PM!NodeInfo(s, port, transport) \in NodeInfos
           /\ PP!NodeInfo(s, port, transport) \in NodeInfos
           /\ VS!NodeInfo(s, port, transport) \in NodeInfos
           /\ NV!NodeInfo(s, port, transport) \in NodeInfos
           /\ GV!NodeInfo(s, port, transport) \in NodeInfos
           /\ XB!NodeInfo(s, port, transport) \in NodeInfos
  <1>1. port % Uint32 \in 0..(Uint32 - 1)
    BY ApiConstants
  <1>2. Empty \in Words /\ s.type \in Words
    BY DEF Words, Settings
  <1>3. NodeInfo(s, port, transport) \in NodeInfos
    BY <1>1, <1>2 DEF NodeInfos, NodeInfo, Settings
  <1> QED
    BY <1>3 DEF NodeInfo, SS!NodeInfo, Bun!NodeInfo, PM!NodeInfo, PP!NodeInfo,
                VS!NodeInfo, NV!NodeInfo, GV!NodeInfo, XB!NodeInfo,
                SS!Empty, Bun!Empty, PM!Empty, PP!Empty,
                VS!Empty, NV!Empty, GV!Empty, XB!Empty, Empty

LEMMA Speeds ==
    ASSUME NEW s \in Settings, NEW mbps \in Nat
    PROVE  /\ SS!SpeedLimit(s, mbps) \in Int
           /\ PM!SpeedLimit(s, mbps) \in Int
           /\ PP!SpeedLimit(s, mbps) \in Int
  <1>1. SpeedLimit(s, mbps) \in Int
    BY DEF Settings, SpeedLimit, Bps, Prefer
  <1> QED
    BY <1>1 DEF SpeedLimit, Bps, Prefer, SS!SpeedLimit, SS!Bps, SS!Prefer,
                PM!SpeedLimit, PM!Bps, PM!Prefer, PP!SpeedLimit, PP!Bps, PP!Prefer

LEMMA Literals == /\ {Empty, "tcp", "ws", "grpc", "hysteria"} \subseteq Words
                  /\ \A x \in STRING : x \in Words
  BY DEF Words

\* How the packages read an answer.
LEMMA Reads ==
    ASSUME NEW a
    PROVE  /\ WellFormed(a) <=> a.status \in {"ok", "empty"}
           /\ SS!WellFormed(a) = WellFormed(a) /\ Bun!WellFormed(a) = WellFormed(a)
           /\ PM!WellFormed(a) = WellFormed(a) /\ PP!WellFormed(a) = WellFormed(a)
           /\ SS!Content(a) = Content(a) /\ Bun!Content(a) = Content(a)
           /\ PM!Content(a) = Content(a) /\ PP!Content(a) = Content(a)
           /\ SS!Listed(a) = Listed(a) /\ Bun!Listed(a) = Listed(a)
           /\ PP!Listed(a) = Listed(a)
  <1>1. SS!Blank = Blank /\ Bun!Blank = Blank /\ PM!Blank = Blank /\ PP!Blank = Blank
    BY DEF Blank, Empty, SS!Blank, SS!Empty, Bun!Blank, Bun!Empty,
           PM!Blank, PM!Empty, PP!Blank, PP!Empty
  <1> QED
    BY <1>1 DEF WellFormed, Content, Listed, SS!WellFormed, SS!Content, SS!Listed,
                Bun!WellFormed, Bun!Content, Bun!Listed, PM!WellFormed, PM!Content,
                PP!WellFormed, PP!Content, PP!Listed

\* An answer that holds nothing is read as an answer of which nothing is known.
LEMMA ContentType ==
    ASSUME NEW a, WellFormed(a), a.body \in NodeAnswers
    PROVE  /\ Content(a) \in NodeAnswers
           /\ a.status = "ok" => Content(a) = a.body
           /\ a.status = "empty" =>
                 /\ Content(a).port = 0 /\ Content(a).clients = 0
                 /\ Content(a).rules = "none"
  <1>1. a.body.users \in {Error} \cup (SUBSET STRING)
    BY DEF NodeAnswers
  <1>2. Blank \in NodeAnswers
    <2>1. Empty \in Words /\ "none" \in RuleSets /\ <<>> \in Seq(Nat)
      BY DEF Empty, RuleSets, Words
    <2> QED BY <2>1 DEF Blank, NodeAnswers
  <1> QED
    BY <1>1, <1>2 DEF Content, WellFormed, Blank, NodeAnswers

LEMMA PMInfos ==
    ASSUME NEW s \in Settings, NEW n \in NodeAnswers, n.port \in Int
    PROVE  /\ PM!ParseV2rayNodeResponse(s, n) \in NodeInfos
           /\ PM!ParseSSNodeResponse(s, n) \in NodeInfos
           /\ PM!ParseTrojanNodeResponse(s, n) \in NodeInfos
  <1>1. n.net \in Words /\ n.cipher \in Words
    BY Literals DEF NodeAnswers
  <1>2. PM!SpeedLimit(s, n.speed) \in Int
    BY Speeds DEF NodeAnswers
  <1>3. PM!AsksTLS(n) \in BOOLEAN /\ s.vless \in BOOLEAN
    BY DEF PM!AsksTLS, Settings
  <1> USE DEF NodeInfos
  <1>4. PM!ParseV2rayNodeResponse(s, n) \in NodeInfos
    <2>1. PM!NodeInfo(s, n.port, n.net) \in NodeInfos
      BY <1>1, PlainInfo
    <2> QED BY <1>2, <1>3, <2>1 DEF PM!ParseV2rayNodeResponse
  <1>5. PM!ParseSSNodeResponse(s, n) \in NodeInfos
    <2>1. PM!NodeInfo(s, n.port, "tcp") \in NodeInfos
      BY PlainInfo, Literals
    <2> QED BY <1>1, <1>2, <2>1 DEF PM!ParseSSNodeResponse
  <1>6. PM!ParseTrojanNodeResponse(s, n) \in NodeInfos
    <2>1. PM!NodeInfo(s, n.port, IF n.net = "grpc" THEN "grpc" ELSE "tcp") \in NodeInfos
      BY PlainInfo, Literals
    <2> QED BY <1>2, <2>1 DEF PM!ParseTrojanNodeResponse
  <1> QED
    BY <1>4, <1>5, <1>6

LEMMA PPInfos ==
    ASSUME NEW s \in Settings, NEW n \in NodeAnswers, n.port \in Int, NEW c
    PROVE  /\ PP!ParseV2rayNodeResponse(s, c, n).out \in NodeInfos
           /\ PP!ParseSSNodeResponse(s, c, n).out \in NodeInfos
           /\ PP!ParseTrojanNodeResponse(s, c, n).out \in NodeInfos
  <1>1. n.net \in Words /\ n.cipher \in Words
    BY Literals DEF NodeAnswers
  <1>2. PP!SpeedLimit(s, n.speed) \in Int
    BY Speeds DEF NodeAnswers
  <1>3. PP!AsksTLS(n) \in BOOLEAN /\ s.vless \in BOOLEAN
    BY DEF PP!AsksTLS, Settings
  <1> USE DEF NodeInfos, PP!Reply
  <1>4. PP!NodeInfo(s, n.port, n.net) \in NodeInfos /\ PP!NodeInfo(s, n.port, "tcp") \in NodeInfos
    BY <1>1, PlainInfo, Literals
  <1>5. PP!ParseV2rayNodeResponse(s, c, n).out \in NodeInfos
    BY <1>2, <1>3, <1>4 DEF PP!ParseV2rayNodeResponse
  <1>6. PP!ParseSSNodeResponse(s, c, n).out \in NodeInfos
    BY <1>1, <1>2, <1>4 DEF PP!ParseSSNodeResponse
  <1>7. PP!ParseTrojanNodeResponse(s, c, n).out \in NodeInfos
    BY <1>2, <1>4 DEF PP!ParseTrojanNodeResponse
  <1> QED
    BY <1>5, <1>6, <1>7

LEMMA VSInfos ==
    ASSUME NEW s \in Settings, NEW n \in NodeAnswers, n.port \in Int, NEW ciphers
    PROVE  /\ VS!ParseV2rayNodeResponse(s, n) \in NodeInfos
           /\ VS!ParseSSNodeResponse(s, n, ciphers) \in NodeInfos
           /\ VS!ParseTrojanNodeResponse(s, n) \in NodeInfos
  <1>1. /\ n.net \in Words /\ n.cipher \in Words /\ n.psk \in Words
        /\ n.rkey \in Words \cup {None}
    BY Literals DEF NodeAnswers
  <1>2. VS!Empty \in Words
    BY Literals DEF VS!Empty, Empty
  <1>3. VS!AsksTLS(n) \in BOOLEAN /\ VS!AsksREALITY(n) \in BOOLEAN
    BY DEF VS!AsksTLS, VS!AsksREALITY
  <1> USE DEF NodeInfos
  <1>4. VS!NodeInfo(s, n.port, n.net) \in NodeInfos /\ VS!NodeInfo(s, n.port, "tcp") \in NodeInfos
    BY <1>1, PlainInfo, Literals
  <1>5. VS!ParseV2rayNodeResponse(s, n) \in NodeInfos
    BY <1>1, <1>2, <1>3, <1>4 DEF VS!ParseV2rayNodeResponse
  <1>6. VS!ParseSSNodeResponse(s, n, ciphers) \in NodeInfos
    BY <1>1, <1>2, <1>4 DEF VS!ParseSSNodeResponse
  <1>7. VS!ParseTrojanNodeResponse(s, n) \in NodeInfos
    BY <1>4 DEF VS!ParseTrojanNodeResponse
  <1> QED
    BY <1>5, <1>6, <1>7

LEMMA NVInfos ==
    ASSUME NEW s \in Settings, NEW n \in NodeAnswers, n.port \in Int
    PROVE  /\ NV!parseV2rayNodeResponse(s, n) \in NodeInfos
           /\ NV!parseSSNodeResponse(s, n) \in NodeInfos
           /\ NV!parseTrojanNodeResponse(s, n) \in NodeInfos
  <1>1. /\ n.net \in Words /\ n.cipher \in Words /\ n.psk \in Words
        /\ n.rkey \in Words \cup {None} /\ s.vless \in BOOLEAN
    BY Literals DEF NodeAnswers, Settings
  <1>2. NV!EnableTLS(n) \in BOOLEAN /\ NV!AsksREALITY(n) \in BOOLEAN
    BY DEF NV!EnableTLS, NV!AsksREALITY
  <1> USE DEF NodeInfos
  <1>3. /\ NV!NodeInfo(s, n.port, n.net) \in NodeInfos
        /\ NV!NodeInfo(s, n.port, "tcp") \in NodeInfos
    BY <1>1, PlainInfo, Literals
  <1>4. NV!NodeInfo(s, n.port, IF n.net = NV!Empty THEN "tcp" ELSE n.net) \in NodeInfos
    BY <1>3
  <1>5. NV!parseV2rayNodeResponse(s, n) \in NodeInfos
    BY <1>1, <1>2, <1>3 DEF NV!parseV2rayNodeResponse
  <1>6. NV!parseSSNodeResponse(s, n) \in NodeInfos
    BY <1>1, <1>3 DEF NV!parseSSNodeResponse
  <1>7. NV!parseTrojanNodeResponse(s, n) \in NodeInfos
    BY <1>4 DEF NV!parseTrojanNodeResponse
  <1> QED
    BY <1>5, <1>6, <1>7

LEMMA GVInfos ==
    ASSUME NEW s \in Settings, NEW n \in NodeAnswers, n.port \in Int
    PROVE  /\ GV!parseV2rayNodeResponse(s, n) \in NodeInfos
           /\ GV!parseSSNodeResponse(s, n) \in NodeInfos
           /\ GV!parseTrojanNodeResponse(s, n) \in NodeInfos
  <1>1. /\ n.net \in Words /\ n.cipher \in Words /\ n.psk \in Words
        /\ s.vless \in BOOLEAN
    BY Literals DEF NodeAnswers, Settings
  <1>2. GV!AsksTLS(n) \in BOOLEAN
    BY DEF GV!AsksTLS
  <1> USE DEF NodeInfos
  <1>3. /\ GV!NodeInfo(s, n.port, n.net) \in NodeInfos
        /\ GV!NodeInfo(s, n.port, "tcp") \in NodeInfos
    BY <1>1, PlainInfo, Literals
  <1>5. GV!parseV2rayNodeResponse(s, n) \in NodeInfos
    BY <1>1, <1>2, <1>3 DEF GV!parseV2rayNodeResponse
  <1>6. GV!parseSSNodeResponse(s, n) \in NodeInfos
    BY <1>1, <1>3 DEF GV!parseSSNodeResponse
  <1>7. GV!parseTrojanNodeResponse(s, n) \in NodeInfos
    BY <1>3 DEF GV!parseTrojanNodeResponse
  <1> QED
    BY <1>5, <1>6, <1>7

LEMMA BunInfo ==
    ASSUME NEW s \in Settings, NEW n \in NodeAnswers, n.port \in Int
    PROVE  Bun!ParseNodeInfo(s, n) \in NodeInfos
  <1> DEFINE net == CASE s.type = "V2ray"          -> n.net
                      [] s.type \in Bun!PlainTypes -> "tcp"
                      [] OTHER                     -> Bun!Empty
  <1>1. n.net \in Words /\ n.cipher \in Words /\ n.rkey \in Words \cup {None}
    BY Literals DEF NodeAnswers
  <1>2. Bun!EnableTLS(s, n) \in BOOLEAN /\ Bun!EnableREALITY(s, n) \in BOOLEAN
    BY DEF Bun!EnableTLS, Bun!EnableREALITY
  <1>3. net \in Words
    BY <1>1, Literals DEF Bun!Empty, Empty
  <1>4. Bun!NodeInfo(s, n.port, net) \in NodeInfos
    BY <1>3, PlainInfo
  <1> QED
    BY <1>1, <1>2, <1>4 DEF Bun!ParseNodeInfo, NodeInfos

LEMMA XBInfo ==
    ASSUME NEW s \in Settings, NEW n \in NodeAnswers, n.port \in Int
    PROVE  XB!parseNode(s, n) \in NodeInfos \/ XB!parseNode(s, n) = Error
  <1>1. /\ n.net \in Words /\ n.cipher \in Words /\ n.psk \in Words
        /\ n.rkey \in Words \cup {None} /\ n.version \in Nat
    BY Literals DEF NodeAnswers
  <1>2. XB!EnableVless(s) \in BOOLEAN
    BY DEF XB!EnableVless
  <1>3. XB!tlsMode(n.sec).tls \in BOOLEAN /\ XB!tlsMode(n.sec).reality \in BOOLEAN
    BY DEF XB!tlsMode
  <1>4. /\ XB!NodeInfo(s, n.port, n.net) \in NodeInfos
        /\ XB!NodeInfo(s, n.port, "tcp") \in NodeInfos
        /\ XB!NodeInfo(s, n.port, "hysteria") \in NodeInfos
    BY <1>1, PlainInfo, Literals
  <1>5. XB!NodeInfo(s, n.port, IF n.net = XB!Empty THEN "tcp" ELSE n.net) \in NodeInfos
    BY <1>4
  <1>6. XB!parseV2rayNodeResponse(s, n) \in NodeInfos
    BY <1>1, <1>2, <1>3, <1>4 DEF XB!parseV2rayNodeResponse, NodeInfos
  <1>7. XB!parseTrojanNodeResponse(s, n) \in NodeInfos
    BY <1>1, <1>3, <1>5 DEF XB!parseTrojanNodeResponse, NodeInfos
  <1>8. XB!parseSSNodeResponse(s, n) \in NodeInfos
    BY <1>1, <1>4 DEF XB!parseSSNodeResponse, NodeInfos
  <1>9. XB!parseHysteriaNodeResponse(s, n) \in NodeInfos \/ XB!parseHysteriaNodeResponse(s, n) = Error
    BY <1>1, <1>4 DEF XB!parseHysteriaNodeResponse, NodeInfos
  <1> QED
    BY <1>6, <1>7, <1>8, <1>9 DEF XB!parseNode

LEMMA SSInfos ==
    ASSUME NEW s \in Settings, NEW n \in NodeAnswers, NEW users,
           n.port = None => users \in {{}, Error}
    PROVE  LET old    == SS!ParseOldNodeInfo(s, n, users)
               custom == SS!ParseSSPanelNodeInfo(s, n)
           IN  /\ old \in NodeInfos \cup {Error} \/ (old = Panic /\ n.raw # "whole")
               /\ custom \in NodeInfos \cup {Error}
  <1>1. /\ n.net \in Words /\ n.cipher \in Words /\ n.sec \in Words
        /\ n.rkey \in Words \cup {None} /\ n.reality \in BOOLEAN /\ s.vless \in BOOLEAN
        /\ n.port # None => n.port \in Int
    BY Literals DEF NodeAnswers, Settings
  <1>2. SS!SpeedLimit(s, n.speed) \in Int
    BY Speeds DEF NodeAnswers
  <1>3. SS!AsksTLS(n) \in BOOLEAN /\ SS!CustomTLS(s, n) \in BOOLEAN /\ SS!CustomVless(s, n) \in BOOLEAN
    BY DEF SS!AsksTLS, SS!CustomTLS, SS!CustomVless
  <1>4. (n.sec = "tls") \in BOOLEAN /\ SS!Empty \in Words
    BY Literals DEF SS!Empty, Empty
  <1> DEFINE net1 == IF n.sec \in {"none", "tls"} THEN n.net ELSE n.sec
             net2 == CASE n.net = "ws" -> "ws" [] n.net = "obfs" -> "tcp" [] OTHER -> SS!Empty
             net3 == IF n.net = "grpc" THEN "grpc" ELSE "tcp"
             net4 == CASE s.type = "Shadowsocks" -> "tcp"
                       [] s.type = "V2ray" -> n.net
                       [] s.type = "Trojan" -> IF n.net = SS!Empty THEN "tcp" ELSE n.net
                       [] OTHER -> SS!Empty
             below == (n.port + Uint32 - 1) % Uint32
  <1>5. net1 \in Words /\ net2 \in Words /\ net3 \in Words /\ net4 \in Words
    BY <1>1, <1>4, Literals
  <1>6. \/ SS!ParseV2rayNodeResponse(s, n) \in NodeInfos \cup {Error}
        \/ SS!ParseV2rayNodeResponse(s, n) = Panic /\ n.raw # "whole"
    <2>1. CASE n.port = None
      BY <2>1 DEF SS!ParseV2rayNodeResponse
    <2>2. CASE n.port # None
      <3>1. SS!NodeInfo(s, n.port, net1) \in NodeInfos
        BY <1>1, <1>5, <2>2, PlainInfo
      <3> QED BY <1>1, <1>2, <1>3, <2>2, <3>1 DEF SS!ParseV2rayNodeResponse, NodeInfos
    <2> QED BY <2>1, <2>2
  <1>7. \/ SS!ParseTrojanNodeResponse(s, n) \in NodeInfos \cup {Error}
        \/ SS!ParseTrojanNodeResponse(s, n) = Panic /\ n.raw # "whole"
    <2>1. CASE n.port = None
      BY <2>1 DEF SS!ParseTrojanNodeResponse
    <2>2. CASE n.port # None
      <3>1. SS!NodeInfo(s, n.port, net3) \in NodeInfos
        BY <1>1, <1>5, <2>2, PlainInfo
      <3> QED BY <1>2, <2>2, <3>1 DEF SS!ParseTrojanNodeResponse, NodeInfos
    <2> QED BY <2>1, <2>2
  <1>8. \/ SS!ParseSSPluginNodeResponse(s, n) \in NodeInfos \cup {Error}
        \/ SS!ParseSSPluginNodeResponse(s, n) = Panic /\ n.raw # "whole"
    <2>1. CASE n.port = None
      BY <2>1 DEF SS!ParseSSPluginNodeResponse
    <2>2. CASE n.port # None
      <3>1. below \in Int
        BY <1>1, <2>2, ApiConstants
      <3>2. SS!NodeInfo(s, below, net2) \in NodeInfos
        BY <1>5, <3>1, PlainInfo
      <3> QED BY <1>2, <1>3, <2>2, <3>2 DEF SS!ParseSSPluginNodeResponse, NodeInfos
    <2> QED BY <2>1, <2>2
  <1>9. SS!ParseSSPanelNodeInfo(s, n) \in NodeInfos \cup {Error}
    <2>1. CASE n.port = None \/ ~n.custom
      BY <2>1 DEF SS!ParseSSPanelNodeInfo
    <2>2. CASE n.port # None /\ n.custom
      <3>1. SS!NodeInfo(s, n.port, net4) \in NodeInfos
        BY <1>1, <1>5, <2>2, PlainInfo
      <3> DEFINE i == SS!NodeInfo(s, n.port, net4)
      <3>2. SS!ParseSSPanelNodeInfo(s, n)
              = [i EXCEPT !.speed = SS!SpeedLimit(s, n.speed), !.tls = SS!CustomTLS(s, n),
                          !.vless = SS!CustomVless(s, n), !.cipher = n.cipher,
                          !.reality = n.reality, !.rkey = n.rkey]
        BY <2>2 DEF SS!ParseSSPanelNodeInfo
      <3> HIDE DEF i
      <3> QED BY <1>1, <1>2, <1>3, <3>1, <3>2 DEF i, NodeInfos
    <2> QED BY <2>1, <2>2
  <1>10. SS!ParseSSNodeResponse(s, n, users) \in NodeInfos \cup {Error}
    <2>1. CASE users = Error
      BY <2>1 DEF SS!ParseSSNodeResponse
    <2>2. CASE users # Error
      <3> DEFINE port == IF users = {} THEN 0 ELSE n.port
      <3>1. SS!NodeInfo(s, port, "tcp") \in NodeInfos
        BY <1>1, <2>2, Literals, PlainInfo
      <3> QED BY <1>2, <2>2, <3>1 DEF SS!ParseSSNodeResponse, NodeInfos
    <2> QED BY <2>1, <2>2
  <1> QED
    BY <1>6, <1>7, <1>8, <1>9, <1>10 DEF SS!ParseOldNodeInfo

-----------------------------------------------------------------------------
(* What the Controller and its builders get from them.                     *)

\* The packages that tell the Controller of the panel's REALITY, and when.
Tells(k, s, n) == \/ k \in {"BunPanel", "V2RaySocks"}
                  \/ k = "SSPanel" /\ ~s.old /\ n.reality
\* Of an answer n: the type of the node is the local one, the cipher is the
\* panel's or none; a Shadowsocks-Plugin node has no cipher or no transport;
\* a node that is to be encrypted has TLS, or no transport xray-core knows, or
\* it wants REALITY, and the packages that tell the Controller so have done it.
Promise(k, s, n, i) ==
    /\ i.type = s.type
    /\ i.cipher = n.cipher \/ i.cipher = Empty
    /\ s.type = "Shadowsocks-Plugin" => i.cipher = Empty \/ i.transport = Empty
    /\ i.hysteria = 2 => i.tls
    /\ s.type = "Trojan" => \/ i.tls
                            \/ k = "Xboard" /\ n.sec = "none"
    /\ s.type \in V2rayTypes /\ AsksTLS(n) => i.tls \/ i.transport = Empty
    /\ s.type \in V2rayTypes /\ AsksREALITY(n) =>
          \/ i.tls \/ i.transport = Empty \/ i.transport = "reality"
          \/ /\ k \notin {"NewV2board", "Xboard"}
             /\ Tells(k, s, n) => i.reality /\ i.rkey # None

LEMMA Empties ==
    /\ SS!Empty = Empty /\ Bun!Empty = Empty /\ PM!Empty = Empty /\ PP!Empty = Empty
    /\ VS!Empty = Empty /\ NV!Empty = Empty /\ GV!Empty = Empty /\ XB!Empty = Empty
  BY DEF SS!Empty, Bun!Empty, PM!Empty, PP!Empty, VS!Empty, NV!Empty, GV!Empty,
         XB!Empty, Empty

LEMMA PMPromise ==
    ASSUME NEW s \in Settings, NEW n \in NodeAnswers, n.port \in Int, NEW c, NEW a,
           a.status = "ok", a.body = n, NEW i, i = PM!GetNodeInfo(s, c, a).out, i # Error
    PROVE  i \in NodeInfos /\ Promise("PMPanel", s, n, i)
  <1>1. s.type \in PM!NodeTypes
    BY DEF PM!GetNodeInfo, PM!Reply
  <1>2. i = IF s.type = "V2ray" THEN PM!ParseV2rayNodeResponse(s, n)
            ELSE IF s.type = "Trojan" THEN PM!ParseTrojanNodeResponse(s, n)
            ELSE PM!ParseSSNodeResponse(s, n)
    BY <1>1 DEF PM!GetNodeInfo, PM!Reply, PM!WellFormed, PM!Content
  <1>3. i \in NodeInfos
    BY <1>2, PMInfos
  <1>4. s.type \in {"V2ray", "Trojan", "Shadowsocks"}
    BY <1>1 DEF PM!NodeTypes, PM!PlainTypes
  <1> SUFFICES Promise("PMPanel", s, n, i)
    BY <1>3
  <1> USE DEF PM!NodeInfo
  <1>5. CASE s.type = "V2ray"
    <2>1. i.type = s.type /\ i.cipher = Empty /\ i.hysteria = 0
      BY <1>2, <1>5, Empties DEF PM!ParseV2rayNodeResponse
    <2>2. ASSUME AsksTLS(n) PROVE i.tls
      BY <1>2, <1>5, <2>2 DEF PM!ParseV2rayNodeResponse, AsksTLS, PM!AsksTLS
    <2> QED BY <1>5, <2>1, <2>2 DEF Promise, Tells
  <1>6. CASE s.type = "Trojan"
    <2>1. i.type = s.type /\ i.cipher = Empty /\ i.hysteria = 0 /\ i.tls
      BY <1>2, <1>6, Empties DEF PM!ParseTrojanNodeResponse
    <2> QED BY <1>6, <2>1 DEF Promise, V2rayTypes
  <1>7. CASE s.type = "Shadowsocks"
    <2>1. i.type = s.type /\ i.cipher = n.cipher /\ i.hysteria = 0
      BY <1>2, <1>7 DEF PM!ParseSSNodeResponse
    <2> QED BY <1>7, <2>1 DEF Promise, V2rayTypes
  <1> QED
    BY <1>4, <1>5, <1>6, <1>7

LEMMA PPPromise ==
    ASSUME NEW s \in Settings, NEW n \in NodeAnswers, n.port \in Int, NEW c, NEW a,
           a.status = "ok", a.body = n, NEW i, i = PP!GetNodeInfo(s, c, a).out, i # Error
    PROVE  i \in NodeInfos /\ Promise("ProxyPanel", s, n, i)
  <1>1. s.type \in PP!NodeTypes
    BY DEF PP!GetNodeInfo, PP!Reply
  <1>2. i = IF s.type \in PP!V2rayTypes THEN PP!ParseV2rayNodeResponse(s, c, n).out
            ELSE IF s.type = "Trojan" THEN PP!ParseTrojanNodeResponse(s, c, n).out
            ELSE PP!ParseSSNodeResponse(s, c, n).out
    BY <1>1 DEF PP!GetNodeInfo, PP!WellFormed, PP!Content
  <1>3. i \in NodeInfos
    BY <1>2, PPInfos
  <1>4. s.type \in V2rayTypes \cup {"Trojan", "Shadowsocks"}
    BY <1>1 DEF PP!NodeTypes, PP!PlainTypes, PP!V2rayTypes, V2rayTypes
  <1> SUFFICES Promise("ProxyPanel", s, n, i)
    BY <1>3
  <1> USE DEF PP!NodeInfo, PP!V2rayTypes, PP!Reply
  <1>5. CASE s.type \in V2rayTypes
    <2>1. i.type = s.type /\ i.cipher = Empty /\ i.hysteria = 0
      BY <1>2, <1>5, Empties DEF PP!ParseV2rayNodeResponse, V2rayTypes
    <2>2. ASSUME AsksTLS(n) PROVE i.tls
      BY <1>2, <1>5, <2>2 DEF PP!ParseV2rayNodeResponse, AsksTLS, PP!AsksTLS, V2rayTypes
    <2>3. s.type \notin {"Trojan", "Shadowsocks-Plugin"}
      BY <1>5 DEF V2rayTypes
    <2> QED BY <2>1, <2>2, <2>3 DEF Promise, Tells
  <1>6. CASE s.type = "Trojan"
    <2>1. i.type = s.type /\ i.cipher = Empty /\ i.hysteria = 0 /\ i.tls
      BY <1>2, <1>6, Empties DEF PP!ParseTrojanNodeResponse
    <2> QED BY <1>6, <2>1 DEF Promise, V2rayTypes
  <1>7. CASE s.type = "Shadowsocks"
    <2>1. i.type = s.type /\ i.cipher = n.cipher /\ i.hysteria = 0
      BY <1>2, <1>7 DEF PP!ParseSSNodeResponse
    <2> QED BY <1>7, <2>1 DEF Promise, V2rayTypes
  <1> QED
    BY <1>4, <1>5, <1>6, <1>7

LEMMA VSPromise ==
    ASSUME NEW s \in Settings, NEW n \in NodeAnswers, n.port \in Int, NEW c, NEW a,
           a.status = "ok", a.body = n, NEW ciphers,
           NEW i, i = VS!GetNodeInfo(s, c, a, ciphers).out, i # Error
    PROVE  i \in NodeInfos /\ Promise("V2RaySocks", s, n, i)
  <1>1. s.type \in VS!NodeTypes
    BY DEF VS!GetNodeInfo, VS!Reply
  <1>2. i = CASE s.type \in VS!V2rayTypes -> VS!ParseV2rayNodeResponse(s, n)
              [] s.type = "Trojan"        -> VS!ParseTrojanNodeResponse(s, n)
              [] OTHER -> VS!ParseSSNodeResponse(s, n, ciphers)
    BY <1>1 DEF VS!GetNodeInfo, VS!Reply, VS!Accepted
  <1>3. i \in NodeInfos
    BY <1>2, VSInfos DEF VS!V2rayTypes
  <1>4. s.type \in V2rayTypes \cup {"Trojan", "Shadowsocks"}
    BY <1>1 DEF VS!NodeTypes, VS!PlainTypes, VS!V2rayTypes, V2rayTypes
  <1> SUFFICES Promise("V2RaySocks", s, n, i)
    BY <1>3
  <1> USE DEF VS!NodeInfo, VS!V2rayTypes
  <1>5. CASE s.type \in V2rayTypes
    <2>0. i = VS!ParseV2rayNodeResponse(s, n)
      BY <1>2, <1>5 DEF V2rayTypes
    <2>1. i.type = s.type /\ i.cipher = Empty /\ i.hysteria = 0
      BY <2>0, Empties DEF VS!ParseV2rayNodeResponse
    <2>2. ASSUME AsksTLS(n) PROVE i.tls
      BY <2>0, <2>2 DEF VS!ParseV2rayNodeResponse, AsksTLS, VS!AsksTLS
    <2>3. s.type \notin {"Trojan", "Shadowsocks-Plugin"}
      BY <1>5 DEF V2rayTypes
    <2>4. ASSUME AsksREALITY(n) PROVE i.reality /\ i.rkey # None
      <3>1. i.reality /\ i.rkey = n.rkey
        BY <2>0, <2>4 DEF VS!ParseV2rayNodeResponse, AsksREALITY, VS!AsksREALITY
      <3> QED BY <3>1, Literals, ApiConstants DEF NodeAnswers
    <2> QED BY <2>1, <2>2, <2>3, <2>4 DEF Promise
  <1>6. CASE s.type = "Trojan"
    <2>1. i.type = s.type /\ i.cipher = Empty /\ i.hysteria = 0 /\ i.tls
      BY <1>2, <1>6, Empties DEF VS!ParseTrojanNodeResponse
    <2> QED BY <1>6, <2>1 DEF Promise, V2rayTypes
  <1>7. CASE s.type = "Shadowsocks"
    <2>1. i.type = s.type /\ i.cipher = n.cipher /\ i.hysteria = 0
      BY <1>2, <1>7 DEF VS!ParseSSNodeResponse
    <2> QED BY <1>7, <2>1 DEF Promise, V2rayTypes
  <1> QED
    BY <1>4, <1>5, <1>6, <1>7

LEMMA NVPromise ==
    ASSUME NEW s \in Settings, NEW n \in NodeAnswers, n.port \in Int, NEW c, NEW a,
           a.status = "ok", a.body = n, NEW i, i = NV!GetNodeInfo(s, c, a).out, i # Error
    PROVE  i \in NodeInfos /\ Promise("NewV2board", s, n, i)
  <1>1. /\ i = IF s.type \in V2rayTypes THEN NV!parseV2rayNodeResponse(s, n)
               ELSE IF s.type = "Trojan" THEN NV!parseTrojanNodeResponse(s, n)
               ELSE NV!parseSSNodeResponse(s, n)
        /\ s.type \in V2rayTypes \cup {"Trojan", "Shadowsocks"}
    BY DEF NV!GetNodeInfo, NV!Reply, NV!Valid, NV!V2rayTypes, V2rayTypes
  <1>2. i \in NodeInfos
    BY <1>1, NVInfos
  <1> SUFFICES Promise("NewV2board", s, n, i)
    BY <1>2
  <1> USE DEF NV!NodeInfo
  <1>3. CASE s.type \in V2rayTypes
    <2>0. i = NV!parseV2rayNodeResponse(s, n)
      BY <1>1, <1>3
    <2>1. i.type = s.type /\ i.cipher = Empty /\ i.hysteria = 0
      BY <2>0, Empties DEF NV!parseV2rayNodeResponse
    <2>2. ASSUME AsksTLS(n) \/ AsksREALITY(n) PROVE i.tls
      BY <2>0, <2>2 DEF NV!parseV2rayNodeResponse, AsksTLS, AsksREALITY, NV!EnableTLS
    <2>3. s.type \notin {"Trojan", "Shadowsocks-Plugin"}
      BY <1>3 DEF V2rayTypes
    <2> QED BY <2>1, <2>2, <2>3 DEF Promise
  <1>4. CASE s.type = "Trojan"
    <2>1. i.type = s.type /\ i.cipher = Empty /\ i.hysteria = 0 /\ i.tls
      BY <1>1, <1>4, Empties DEF NV!parseTrojanNodeResponse, V2rayTypes
    <2> QED BY <1>4, <2>1 DEF Promise, V2rayTypes
  <1>5. CASE s.type = "Shadowsocks"
    <2>1. i.type = s.type /\ i.cipher = n.cipher /\ i.hysteria = 0
      BY <1>1, <1>5 DEF NV!parseSSNodeResponse, V2rayTypes
    <2> QED BY <1>5, <2>1 DEF Promise, V2rayTypes
  <1> QED
    BY <1>1, <1>3, <1>4, <1>5

LEMMA GVPromise ==
    ASSUME NEW s \in Settings, NEW n \in NodeAnswers, n.port \in Int, NEW c, NEW a,
           a.status = "ok", a.body = n, NEW i, i = GV!GetNodeInfo(s, c, a).out, i # Error
    PROVE  i \in NodeInfos /\ Promise("GoV2Panel", s, n, i)
  <1>1. /\ i = IF s.type \in V2rayTypes THEN GV!parseV2rayNodeResponse(s, n)
               ELSE IF s.type = "Trojan" THEN GV!parseTrojanNodeResponse(s, n)
               ELSE GV!parseSSNodeResponse(s, n)
        /\ s.type \in V2rayTypes \cup {"Trojan", "Shadowsocks"}
    BY DEF GV!GetNodeInfo, GV!Reply, GV!Valid, GV!V2rayTypes, V2rayTypes
  <1>2. i \in NodeInfos
    BY <1>1, GVInfos
  <1> SUFFICES Promise("GoV2Panel", s, n, i)
    BY <1>2
  <1> USE DEF GV!NodeInfo
  <1>3. CASE s.type \in V2rayTypes
    <2>0. i = GV!parseV2rayNodeResponse(s, n)
      BY <1>1, <1>3
    <2>1. i.type = s.type /\ i.cipher = Empty /\ i.hysteria = 0
      BY <2>0, Empties DEF GV!parseV2rayNodeResponse
    <2>2. ASSUME AsksTLS(n) PROVE i.tls
      BY <2>0, <2>2 DEF GV!parseV2rayNodeResponse, AsksTLS, GV!AsksTLS
    <2>3. s.type \notin {"Trojan", "Shadowsocks-Plugin"}
      BY <1>3 DEF V2rayTypes
    <2> QED BY <2>1, <2>2, <2>3 DEF Promise, Tells
  <1>4. CASE s.type = "Trojan"
    <2>1. i.type = s.type /\ i.cipher = Empty /\ i.hysteria = 0 /\ i.tls
      BY <1>1, <1>4, Empties DEF GV!parseTrojanNodeResponse, V2rayTypes
    <2> QED BY <1>4, <2>1 DEF Promise, V2rayTypes
  <1>5. CASE s.type = "Shadowsocks"
    <2>1. i.type = s.type /\ i.cipher = n.cipher /\ i.hysteria = 0
      BY <1>1, <1>5 DEF GV!parseSSNodeResponse, V2rayTypes
    <2> QED BY <1>5, <2>1 DEF Promise, V2rayTypes
  <1> QED
    BY <1>1, <1>3, <1>4, <1>5

LEMMA BunPromise ==
    ASSUME NEW s \in Settings, NEW n \in NodeAnswers, n.port \in Int, NEW c, NEW a,
           a.status = "ok", a.body = n, NEW i, i = Bun!GetNodeInfo(s, c, a).out, i # Error
    PROVE  i \in NodeInfos /\ Promise("BunPanel", s, n, i)
  <1>1. i = Bun!ParseNodeInfo(s, n)
    BY DEF Bun!GetNodeInfo, Bun!Reply, Bun!WellFormed, Bun!Content
  <1>2. i \in NodeInfos
    BY <1>1, BunInfo
  <1>3. i.type = s.type /\ i.cipher = n.cipher /\ i.hysteria = 0
    BY <1>1 DEF Bun!ParseNodeInfo, Bun!NodeInfo
  <1>4. i.tls = Bun!EnableTLS(s, n) /\ i.reality = Bun!EnableREALITY(s, n) /\ i.rkey = n.rkey
    BY <1>1 DEF Bun!ParseNodeInfo, Bun!NodeInfo
  <1>5. i.transport = CASE s.type = "V2ray"          -> n.net
                        [] s.type \in Bun!PlainTypes -> "tcp"
                        [] OTHER                     -> Empty
    BY <1>1, Empties DEF Bun!ParseNodeInfo, Bun!NodeInfo
  <1>6. s.type = "Trojan" => i.tls
    BY <1>4 DEF Bun!EnableTLS
  <1>7. s.type \in {"Vmess", "Vless", "Shadowsocks-Plugin"} => i.transport = Empty
    BY <1>5 DEF Bun!PlainTypes
  <1>8. ASSUME s.type = "V2ray", AsksTLS(n) PROVE i.tls
    BY <1>4, <1>8 DEF Bun!EnableTLS, AsksTLS
  <1>9. ASSUME s.type = "V2ray", AsksREALITY(n) PROVE i.reality /\ i.rkey # None
    <2>1. i.reality
      BY <1>4, <1>9 DEF Bun!EnableREALITY, AsksREALITY, Bun!AsksREALITY
    <2> QED BY <1>4, <2>1, Literals, ApiConstants DEF NodeAnswers
  <1> QED
    BY <1>2, <1>3, <1>6, <1>7, <1>8, <1>9 DEF Promise, V2rayTypes

LEMMA XBPromise ==
    ASSUME NEW s \in Settings, NEW n \in NodeAnswers, n.port \in Int, NEW c, NEW a,
           n.proto = XB!nodeTypeForRequests(s.type, s.vless),
           a.status = "ok", a.body = n, NEW i, i = XB!GetNodeInfo(s, c, a).out, i # Error
    PROVE  i \in NodeInfos /\ Promise("Xboard", s, n, i)
  <1>1. i = XB!parseNode(s, n)
    BY DEF XB!GetNodeInfo, XB!parseResponse, XB!Answered, XB!Reply, XB!Valid
  <1>2. i \in NodeInfos
    BY <1>1, XBInfo
  <1>3. /\ s.type \in V2rayTypes => n.proto \in {"vless", "vmess"}
        /\ s.type = "Trojan" => n.proto = "trojan"
        /\ s.type = "Shadowsocks-Plugin" => n.proto = "Shadowsocks-Plugin"
    BY DEF XB!nodeTypeForRequests, V2rayTypes
  <1>4. n.proto \in {"vless", "vmess", "trojan", "shadowsocks", "hysteria"}
    BY <1>1 DEF XB!parseNode
  <1>5. s.type # "Shadowsocks-Plugin"
    BY <1>3, <1>4
  <1> SUFFICES Promise("Xboard", s, n, i)
    BY <1>2
  <1> USE DEF XB!NodeInfo
  <1>6. CASE n.proto \in {"vless", "vmess"}
    <2>0. i = XB!parseV2rayNodeResponse(s, n)
      BY <1>1, <1>6 DEF XB!parseNode
    <2>1. i.type = s.type /\ i.cipher = Empty /\ i.hysteria = 0
      BY <2>0, Empties DEF XB!parseV2rayNodeResponse
    <2>2. ASSUME AsksTLS(n) \/ AsksREALITY(n) PROVE i.tls
      BY <2>0, <2>2 DEF XB!parseV2rayNodeResponse, AsksTLS, AsksREALITY, XB!tlsMode
    <2>3. s.type # "Trojan"
      BY <1>3, <1>6
    <2> QED BY <1>5, <2>1, <2>2, <2>3 DEF Promise
  <1>7. CASE n.proto = "trojan"
    <2>0. i = XB!parseTrojanNodeResponse(s, n)
      BY <1>1, <1>7 DEF XB!parseNode
    <2>1. i.type = s.type /\ i.cipher = Empty /\ i.hysteria = 0
      BY <2>0, Empties DEF XB!parseTrojanNodeResponse
    <2>2. ASSUME n.sec # "none" PROVE i.tls
      BY <2>0, <2>2 DEF XB!parseTrojanNodeResponse, XB!tlsMode
    <2>3. s.type \notin V2rayTypes
      BY <1>3, <1>7
    <2> QED BY <1>5, <2>1, <2>2, <2>3 DEF Promise
  <1>8. CASE n.proto = "shadowsocks"
    <2>1. i.type = s.type /\ i.cipher = n.cipher /\ i.hysteria = 0
      BY <1>1, <1>8 DEF XB!parseNode, XB!parseSSNodeResponse
    <2>2. s.type \notin V2rayTypes /\ s.type # "Trojan"
      BY <1>3, <1>8
    <2> QED BY <1>5, <2>1, <2>2 DEF Promise
  <1>9. CASE n.proto = "hysteria"
    <2>0. i = XB!parseHysteriaNodeResponse(s, n)
      BY <1>1, <1>9 DEF XB!parseNode
    <2>1. i.type = s.type /\ i.cipher = Empty /\ i.tls
      BY <2>0, Empties DEF XB!parseHysteriaNodeResponse
    <2> QED BY <1>5, <2>1 DEF Promise
  <1> QED
    BY <1>4, <1>6, <1>7, <1>8, <1>9

\* The format before 2021.11, by node type.
LEMMA SSOldPromise ==
    ASSUME NEW s \in Settings, NEW n \in NodeAnswers, NEW users,
           n.port = None => users \in {{}, Error},
           NEW i, i = SS!ParseOldNodeInfo(s, n, users), i \notin {Error, Panic}
    PROVE  i \in NodeInfos /\ Promise("SSPanel", s, n, i)
  <1>1. i \in NodeInfos
    BY SSInfos
  <1> SUFFICES Promise("SSPanel", s, n, i)
    BY <1>1
  <1>2. s.type \in {"V2ray", "Trojan", "Shadowsocks", "Shadowsocks-Plugin"}
    BY DEF SS!ParseOldNodeInfo
  <1> USE DEF SS!NodeInfo
  <1>3. CASE s.type = "V2ray"
    <2>0. i = SS!ParseV2rayNodeResponse(s, n)
      BY <1>3 DEF SS!ParseOldNodeInfo
    <2>1. i.type = s.type /\ i.cipher = Empty /\ i.hysteria = 0
      BY <2>0, Empties DEF SS!ParseV2rayNodeResponse
    <2>2. ASSUME AsksTLS(n) PROVE i.tls
      BY <2>0, <2>2 DEF SS!ParseV2rayNodeResponse, AsksTLS, SS!AsksTLS
    <2>3. ASSUME AsksREALITY(n) PROVE i.transport = "reality"
      BY <2>0, <2>3 DEF SS!ParseV2rayNodeResponse, AsksREALITY
    <2> QED BY <1>3, <2>1, <2>2, <2>3 DEF Promise
  <1>4. CASE s.type = "Trojan"
    <2>1. i.type = s.type /\ i.cipher = Empty /\ i.hysteria = 0 /\ i.tls
      BY <1>4, Empties DEF SS!ParseOldNodeInfo, SS!ParseTrojanNodeResponse
    <2> QED BY <1>4, <2>1 DEF Promise, V2rayTypes
  <1>5. CASE s.type = "Shadowsocks"
    <2>0. i = SS!ParseSSNodeResponse(s, n, users)
      BY <1>5 DEF SS!ParseOldNodeInfo
    <2>1. i.type = s.type /\ i.cipher = Empty /\ i.hysteria = 0
      BY <2>0, Empties DEF SS!ParseSSNodeResponse
    <2> QED BY <1>5, <2>1 DEF Promise, V2rayTypes
  <1>6. CASE s.type = "Shadowsocks-Plugin"
    <2>0. i = SS!ParseSSPluginNodeResponse(s, n)
      BY <1>6 DEF SS!ParseOldNodeInfo
    <2>1. i.type = s.type /\ i.cipher = Empty /\ i.hysteria = 0
      BY <2>0, Empties DEF SS!ParseSSPluginNodeResponse
    <2> QED BY <1>6, <2>1 DEF Promise, V2rayTypes
  <1> QED
    BY <1>2, <1>3, <1>4, <1>5, <1>6

\* custom_config.
LEMMA SSCustomPromise ==
    ASSUME NEW s \in Settings, NEW n \in NodeAnswers,
           NEW i, i = SS!ParseSSPanelNodeInfo(s, n), i # Error
    PROVE  i \in NodeInfos /\ Promise("SSPanel", s, n, i)
  <1>1. i \in NodeInfos
    BY SSInfos
  <1> SUFFICES Promise("SSPanel", s, n, i)
    BY <1>1
  <1> DEFINE net == CASE s.type = "Shadowsocks" -> "tcp"
                      [] s.type = "V2ray"       -> n.net
                      [] s.type = "Trojan" -> IF n.net = SS!Empty THEN "tcp" ELSE n.net
                      [] OTHER -> SS!Empty
  <1>2. i = [SS!NodeInfo(s, n.port, net)
             EXCEPT !.speed = SS!SpeedLimit(s, n.speed), !.tls = SS!CustomTLS(s, n),
                    !.vless = SS!CustomVless(s, n), !.cipher = n.cipher,
                    !.reality = n.reality, !.rkey = n.rkey]
    BY DEF SS!ParseSSPanelNodeInfo
  <1>3. i.transport = net
    BY <1>2 DEF SS!NodeInfo
  <1>4. s.type \in {"Vmess", "Vless", "Shadowsocks-Plugin"} => i.transport = Empty
    BY <1>3, Empties
  <1> HIDE DEF net
  <1>5. i.type = s.type /\ i.cipher = n.cipher /\ i.hysteria = 0
    BY <1>2 DEF SS!NodeInfo
  <1>6. i.tls = SS!CustomTLS(s, n) /\ i.reality = n.reality /\ i.rkey = n.rkey
    BY <1>2 DEF SS!NodeInfo
  <1>7. s.type = "Trojan" => i.tls
    BY <1>6 DEF SS!CustomTLS
  <1>8. ASSUME s.type = "V2ray", AsksTLS(n) PROVE i.tls
    BY <1>6, <1>8 DEF SS!CustomTLS, AsksTLS
  <1>9. ASSUME Tells("SSPanel", s, n) PROVE i.reality /\ i.rkey # None
    <2>1. n.reality
      BY <1>9 DEF Tells
    <2> QED BY <1>6, <2>1, Literals, ApiConstants DEF NodeAnswers
  <1> QED
    BY <1>4, <1>5, <1>7, <1>8, <1>9 DEF Promise, V2rayTypes

LEMMA SSPromise ==
    ASSUME NEW s \in Settings, NEW n \in NodeAnswers, NEW c, NEW a,
           n.port = None => n.users \in {{}, Error},
           a.status = "ok", a.body = n, NEW i, i = SS!GetNodeInfo(s, c, a).out,
           i \notin {Error, Panic}
    PROVE  i \in NodeInfos /\ Promise("SSPanel", s, n, i)
  <1>1. \/ i = SS!ParseOldNodeInfo(s, n, n.users)
        \/ i = SS!ParseSSPanelNodeInfo(s, n)
    BY DEF SS!GetNodeInfo, SS!Reply, SS!WellFormed, SS!Content
  <1> QED
    BY <1>1, SSOldPromise, SSCustomPromise

\* GetNodeInfo of any package, of an answer that came whole.
LEMMA NodePromise ==
    ASSUME NEW k \in AllKinds, NEW s \in Settings, NEW n \in NodeAnswers, NEW c, NEW a,
           n.port = None => k = "SSPanel" /\ n.users \in {{}, Error},
           n.proto = XB!nodeTypeForRequests(s.type, s.vless),
           a.status = "ok", a.body = n, NEW i, i = NodeReply(k, s, c, a).out,
           i \notin {Error, Panic}
    PROVE  i \in NodeInfos /\ Promise(k, s, n, i)
  <1>1. k # "SSPanel" => n.port \in Int
    BY DEF NodeAnswers
  <1>2. CASE k = "SSPanel"
    BY <1>2, SSPromise DEF NodeReply
  <1>3. CASE k = "BunPanel"
    BY <1>1, <1>3, BunPromise DEF NodeReply
  <1>4. CASE k = "PMPanel"
    BY <1>1, <1>4, PMPromise DEF NodeReply
  <1>5. CASE k = "ProxyPanel"
    BY <1>1, <1>5, PPPromise DEF NodeReply
  <1>6. CASE k = "V2RaySocks"
    BY <1>1, <1>6, VSPromise DEF NodeReply
  <1>7. CASE k = "NewV2board"
    BY <1>1, <1>7, NVPromise DEF NodeReply
  <1>8. CASE k = "GoV2Panel"
    BY <1>1, <1>8, GVPromise DEF NodeReply
  <1>9. CASE k = "Xboard"
    BY <1>1, <1>9, XBPromise DEF NodeReply
  <1> QED
    BY <1>2, <1>3, <1>4, <1>5, <1>6, <1>7, <1>8, <1>9 DEF AllKinds

\* The only panic over such an answer: sspanel's old format lacks what its parser
\* indexes.
LEMMA NodePanics ==
    ASSUME NEW k \in AllKinds, NEW s \in Settings, NEW n \in NodeAnswers, NEW c, NEW a,
           n.port = None => k = "SSPanel" /\ n.users \in {{}, Error},
           n.proto = XB!nodeTypeForRequests(s.type, s.vless),
           a.status = "ok", a.body = n, NodeReply(k, s, c, a).out = Panic
    PROVE  k = "SSPanel" /\ n.raw # "whole"
  <1> DEFINE i == NodeReply(k, s, c, a).out
  <1>0. i = Panic /\ Panic \notin NodeInfos /\ Panic # Error
    BY ApiConstants DEF Markers
  <1> HIDE DEF i
  <1>1. k # "SSPanel" => n.port \in Int
    BY DEF NodeAnswers
  <1>2. CASE k = "SSPanel"
    <2>1. \/ i = SS!ParseOldNodeInfo(s, n, n.users)
          \/ i = SS!ParseSSPanelNodeInfo(s, n)
          \/ i = Error
      BY <1>2 DEF i, NodeReply, SS!GetNodeInfo, SS!Reply, SS!WellFormed, SS!Content
    <2>2. n.port = None => n.users \in {{}, Error}
      OBVIOUS
    <2> QED BY <1>0, <1>2, <2>1, <2>2, SSInfos
  <1>3. CASE k \in {"BunPanel", "PMPanel", "ProxyPanel", "V2RaySocks"}
    BY <1>0, <1>1, <1>3, BunPromise, PMPromise, PPPromise, VSPromise DEF i, NodeReply
  <1>4. CASE k \in {"NewV2board", "GoV2Panel", "Xboard"}
    BY <1>0, <1>1, <1>4, NVPromise, GVPromise, XBPromise DEF i, NodeReply
  <1> QED
    BY <1>2, <1>3, <1>4 DEF AllKinds

\* GetUserList of any package: an account has its credential where the builders
\* look for it.  For Shadowsocks four packages give the UUID for a password.
Keyed == {"BunPanel", "NewV2board", "GoV2Panel", "Xboard"}
UserPromise(k, s, u) ==
    /\ s.type \in V2rayTypes => u.uuid # None
    /\ s.type = "Shadowsocks" => u.passwd = IF k \in Keyed THEN "uuid" ELSE "passwd"

LEMMA UsersPromise ==
    ASSUME NEW k \in AllKinds, NEW s \in Settings, NEW c, NEW a, a.status = "ok",
           NEW l, l = UsersReply(k, s, c, a).out, l # Error, NEW u \in l
    PROVE  UserPromise(k, s, u)
  <1>0. None \notin {"uuid", "passwd"}
    BY ApiConstants DEF Words
  <1>1. CASE k = "SSPanel"
    <2>1. u.uuid = "uuid" /\ u.passwd = "passwd"
      BY <1>1 DEF UsersReply, SS!GetUserList, SS!ParseUserListResponse, SS!Reply,
                  SS!Valid, SS!UserInfo
    <2> QED BY <1>0, <1>1, <2>1 DEF UserPromise, Keyed
  <1>2. CASE k = "BunPanel"
    <2>1. u.uuid = "uuid" /\ u.passwd = "uuid"
      BY <1>2 DEF UsersReply, Bun!GetUserList, Bun!ParseUserListResponse, Bun!Reply,
                  Bun!Valid, Bun!UserInfo
    <2> QED BY <1>0, <1>2, <2>1 DEF UserPromise, Keyed
  <1>3. CASE k = "PMPanel"
    <2>1. u.uuid = "passwd" /\ u.passwd = "passwd"
      BY <1>3 DEF UsersReply, PM!GetUserList, PM!ParseUserListResponse, PM!Reply,
                  PM!Valid, PM!UserInfo
    <2> QED BY <1>0, <1>3, <2>1 DEF UserPromise, Keyed
  <1>4. CASE k = "ProxyPanel"
    <2>1. s.type \in V2rayTypes => u.uuid = "uuid"
      BY <1>4 DEF UsersReply, PP!GetUserList, PP!ParseV2rayUserListResponse, PP!Reply,
                  PP!Valid, PP!UserInfo, PP!V2rayTypes, V2rayTypes
    <2>2. s.type = "Shadowsocks" => u.passwd = "passwd"
      BY <1>4 DEF UsersReply, PP!GetUserList, PP!ParseSSUserListResponse, PP!Reply,
                  PP!Valid, PP!UserInfo, PP!V2rayTypes
    <2> QED BY <1>0, <1>4, <2>1, <2>2 DEF UserPromise, Keyed
  <1>5. CASE k = "V2RaySocks"
    <2>0. l = {VS!ParseUser(s, v) : v \in a.body}
      BY <1>5 DEF UsersReply, VS!GetUserList, VS!Reply, VS!Accepted
    <2>1. PICK v \in a.body : u = VS!ParseUser(s, v)
      BY <2>0
    <2>2. s.type \in V2rayTypes => u.uuid = "uuid"
      BY <2>1 DEF VS!ParseUser, VS!UserInfo, V2rayTypes
    <2>3. s.type = "Shadowsocks" => u.passwd = "passwd"
      BY <2>1 DEF VS!ParseUser, VS!UserInfo
    <2> QED BY <1>0, <1>5, <2>2, <2>3 DEF UserPromise, Keyed
  <1>6. CASE k \in {"NewV2board", "GoV2Panel", "Xboard"}
    <2>1. u.uuid = "uuid" /\ (s.type = "Shadowsocks" => u.passwd = "uuid")
      <3>1. CASE k = "NewV2board"
        BY <3>1 DEF UsersReply, NV!GetUserList, NV!Reply, NV!Valid, NV!UserOf, NV!UserInfo
      <3>2. CASE k = "GoV2Panel"
        BY <3>2 DEF UsersReply, GV!GetUserList, GV!Reply, GV!Valid, GV!UserOf, GV!UserInfo
      <3>3. CASE k = "Xboard"
        BY <3>3 DEF UsersReply, XB!GetUserList, XB!Reply, XB!Valid, XB!UserOf, XB!UserInfo,
                    XB!parseResponse, XB!Answered
      <3> QED BY <1>6, <3>1, <3>2, <3>3
    <2> QED BY <1>0, <1>6, <2>1 DEF UserPromise, Keyed
  <1> QED
    BY <1>1, <1>2, <1>3, <1>4, <1>5, <1>6 DEF AllKinds
=============================================================================
