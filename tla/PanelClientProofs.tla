------------------------- MODULE PanelClientProofs -------------------------
(***************************************************************************)
(* The clients of all panels, for any answers, settings and bounds.        *)
(***************************************************************************)
EXTENDS PanelClient, PanelsProofs

-----------------------------------------------------------------------------
(* What they make of an answer about the users.                            *)

UserBodies == {b \in [limit : 0..MaxDevices, alive : Grants, booked : 0..MaxDevices,
                      speed : {0}, method : {Empty}] : b.booked <= b.alive}
UsersAnswered(a) ==
    /\ a.status \in Statuses
    /\ a.status = "ok" => a.body = {} \/ \E b \in UserBodies : a.body = {b}
Lists(out) ==
    \/ out = {}
    \/ \E u \in Handed : out = {u}

LEMMA ListIsNoMarker ==
    ASSUME NEW out, Lists(out) PROVE out \notin Markers
  BY ApiConstants, PanelConstants DEF Lists

LEMMA Limits0 ==
    ASSUME NEW s \in Cfgs, NEW b \in UserBodies
    PROVE  /\ DeviceLimit(s, b.limit) \in 0..MaxDevices
           /\ s \in Settings /\ s.device \in 0..MaxDevices
           /\ SS!DeviceLimit(s, b.limit) = DeviceLimit(s, b.limit)
           /\ Bun!DeviceLimit(s, b.limit) = DeviceLimit(s, b.limit)
           /\ PM!DeviceLimit(s, b.limit) = DeviceLimit(s, b.limit)
           /\ VS!DeviceLimit(s, b.limit) = DeviceLimit(s, b.limit)
           /\ NV!DeviceLimit(s, b.limit) = DeviceLimit(s, b.limit)
           /\ XB!DeviceLimit(s, b.limit) = DeviceLimit(s, b.limit)
  <1>1. s \in Settings /\ s.device \in 0..MaxDevices
    BY PanelConstants DEF Settings
  <1>2. DeviceLimit(s, b.limit) \in 0..MaxDevices
    BY <1>1, PanelConstants DEF DeviceLimit, Prefer, UserBodies
  <1> QED
    BY <1>1, <1>2 DEF DeviceLimit, Prefer, SS!DeviceLimit, SS!Prefer, Bun!DeviceLimit,
       Bun!Prefer, PM!DeviceLimit, PM!Prefer, VS!DeviceLimit, VS!Prefer,
       NV!DeviceLimit, NV!Prefer, XB!DeviceLimit, XB!Prefer

LEMMA Speed0 ==
    ASSUME NEW s \in Cfgs
    PROVE  LET speeds == {SpeedLimit(c, 0) : c \in Cfgs}
           IN  /\ SS!SpeedLimit(s, 0) \in speeds /\ Bun!SpeedLimit(s, 0) \in speeds
               /\ PM!SpeedLimit(s, 0) \in speeds /\ PP!SpeedLimit(s, 0) \in speeds
               /\ VS!SpeedLimit(s, 0) \in speeds /\ NV!SpeedLimit(s, 0) \in speeds
               /\ GV!SpeedLimit(s, 0) \in speeds /\ XB!SpeedLimit(s, 0) \in speeds
  <1>1. SpeedLimit(s, 0) \in {SpeedLimit(c, 0) : c \in Cfgs}
    OBVIOUS
  <1> QED
    BY <1>1 DEF SpeedLimit, Bps, Prefer,
       SS!SpeedLimit, SS!Bps, SS!Prefer, Bun!SpeedLimit, Bun!Bps, Bun!Prefer,
       PM!SpeedLimit, PM!Bps, PM!Prefer, PP!SpeedLimit, PP!Bps, PP!Prefer,
       VS!SpeedLimit, VS!Bps, VS!Prefer, NV!SpeedLimit, NV!Bps, NV!Prefer,
       GV!SpeedLimit, GV!Bps, GV!Prefer, XB!SpeedLimit, XB!Bps, XB!Prefer

LEMMA HandedType ==
    ASSUME NEW uuid \in {"uuid", "passwd", None}, NEW passwd \in {"uuid", "passwd", None},
           NEW speed \in {SpeedLimit(c, 0) : c \in Cfgs}, NEW device \in Grants
    PROVE  /\ SS!UserInfo(uuid, passwd, speed, device) \in Handed
           /\ Bun!UserInfo(uuid, passwd, speed, device) \in Handed
           /\ PM!UserInfo(uuid, passwd, speed, device) \in Handed
           /\ PP!UserInfo(uuid, passwd, speed, device) \in Handed
           /\ VS!UserInfo(uuid, passwd, speed, device) \in Handed
           /\ NV!UserInfo(uuid, passwd, speed, device) \in Handed
           /\ GV!UserInfo(uuid, passwd, speed, device) \in Handed
           /\ XB!UserInfo(uuid, passwd, speed, device) \in Handed
  <1>1. UserInfo(uuid, passwd, speed, device) \in Handed
    BY DEF UserInfo, Handed
  <1> QED
    BY <1>1 DEF UserInfo, SS!UserInfo, Bun!UserInfo, PM!UserInfo, PP!UserInfo,
       VS!UserInfo, NV!UserInfo, GV!UserInfo, XB!UserInfo, Empty,
       SS!Empty, Bun!Empty, PM!Empty, PP!Empty, VS!Empty, NV!Empty, GV!Empty, XB!Empty

-----------------------------------------------------------------------------
(* What every package promises of its answers to the Controller.           *)

Clients == [tags : SUBSET Resources, resp : RuleSets \cup {None},
            device : 0..MaxDevices, last : 0..MaxDevices, release : Seq(Nat),
            useV1 : BOOLEAN]

NodeAnswered(k, a) ==
    /\ a.status \in Statuses
    /\ WellFormed(a) =>
          /\ a.body \in NodeAnswers /\ a.body.clients <= MaxDevices
          /\ IF k = "SSPanel" THEN a.body.port = None => a.body.users \in {{}, Error}
             ELSE a.body.port \in Int

\* An ETag is stored only of a 2xx answer, and only without one is nothing new
\* or a request sent again; what holds nothing is handed over by some only.
Heeds(k, c, a, at, r) ==
    /\ r.client \in Clients
    /\ r.client.tags \subseteq c.tags \cup {at}
    /\ a.status \notin Answered => r.client.tags \subseteq c.tags
    /\ a.status \in Answered => r.out \notin {NotModified, Again}
    /\ Told(r) /\ a.status # "ok" => k \in TakeEmpty
\* The fields one call leaves alone.
Keeps(c, r) == r.client.last = c.last /\ r.client.useV1 = c.useV1
\* Which configuration the rules are taken from afterwards.
Remembers(k, s, c, a, r) ==
    /\ \/ r.client.resp \in {c.resp, "none"}
       \/ a.status = "ok" /\ r.client.resp = a.body.rules
       \/ k = "V2RaySocks" /\ a.status \notin {"ok", "same"} /\ r.client.resp = None
    /\ k \in {"NewV2board", "GoV2Panel", "V2RaySocks", "Xboard"} /\ a.status = "ok"
          => r.out = Error \/ r.client.resp = a.body.rules
    /\ k = "V2RaySocks" => IF s.type \in VS!NodeTypes
                           THEN a.status = "ok" => r.client.resp = a.body.rules
                           ELSE r.out = Error
NodeFine(k, s, c, a, r) ==
    /\ Heeds(k, c, a, "node", r)
    /\ Remembers(k, s, c, a, r)
    /\ r.out = Panic => \/ k = "V2RaySocks" /\ a.status \notin {"ok", "same"}
                        \/ k = "SSPanel" /\ Content(a).raw # "whole"

LEMMA Marked ==
    /\ Error \notin {NotModified, Again, Panic} /\ Panic \notin {NotModified, Again}
    /\ NotModified # Again
    /\ \A i \in NodeInfos : i \notin {Error, NotModified, Again, Panic}
    /\ \A m \in {Error, NotModified, Again, Panic} : m \notin {"done", "answered", {}, {"block"}}
  BY ApiConstants DEF Markers, Words

LEMMA Codes ==
    /\ Answered = {"ok", "empty", "nulls", "garbled"}
    /\ Statuses = Answered \cup {"same", "refused", "missing", "failed"}
    /\ XB!Answered = Answered /\ NV!Answered = Answered /\ GV!Answered = Answered
    /\ Markers = {Error, NotModified, Panic, Again}
    /\ Pointers \cap {"SSPanel", "BunPanel", "PMPanel", "V2RaySocks"} = {}
  BY DEF Answered, Statuses, XB!Answered, NV!Answered, GV!Answered, Markers, Pointers

\* What the packages that take an answer which holds nothing read of one.
LEMMA ContentRead ==
    ASSUME NEW k \in AllKinds, NEW a, NodeAnswered(k, a), WellFormed(a)
    PROVE  /\ Content(a) \in NodeAnswers /\ Content(a).clients \in 0..MaxDevices
           /\ IF k = "SSPanel" THEN Content(a).port = None => Content(a).users \in {{}, Error}
              ELSE Content(a).port \in Int
  <1>1. a.body \in NodeAnswers /\ a.body.clients \in 0..MaxDevices
    BY PanelConstants DEF NodeAnswered, NodeAnswers
  <1>2. 0 # None
    BY ApiConstants
  <1>3. Content(a) \in NodeAnswers
    BY <1>1, ContentType
  <1>4. CASE a.status = "ok"
    BY <1>1, <1>3, <1>4, ContentType DEF NodeAnswered
  <1>5. CASE a.status = "empty"
    <2>1. Content(a).port = 0 /\ Content(a).clients = 0
      BY <1>1, <1>5, ContentType
    <2> QED BY <1>2, <1>3, <2>1, PanelConstants
  <1> QED
    BY <1>4, <1>5, Reads

LEMMA ETag ==
    ASSUME NEW c \in Clients, NEW a, NEW at \in Resources
    PROVE  LET told == StoreETag(c, a, at)
           IN  /\ told \in Clients
               /\ told.tags \subseteq c.tags \cup {at}
               /\ a.status \notin Answered => told = c
               /\ told.last = c.last /\ told.useV1 = c.useV1 /\ told.resp = c.resp
               /\ SS!StoreETag(c, a, at) = told /\ Bun!StoreETag(c, a, at) = told
               /\ VS!StoreETag(c, a, at) = told /\ NV!StoreETag(c, a, at) = told
               /\ GV!StoreETag(c, a, at) = told /\ XB!StoreETag(c, a, at) = told
  BY DEF StoreETag, Answered, Clients, Resources, SS!StoreETag, SS!Answered,
         Bun!StoreETag, Bun!Answered, VS!StoreETag, VS!Answered, NV!StoreETag, NV!Answered,
         GV!StoreETag, GV!Answered, XB!StoreETag, XB!Answered

LEMMA PMNode ==
    ASSUME NEW s \in Settings, NEW c \in Clients, NEW a, NodeAnswered("PMPanel", a)
    PROVE  LET r == PM!GetNodeInfo(s, c, a)
           IN  NodeFine("PMPanel", s, c, a, r) /\ Keeps(c, r) /\ r.out # Again
  <1> DEFINE r == PM!GetNodeInfo(s, c, a)
  <1>1. r.client = c /\ (~WellFormed(a) => r.out = Error)
    BY Reads DEF PM!GetNodeInfo, PM!Reply
  <1>2. ASSUME WellFormed(a) PROVE r.out \in NodeInfos \/ r.out = Error
    <2>0. Content(a) \in NodeAnswers /\ Content(a).port \in Int
      BY <1>2, ContentRead DEF AllKinds
    <2>1. /\ PM!ParseV2rayNodeResponse(s, Content(a)) \in NodeInfos
          /\ PM!ParseSSNodeResponse(s, Content(a)) \in NodeInfos
          /\ PM!ParseTrojanNodeResponse(s, Content(a)) \in NodeInfos
      BY <2>0, PMInfos
    <2> QED BY <2>1, Reads DEF PM!GetNodeInfo, PM!Reply
  <1> QED
    BY <1>1, <1>2, Marked, Codes, Reads
        DEF NodeFine, Heeds, Told, TakeEmpty, Keeps, Remembers

LEMMA PPNode ==
    ASSUME NEW s \in Settings, NEW c \in Clients, NEW a, NodeAnswered("ProxyPanel", a)
    PROVE  LET r == PP!GetNodeInfo(s, c, a)
           IN  NodeFine("ProxyPanel", s, c, a, r) /\ Keeps(c, r) /\ r.out # Again
  <1> DEFINE r == PP!GetNodeInfo(s, c, a)
             t == PP!TakeClientLimit(c, Content(a))
  <1>1. CASE ~WellFormed(a)
    <2>1. r.client = c /\ r.out = Error
      BY <1>1, Reads DEF PP!GetNodeInfo, PP!Reply
    <2> QED BY <1>1, <2>1, Marked, Codes, Reads
        DEF NodeFine, Heeds, Told, TakeEmpty, Keeps, Remembers
  <1>2. CASE WellFormed(a)
    <2>0. /\ Content(a) \in NodeAnswers /\ Content(a).port \in Int
          /\ Content(a).clients \in 0..MaxDevices
      BY <1>2, ContentRead DEF AllKinds
    <2>1. /\ PP!ParseV2rayNodeResponse(s, c, Content(a)).out \in NodeInfos
          /\ PP!ParseSSNodeResponse(s, c, Content(a)).out \in NodeInfos
          /\ PP!ParseTrojanNodeResponse(s, c, Content(a)).out \in NodeInfos
      BY <2>0, PPInfos
    <2>2. r.out \in NodeInfos \/ r.out = Error
      BY <2>1, Reads DEF PP!GetNodeInfo, PP!Reply
    <2>4. /\ t \in Clients /\ t.tags = c.tags /\ t.last = c.last /\ t.useV1 = c.useV1
          /\ t.resp = c.resp
      BY <2>0 DEF PP!TakeClientLimit, Clients
    <2>5. r.client = c \/ r.client = t
      BY Reads
          DEF PP!GetNodeInfo, PP!Reply, PP!ParseV2rayNodeResponse, PP!ParseSSNodeResponse,
             PP!ParseTrojanNodeResponse
    <2> QED BY <1>2, <2>2, <2>4, <2>5, Marked, Codes, Reads
        DEF NodeFine, Heeds, Told, TakeEmpty, Keeps, Remembers
  <1> QED
    BY <1>1, <1>2

LEMMA BunNode ==
    ASSUME NEW s \in Settings, NEW c \in Clients, NEW a, NodeAnswered("BunPanel", a)
    PROVE  LET r == Bun!GetNodeInfo(s, c, a)
           IN  NodeFine("BunPanel", s, c, a, r) /\ Keeps(c, r) /\ r.out # Again
  <1> DEFINE r == Bun!GetNodeInfo(s, c, a)
             t == StoreETag(c, a, "node")
  <1>0. Bun!StoreETag(c, a, "node") = t
    BY ETag DEF Resources
  <1>1. /\ t \in Clients /\ t.tags \subseteq c.tags \cup {"node"}
        /\ a.status \notin Answered => t = c
        /\ t.last = c.last /\ t.useV1 = c.useV1 /\ t.resp = c.resp
    BY ETag DEF Resources
  <1>2. /\ a.status = "same" => r.client = c /\ r.out = NotModified
        /\ a.status # "same" /\ ~WellFormed(a) => r.client = t /\ r.out = Error
        /\ WellFormed(a) => r.client = t /\ r.out = Bun!ParseNodeInfo(s, Content(a))
    BY <1>0, Reads DEF Bun!GetNodeInfo, Bun!Reply
  <1>3. WellFormed(a) => Bun!ParseNodeInfo(s, Content(a)) \in NodeInfos
    BY BunInfo, ContentRead DEF AllKinds
  <1> QED
    BY <1>1, <1>2, <1>3, Marked, Codes, Reads
        DEF NodeFine, Heeds, Told, TakeEmpty, Keeps, Remembers

LEMMA NVNode ==
    ASSUME NEW s \in Settings, NEW c \in Clients, NEW a, NodeAnswered("NewV2board", a)
    PROVE  LET r == NV!GetNodeInfo(s, c, a)
           IN  NodeFine("NewV2board", s, c, a, r) /\ Keeps(c, r) /\ r.out # Again
  <1> DEFINE r == NV!GetNodeInfo(s, c, a)
             t == StoreETag(c, a, "node")
             kept == [t EXCEPT !.resp = a.body.rules]
  <1>1. /\ t \in Clients /\ t.tags \subseteq c.tags \cup {"node"}
        /\ a.status \notin Answered => t = c
        /\ t.last = c.last /\ t.useV1 = c.useV1 /\ t.resp = c.resp
        /\ NV!StoreETag(c, a, "node") = t
    BY ETag DEF Resources
  <1>2. CASE a.status # "ok"
    <2>1. \/ r.client = c /\ r.out = NotModified /\ a.status = "same"
          \/ r.client = t /\ r.out = Error
      BY <1>1, <1>2 DEF NV!GetNodeInfo, NV!Reply, NV!Valid
    <2> QED BY <1>1, <1>2, <2>1, Marked, Codes
        DEF NodeFine, Heeds, Told, TakeEmpty, Keeps, Remembers
  <1>3. CASE a.status = "ok"
    <2>1. kept \in Clients /\ kept.tags = t.tags /\ kept.last = t.last
          /\ kept.useV1 = t.useV1 /\ kept.resp = a.body.rules
      BY <1>1, <1>3 DEF NodeAnswered, NodeAnswers, Clients, WellFormed
    <2>2. /\ NV!parseV2rayNodeResponse(s, a.body) \in NodeInfos
          /\ NV!parseSSNodeResponse(s, a.body) \in NodeInfos
          /\ NV!parseTrojanNodeResponse(s, a.body) \in NodeInfos
      BY <1>3, NVInfos DEF NodeAnswered, WellFormed
    <2>3. \/ r.client = t /\ r.out = Error
          \/ r.client = kept /\ (r.out \in NodeInfos \/ r.out = Error)
      BY <1>1, <1>3, <2>2 DEF NV!GetNodeInfo, NV!Reply, NV!Valid
    <2> HIDE DEF kept
    <2> QED BY <1>1, <1>3, <2>1, <2>3, Marked, Codes
        DEF NodeFine, Heeds, Told, TakeEmpty, Keeps, Remembers
  <1> QED
    BY <1>2, <1>3

LEMMA GVNode ==
    ASSUME NEW s \in Settings, NEW c \in Clients, NEW a, NodeAnswered("GoV2Panel", a)
    PROVE  LET r == GV!GetNodeInfo(s, c, a)
           IN  NodeFine("GoV2Panel", s, c, a, r) /\ Keeps(c, r) /\ r.out # Again
  <1> DEFINE r == GV!GetNodeInfo(s, c, a)
             t == StoreETag(c, a, "node")
             kept == [t EXCEPT !.resp = a.body.rules]
  <1>1. /\ t \in Clients /\ t.tags \subseteq c.tags \cup {"node"}
        /\ a.status \notin Answered => t = c
        /\ t.last = c.last /\ t.useV1 = c.useV1 /\ t.resp = c.resp
        /\ GV!StoreETag(c, a, "node") = t
    BY ETag DEF Resources
  <1>2. CASE a.status # "ok"
    <2>1. \/ r.client = c /\ r.out = NotModified /\ a.status = "same"
          \/ r.client = t /\ r.out = Error
      BY <1>1, <1>2 DEF GV!GetNodeInfo, GV!Reply, GV!Valid
    <2> QED BY <1>1, <1>2, <2>1, Marked, Codes
        DEF NodeFine, Heeds, Told, TakeEmpty, Keeps, Remembers
  <1>3. CASE a.status = "ok"
    <2>1. kept \in Clients /\ kept.tags = t.tags /\ kept.last = t.last
          /\ kept.useV1 = t.useV1 /\ kept.resp = a.body.rules
      BY <1>1, <1>3 DEF NodeAnswered, NodeAnswers, Clients, WellFormed
    <2>2. /\ GV!parseV2rayNodeResponse(s, a.body) \in NodeInfos
          /\ GV!parseSSNodeResponse(s, a.body) \in NodeInfos
          /\ GV!parseTrojanNodeResponse(s, a.body) \in NodeInfos
      BY <1>3, GVInfos DEF NodeAnswered, WellFormed
    <2>3. \/ r.client = t /\ r.out = Error
          \/ r.client = kept /\ (r.out \in NodeInfos \/ r.out = Error)
      BY <1>1, <1>3, <2>2 DEF GV!GetNodeInfo, GV!Reply, GV!Valid
    <2> HIDE DEF kept
    <2> QED BY <1>1, <1>3, <2>1, <2>3, Marked, Codes
        DEF NodeFine, Heeds, Told, TakeEmpty, Keeps, Remembers
  <1> QED
    BY <1>2, <1>3

LEMMA VSNode ==
    ASSUME NEW s \in Settings, NEW c \in Clients, NEW a, NodeAnswered("V2RaySocks", a)
    PROVE  LET r == VS!GetNodeInfo(s, c, a, Ciphers2022)
           IN  NodeFine("V2RaySocks", s, c, a, r) /\ Keeps(c, r) /\ r.out # Again
  <1> DEFINE r == VS!GetNodeInfo(s, c, a, Ciphers2022)
             t == StoreETag(c, a, "node")
             kept(x) == [t EXCEPT !.resp = x]
  <1>1. /\ t \in Clients /\ t.tags \subseteq c.tags \cup {"node"}
        /\ a.status \notin Answered => t = c
        /\ t.last = c.last /\ t.useV1 = c.useV1 /\ t.resp = c.resp
        /\ VS!StoreETag(c, a, "node") = t
    BY ETag DEF Resources
  <1>2. ASSUME NEW x \in RuleSets \cup {None}
        PROVE  kept(x) \in Clients /\ kept(x).tags = t.tags /\ kept(x).last = t.last
               /\ kept(x).useV1 = t.useV1 /\ kept(x).resp = x
    BY <1>1 DEF Clients
  <1>3. CASE s.type \notin VS!NodeTypes
    <2>1. r.client = c /\ r.out = Error
      BY <1>3 DEF VS!GetNodeInfo, VS!Reply
    <2> QED BY <1>3, <2>1, Marked, Codes
        DEF NodeFine, Heeds, Told, TakeEmpty, Keeps, Remembers
  <1>4. CASE s.type \in VS!NodeTypes /\ a.status # "ok"
    <2>1. \/ r.client = c /\ r.out = NotModified /\ a.status = "same"
          \/ r.client = kept(None) /\ r.out = Error /\ a.status # "same"
          \/ /\ r.client = kept("none") /\ r.out = Panic
             /\ a.status \notin {"same", "ok"}
      BY <1>1, <1>4 DEF VS!GetNodeInfo, VS!Reply, VS!Accepted
    <2>2. \A x \in {None, "none"} :
             /\ kept(x) \in Clients /\ kept(x).tags = t.tags /\ kept(x).last = t.last
             /\ kept(x).useV1 = t.useV1 /\ kept(x).resp = x
      BY <1>2 DEF RuleSets
    <2> HIDE DEF kept
    <2>3. \/ r.client = c /\ r.out = NotModified /\ a.status = "same"
          \/ /\ a.status # "same" /\ r.out \in {Error, Panic}
             /\ r.client \in Clients /\ r.client.tags = t.tags
             /\ r.client.last = t.last /\ r.client.useV1 = t.useV1
             /\ r.client.resp \in {None, "none"}
      BY <2>1, <2>2
    <2> QED BY <1>1, <1>4, <2>3, Marked, Codes
        DEF NodeFine, Heeds, Told, TakeEmpty, Keeps, Remembers
  <1>5. CASE s.type \in VS!NodeTypes /\ a.status = "ok"
    <2>1. a.body.rules \in RuleSets
      BY <1>5 DEF NodeAnswered, NodeAnswers, WellFormed
    <2>2. /\ VS!ParseV2rayNodeResponse(s, a.body) \in NodeInfos
          /\ VS!ParseSSNodeResponse(s, a.body, Ciphers2022) \in NodeInfos
          /\ VS!ParseTrojanNodeResponse(s, a.body) \in NodeInfos
      BY <1>5, VSInfos DEF NodeAnswered, WellFormed
    <2>3. r.client = kept(a.body.rules) /\ r.out \in NodeInfos
      BY <1>1, <1>5, <2>2 DEF VS!GetNodeInfo, VS!Reply, VS!Accepted
    <2>4. /\ r.client \in Clients /\ r.client.tags = t.tags /\ r.client.last = t.last
          /\ r.client.useV1 = t.useV1 /\ r.client.resp = a.body.rules
      BY <1>2, <2>1, <2>3
    <2> QED BY <1>1, <1>5, <2>3, <2>4, Marked, Codes
        DEF NodeFine, Heeds, Told, TakeEmpty, Keeps, Remembers
  <1> QED
    BY <1>3, <1>4, <1>5

LEMMA SSNode ==
    ASSUME NEW s \in Settings, NEW c \in Clients, NEW a, NodeAnswered("SSPanel", a)
    PROVE  LET r == SS!GetNodeInfo(s, c, a)
           IN  NodeFine("SSPanel", s, c, a, r) /\ Keeps(c, r) /\ r.out # Again
  <1> DEFINE r == SS!GetNodeInfo(s, c, a)
             t == StoreETag(c, a, "node")
             new == [t EXCEPT !.release = Content(a).release]
  <1>1. /\ t \in Clients /\ t.tags \subseteq c.tags \cup {"node"}
        /\ a.status \notin Answered => t = c
        /\ t.last = c.last /\ t.useV1 = c.useV1 /\ t.resp = c.resp
        /\ SS!StoreETag(c, a, "node") = t
    BY ETag DEF Resources
  <1>2. CASE ~WellFormed(a)
    <2>1. \/ r.client = c /\ r.out = NotModified /\ a.status = "same"
          \/ r.client = t /\ r.out = Error
      BY <1>1, <1>2, Reads DEF SS!GetNodeInfo, SS!Reply
    <2> QED BY <1>1, <1>2, <2>1, Marked, Codes, Reads
        DEF NodeFine, Heeds, Told, TakeEmpty, Keeps, Remembers
  <1>3. CASE WellFormed(a)
    <2> DEFINE n == Content(a)
    <2>0. n \in NodeAnswers /\ (n.port = None => n.users \in {{}, Error})
      BY <1>3, ContentRead DEF AllKinds
    <2>1. new \in Clients /\ new.tags = t.tags /\ new.last = t.last
          /\ new.useV1 = t.useV1 /\ new.resp = t.resp
      BY <1>1, <2>0 DEF NodeAnswers, Clients
    <2>2. /\ \/ SS!ParseOldNodeInfo(s, n, n.users) \in NodeInfos \cup {Error}
             \/ SS!ParseOldNodeInfo(s, n, n.users) = Panic /\ n.raw # "whole"
          /\ SS!ParseSSPanelNodeInfo(s, n) \in NodeInfos \cup {Error}
      BY <2>0, SSInfos
    <2>3. /\ r.client = new
          /\ r.out \in NodeInfos \cup {Error} \/ (r.out = Panic /\ n.raw # "whole")
      BY <1>1, <1>3, <2>2, Reads DEF SS!GetNodeInfo, SS!Reply
    <2> HIDE DEF new
    <2> QED BY <1>1, <1>3, <2>1, <2>3, Marked, Codes, Reads
        DEF NodeFine, Heeds, Told, TakeEmpty, Keeps, Remembers
  <1> QED
    BY <1>2, <1>3

\* Whoever finds V2 missing first turns the client to V1; another call that
\* finds it missing afterwards is given up.
Falls(a) == a.status = "missing" /\ a.path = "v2"
Races(c, a, r) ==
    /\ r.client.useV1 = (c.useV1 \/ Falls(a))
    /\ Falls(a) /\ r.out = Error => c.useV1

LEMMA XBResponse ==
    ASSUME NEW c \in Clients, NEW a, a.status \in Statuses
    PROVE  LET p == XB!parseResponse(c, a)
           IN  /\ p.client \in Clients
               /\ p.client.tags = c.tags /\ p.client.last = c.last /\ p.client.resp = c.resp
               /\ Races(c, a, p)
               /\ a.status \in Answered => p.client = c /\ p.out = "answered"
               /\ a.status \notin Answered => p.out \in {Error, Again}
  <1> DEFINE fallen == [c EXCEPT !.useV1 = TRUE]
  <1>1. /\ fallen \in Clients /\ fallen.tags = c.tags /\ fallen.last = c.last
        /\ fallen.resp = c.resp /\ fallen.useV1
        /\ c.useV1 \in BOOLEAN
    BY DEF Clients
  <1> QED
    BY <1>1, Marked, Codes DEF XB!parseResponse, XB!Reply, Races, Falls

LEMMA XBNode ==
    ASSUME NEW s \in Settings, NEW c \in Clients, NEW a, NodeAnswered("Xboard", a)
    PROVE  LET r == XB!GetNodeInfo(s, c, a)
           IN  /\ NodeFine("Xboard", s, c, a, r) /\ r.client.last = c.last
               /\ Races(c, a, r)
  <1> DEFINE r == XB!GetNodeInfo(s, c, a)
             p == XB!parseResponse(c, a)
             t == StoreETag(c, a, "node")
             kept == [t EXCEPT !.resp = a.body.rules]
  <1>1. /\ t \in Clients /\ t.tags \subseteq c.tags \cup {"node"}
        /\ t.last = c.last /\ t.useV1 = c.useV1 /\ t.resp = c.resp
        /\ XB!StoreETag(c, a, "node") = t
    BY ETag DEF Resources
  <1>2. c.useV1 \in BOOLEAN
    BY DEF Clients
  <1>3. CASE a.status \notin Answered
    <2>1. \/ r.client = c /\ r.out = NotModified /\ a.status = "same"
          \/ r = p /\ p.out # "answered"
      BY <1>3, XBResponse, Marked, Codes DEF NodeAnswered, XB!GetNodeInfo, XB!Reply
    <2>2. /\ p.client \in Clients
          /\ p.client.tags = c.tags /\ p.client.last = c.last /\ p.client.resp = c.resp
          /\ Races(c, a, p) /\ p.out \in {Error, Again}
      BY <1>3, XBResponse DEF NodeAnswered
    <2>3. CASE r.client = c /\ r.out = NotModified /\ a.status = "same"
      BY <1>2, <1>3, <2>3, Marked, Codes
          DEF NodeFine, Heeds, Told, TakeEmpty, Remembers, Races, Falls
    <2>4. CASE r = p
      BY <1>3, <2>2, <2>4, Marked, Codes DEF NodeFine, Heeds, Told, TakeEmpty, Remembers
    <2> QED BY <2>1, <2>3, <2>4
  <1>4. CASE a.status \in Answered \ {"ok"}
    <2>0. p.out = "answered"
      BY <1>4, XBResponse DEF NodeAnswered
    <2>1. r.client \in {c, t} /\ r.out = Error
      BY <1>1, <1>4, <2>0, Codes DEF XB!GetNodeInfo, XB!Reply, XB!Valid
    <2> QED BY <1>1, <1>2, <1>4, <2>1, Marked, Codes
        DEF NodeFine, Heeds, Told, TakeEmpty, Remembers, Races, Falls
  <1>5. CASE a.status = "ok"
    <2>1. kept \in Clients /\ kept.tags = t.tags /\ kept.last = t.last
          /\ kept.useV1 = t.useV1 /\ kept.resp = a.body.rules
      BY <1>1, <1>5 DEF NodeAnswered, NodeAnswers, Clients, WellFormed
    <2>2. XB!parseNode(s, a.body) \in NodeInfos \/ XB!parseNode(s, a.body) = Error
      BY <1>5, XBInfo, Reads DEF NodeAnswered
    <2>3. p.out = "answered"
      BY <1>5, XBResponse, Codes DEF NodeAnswered
    <2>4. \/ r.client = t /\ r.out = Error
          \/ r.client = kept /\ (r.out \in NodeInfos \/ r.out = Error)
      <3>1. XB!WellFormed(a) /\ XB!Valid(a)
        BY <1>5 DEF XB!WellFormed, XB!Valid
      <3>2. \/ r = XB!Reply(t, Error)
            \/ r = XB!Reply(kept, XB!parseNode(s, a.body))
        BY <1>1, <1>5, <2>3, <3>1 DEF XB!GetNodeInfo
      <3> QED BY <2>2, <3>2 DEF XB!Reply
    <2> HIDE DEF kept
    <2> QED BY <1>1, <1>2, <1>5, <2>1, <2>4, Marked, Codes
        DEF NodeFine, Heeds, Told, TakeEmpty, Remembers, Races, Falls
  <1> QED
    BY <1>3, <1>4, <1>5

\* What the quota of sspanel and bunpanel makes of an account b, when the
\* client remembers last devices of its own.
Shares(s, b, last, out) ==
    LET limit == DeviceLimit(s, b.limit)
    IN  /\ out = {} => limit > 0 /\ last = 0 /\ b.alive >= limit
        /\ \A u \in out : limit > 0 =>
              \/ b.alive = 0 /\ u.device = limit
              \/ u.device > 0 /\ u.device = limit - b.alive + last
              \/ u.device = last /\ last > 0
UsersFine(k, s, c, a, r) ==
    /\ Heeds(k, c, a, "users", r)
    /\ r.client.resp = c.resp
    /\ r.out \in {Error, NotModified, Again, Panic} \/ Lists(r.out)
    /\ r.out = Panic => \/ k = "PMPanel" /\ a.status = "empty"
                        \/ k \in Pointers /\ a.status = "nulls"
    /\ k \in WithQuota => (Lists(r.out) <=> WellFormed(a))
    /\ IF k \in WithQuota /\ WellFormed(a)
       THEN /\ r.client.last = 0
            /\ \A b : a.status = "ok" /\ a.body = {b} => Shares(s, b, c.last, r.out)
       ELSE /\ r.client.last = c.last
            /\ r.out = {} => \/ a.status = "ok" /\ a.body = {}
                             \/ a.status = "refused" /\ k = "V2RaySocks"
                             \/ a.status = "empty" /\ k \in TakeEmpty \ {"PMPanel"}

LEMMA Unmarked ==
    ASSUME NEW out, Lists(out) PROVE out \notin {Error, NotModified, Again, Panic}
  BY ListIsNoMarker DEF Markers

LEMMA SSQuota ==
    ASSUME NEW s \in Cfgs, NEW c \in Clients, NEW b \in UserBodies
    PROVE  LET limit == SS!DeviceLimit(s, b.limit)
               q == SS!Quota(limit, b.alive, c.last)
           IN  /\ q \in Grants
               /\ SS!Refused(limit, b.alive, c.last)
                    => limit > 0 /\ c.last = 0 /\ b.alive >= limit
               /\ ~SS!Refused(limit, b.alive, c.last) /\ limit > 0 =>
                    \/ b.alive = 0 /\ q = limit
                    \/ q > 0 /\ q = limit - b.alive + c.last
                    \/ q = c.last /\ c.last > 0
  <1>1. SS!DeviceLimit(s, b.limit) \in 0..MaxDevices
    BY Limits0
  <1>2. /\ b.alive \in Nat /\ b.alive <= 2 * MaxDevices /\ c.last \in 0..MaxDevices
        /\ MaxDevices \in Nat
    BY PanelConstants DEF UserBodies, Clients, Grants
  <1> DEFINE l == SS!DeviceLimit(s, b.limit)
  <1> HIDE DEF l
  <1>3. l \in 0..MaxDevices
    BY <1>1 DEF l
  <1>4. /\ SS!Quota(l, b.alive, c.last) \in Grants
        /\ SS!Refused(l, b.alive, c.last) => l > 0 /\ c.last = 0 /\ b.alive >= l
        /\ ~SS!Refused(l, b.alive, c.last) /\ l > 0 =>
             LET q == SS!Quota(l, b.alive, c.last)
             IN  \/ b.alive = 0 /\ q = l
                 \/ q > 0 /\ q = l - b.alive + c.last
                 \/ q = c.last /\ c.last > 0
    BY <1>2, <1>3 DEF SS!Quota, SS!Refused, Grants
  <1> QED
    BY <1>4 DEF l

LEMMA SSUsers ==
    ASSUME NEW s \in Cfgs, NEW c \in Clients, NEW a, UsersAnswered(a)
    PROVE  LET r == SS!GetUserList(s, c, a)
           IN  UsersFine("SSPanel", s, c, a, r) /\ r.client.useV1 = c.useV1 /\ r.out # Again
  <1> DEFINE r == SS!GetUserList(s, c, a)
             t == StoreETag(c, a, "users")
             new == [t EXCEPT !.last = 0]
  <1>1. /\ t \in Clients /\ t.tags \subseteq c.tags \cup {"users"}
        /\ a.status \notin Answered => t = c
        /\ t.last = c.last /\ t.useV1 = c.useV1 /\ t.resp = c.resp
        /\ SS!StoreETag(c, a, "users") = t
    BY ETag DEF Resources
  <1>2. CASE ~WellFormed(a)
    <2>1. \/ r.client = c /\ r.out = NotModified /\ a.status = "same"
          \/ r.client = t /\ r.out = Error
      BY <1>1, <1>2, Reads DEF SS!GetUserList, SS!Reply
    <2> QED BY <1>1, <1>2, <2>1, Marked, Unmarked, Codes, Reads
        DEF UsersFine, Heeds, Told, TakeEmpty, WithQuota
  <1>3. CASE WellFormed(a)
    <2>1. /\ new \in Clients /\ new.tags = t.tags /\ new.last = 0
          /\ new.useV1 = t.useV1 /\ new.resp = t.resp
      <3>1. 0 \in 0..MaxDevices
        BY PanelConstants
      <3> QED BY <1>1, <3>1 DEF Clients
    <2>2. r = SS!ParseUserListResponse(s, t, Listed(a))
      BY <1>1, <1>3, Reads DEF SS!GetUserList
    <2>3. r.client = new
      BY <2>2 DEF SS!ParseUserListResponse, SS!Reply
    <2>4. CASE Listed(a) = {}
      <3>1. r.out = {}
        BY <2>2, <2>4 DEF SS!ParseUserListResponse, SS!Reply
      <3>2. ~\E b : Listed(a) = {b}
        BY <2>4
      <3> HIDE DEF new
      <3> QED BY <1>1, <1>3, <2>1, <2>3, <3>1, <3>2, Unmarked, Marked, Codes, Reads
          DEF UsersFine, Listed, Heeds, Told, TakeEmpty, Lists, WithQuota
    <2>5. ASSUME NEW b \in UserBodies, Listed(a) = {b}
          PROVE  UsersFine("SSPanel", s, c, a, r) /\ r.out # Again
      <3> DEFINE limit == SS!DeviceLimit(s, b.limit)
                 u == [SS!UserInfo("uuid", "passwd", SS!SpeedLimit(s, b.speed),
                                   SS!Quota(limit, b.alive, t.last))
                       EXCEPT !.method = b.method]
      <3>1. r.out = IF SS!Refused(limit, b.alive, t.last) THEN {} ELSE {u}
        BY <2>2, <2>5 DEF SS!ParseUserListResponse, SS!Reply
      <3>2. /\ SS!Quota(limit, b.alive, t.last) \in Grants
            /\ SS!Refused(limit, b.alive, t.last)
                    => limit > 0 /\ t.last = 0 /\ b.alive >= limit
            /\ ~SS!Refused(limit, b.alive, t.last) /\ limit > 0 =>
                 LET q == SS!Quota(limit, b.alive, t.last)
                 IN  \/ b.alive = 0 /\ q = limit
                     \/ q > 0 /\ q = limit - b.alive + t.last
                     \/ q = t.last /\ t.last > 0
        BY <1>1, SSQuota
      <3>3. b.speed = 0 /\ b.method = Empty
        BY DEF UserBodies
      <3>4. SS!UserInfo("uuid", "passwd", SS!SpeedLimit(s, 0), SS!Quota(limit, b.alive, t.last))
              \in Handed
        BY <3>2, Speed0, HandedType
      <3>5. u \in Handed /\ u.device = SS!Quota(limit, b.alive, t.last)
        BY <3>3, <3>4 DEF Handed, SS!UserInfo
      <3>6. Lists(r.out)
        BY <3>1, <3>5 DEF Lists
      <3>7. limit = DeviceLimit(s, b.limit)
        BY Limits0
      <3> HIDE DEF limit, u, new
      <3>8. Shares(s, b, c.last, r.out)
        BY <1>1, <3>1, <3>2, <3>5, <3>7 DEF Shares
      <3>9. \A d : Listed(a) = {d} => Shares(s, d, c.last, r.out)
        BY <2>5, <3>8
      <3> QED BY <1>1, <1>3, <2>1, <2>3, <3>6, <3>9, Unmarked, Marked, Codes, Reads
          DEF UsersFine, Listed, Heeds, Told, TakeEmpty, WithQuota
    <2>6. r.client.useV1 = c.useV1
      BY <1>1, <2>1, <2>3
    <2> QED BY <1>3, <2>4, <2>5, <2>6, Reads DEF UsersAnswered, Listed
  <1> QED
    BY <1>2, <1>3

LEMMA BunQuota ==
    ASSUME NEW s \in Cfgs, NEW c \in Clients, NEW b \in UserBodies
    PROVE  LET limit == Bun!DeviceLimit(s, b.limit)
               q == Bun!Quota(limit, b.alive, c.last)
           IN  /\ q \in Grants
               /\ ~Bun!Serves(limit, b.alive, c.last)
                    => limit > 0 /\ c.last = 0 /\ b.alive >= limit
               /\ Bun!Serves(limit, b.alive, c.last) /\ limit > 0 =>
                    \/ b.alive = 0 /\ q = limit
                    \/ q > 0 /\ q = limit - b.alive + c.last
                    \/ q = c.last /\ c.last > 0
  <1>1. Bun!DeviceLimit(s, b.limit) \in 0..MaxDevices
    BY Limits0
  <1>2. /\ b.alive \in Nat /\ b.alive <= 2 * MaxDevices /\ c.last \in 0..MaxDevices
        /\ MaxDevices \in Nat
    BY PanelConstants DEF UserBodies, Clients, Grants
  <1> DEFINE l == Bun!DeviceLimit(s, b.limit)
  <1> HIDE DEF l
  <1>3. l \in 0..MaxDevices
    BY <1>1 DEF l
  <1>4. /\ Bun!Quota(l, b.alive, c.last) \in Grants
        /\ ~Bun!Serves(l, b.alive, c.last) => l > 0 /\ c.last = 0 /\ b.alive >= l
        /\ Bun!Serves(l, b.alive, c.last) /\ l > 0 =>
             LET q == Bun!Quota(l, b.alive, c.last)
             IN  \/ b.alive = 0 /\ q = l
                 \/ q > 0 /\ q = l - b.alive + c.last
                 \/ q = c.last /\ c.last > 0
    BY <1>2, <1>3 DEF Bun!Quota, Bun!Serves, Bun!Left, Grants
  <1> QED
    BY <1>4 DEF l

LEMMA BunUsers ==
    ASSUME NEW s \in Cfgs, NEW c \in Clients, NEW a, UsersAnswered(a)
    PROVE  LET r == Bun!GetUserList(s, c, a)
           IN  UsersFine("BunPanel", s, c, a, r) /\ r.client.useV1 = c.useV1 /\ r.out # Again
  <1> DEFINE r == Bun!GetUserList(s, c, a)
             t == StoreETag(c, a, "users")
             new == [t EXCEPT !.last = 0]
  <1>1. /\ t \in Clients /\ t.tags \subseteq c.tags \cup {"users"}
        /\ a.status \notin Answered => t = c
        /\ t.last = c.last /\ t.useV1 = c.useV1 /\ t.resp = c.resp
        /\ Bun!StoreETag(c, a, "users") = t
    BY ETag DEF Resources
  <1>2. CASE ~WellFormed(a)
    <2>1. \/ r.client = c /\ r.out = NotModified /\ a.status = "same"
          \/ r.client = t /\ r.out = Error
      BY <1>1, <1>2, Reads DEF Bun!GetUserList, Bun!Reply
    <2> QED BY <1>1, <1>2, <2>1, Marked, Unmarked, Codes, Reads
        DEF UsersFine, Heeds, Told, TakeEmpty, WithQuota
  <1>3. CASE WellFormed(a)
    <2>1. /\ new \in Clients /\ new.tags = t.tags /\ new.last = 0
          /\ new.useV1 = t.useV1 /\ new.resp = t.resp
      <3>1. 0 \in 0..MaxDevices
        BY PanelConstants
      <3> QED BY <1>1, <3>1 DEF Clients
    <2>2. r = Bun!ParseUserListResponse(s, t, Listed(a))
      BY <1>1, <1>3, Reads DEF Bun!GetUserList
    <2>3. r.client = new
      BY <2>2 DEF Bun!ParseUserListResponse, Bun!Reply
    <2>4. CASE Listed(a) = {}
      <3>1. r.out = {}
        BY <2>2, <2>4 DEF Bun!ParseUserListResponse, Bun!Reply
      <3>2. ~\E b : Listed(a) = {b}
        BY <2>4
      <3> HIDE DEF new
      <3> QED BY <1>1, <1>3, <2>1, <2>3, <3>1, <3>2, Unmarked, Marked, Codes, Reads
          DEF UsersFine, Listed, Heeds, Told, TakeEmpty, Lists, WithQuota
    <2>5. ASSUME NEW b \in UserBodies, Listed(a) = {b}
          PROVE  UsersFine("BunPanel", s, c, a, r) /\ r.out # Again
      <3> DEFINE limit == Bun!DeviceLimit(s, b.limit)
                 u == Bun!UserInfo("uuid", "uuid", Bun!SpeedLimit(s, b.speed),
                                   Bun!Quota(limit, b.alive, t.last))
      <3>1. r.out = IF Bun!Serves(limit, b.alive, t.last) THEN {u} ELSE {}
        BY <2>2, <2>5 DEF Bun!ParseUserListResponse, Bun!Reply
      <3>2. /\ Bun!Quota(limit, b.alive, t.last) \in Grants
            /\ ~Bun!Serves(limit, b.alive, t.last)
                    => limit > 0 /\ t.last = 0 /\ b.alive >= limit
            /\ Bun!Serves(limit, b.alive, t.last) /\ limit > 0 =>
                 LET q == Bun!Quota(limit, b.alive, t.last)
                 IN  \/ b.alive = 0 /\ q = limit
                     \/ q > 0 /\ q = limit - b.alive + t.last
                     \/ q = t.last /\ t.last > 0
        BY <1>1, BunQuota
      <3>3. b.speed = 0 /\ b.method = Empty
        BY DEF UserBodies
      <3>4. Bun!UserInfo("uuid", "uuid", Bun!SpeedLimit(s, 0), Bun!Quota(limit, b.alive, t.last))
              \in Handed
        BY <3>2, Speed0, HandedType
      <3>5. u \in Handed /\ u.device = Bun!Quota(limit, b.alive, t.last)
        BY <3>3, <3>4 DEF Handed, Bun!UserInfo
      <3>6. Lists(r.out)
        BY <3>1, <3>5 DEF Lists
      <3>7. limit = DeviceLimit(s, b.limit)
        BY Limits0
      <3> HIDE DEF limit, u, new
      <3>8. Shares(s, b, c.last, r.out)
        BY <1>1, <3>1, <3>2, <3>5, <3>7 DEF Shares
      <3>9. \A d : Listed(a) = {d} => Shares(s, d, c.last, r.out)
        BY <2>5, <3>8
      <3> QED BY <1>1, <1>3, <2>1, <2>3, <3>6, <3>9, Unmarked, Marked, Codes, Reads
          DEF UsersFine, Listed, Heeds, Told, TakeEmpty, WithQuota
    <2>6. r.client.useV1 = c.useV1
      BY <1>1, <2>1, <2>3
    <2> QED BY <1>3, <2>4, <2>5, <2>6, Reads DEF UsersAnswered, Listed
  <1> QED
    BY <1>2, <1>3

LEMMA PMUsers ==
    ASSUME NEW s \in Cfgs, NEW c \in Clients, NEW a, UsersAnswered(a)
    PROVE  LET r == PM!GetUserList(s, c, a)
           IN  UsersFine("PMPanel", s, c, a, r) /\ r.client.useV1 = c.useV1 /\ r.out # Again
  <1> DEFINE r == PM!GetUserList(s, c, a)
  <1>1. r.client = c
    BY DEF PM!GetUserList, PM!Reply
  <1>2. CASE a.status # "ok"
    <2>1. r.out = Error \/ (r.out = Panic /\ a.status = "empty")
      BY <1>2, Reads DEF PM!GetUserList, PM!Reply, PM!Valid
    <2> QED BY <1>1, <1>2, <2>1, Marked, Unmarked, Codes
        DEF UsersFine, Heeds, Told, TakeEmpty, WithQuota
  <1>3. CASE a.status = "ok" /\ a.body = {}
    <2>1. r.out \in {Error, {}}
      BY <1>3, Reads DEF PM!GetUserList, PM!Reply, PM!Valid, PM!ParseUserListResponse
    <2>2. Lists({})
      BY DEF Lists
    <2> QED BY <1>1, <1>3, <2>1, <2>2, Marked, Codes
        DEF UsersFine, Heeds, Told, TakeEmpty, WithQuota
  <1>4. ASSUME NEW b \in UserBodies, a.body = {b}, a.status = "ok"
        PROVE  UsersFine("PMPanel", s, c, a, r) /\ r.out # Again
    <2> DEFINE u == PM!UserInfo("passwd", "passwd", PM!SpeedLimit(s, b.speed),
                                PM!DeviceLimit(s, b.limit))
    <2>1. PM!DeviceLimit(s, b.limit) \in Grants /\ b.speed = 0
      BY Limits0, PanelConstants DEF Grants, UserBodies
    <2>2. u \in Handed
      BY <2>1, Speed0, HandedType
    <2>3. r.out = {u} \/ r.out = Error
      BY <1>4, Reads DEF PM!GetUserList, PM!Reply, PM!Valid, PM!ParseUserListResponse
    <2> HIDE DEF u
    <2>4. Lists({u}) /\ {u} # {}
      BY <2>2 DEF Lists
    <2>q. r.out = Error \/ (Lists(r.out) /\ r.out # {})
      BY <2>3, <2>4
    <2> QED BY <1>1, <1>4, <2>q, Unmarked, Marked, Codes
        DEF UsersFine, Heeds, Told, TakeEmpty, WithQuota
  <1> QED
    BY <1>1, <1>2, <1>3, <1>4, Marked DEF UsersAnswered

LEMMA PPUsers ==
    ASSUME NEW s \in Cfgs, NEW c \in Clients, NEW a, UsersAnswered(a)
    PROVE  LET r == PP!GetUserList(s, c, a)
           IN  UsersFine("ProxyPanel", s, c, a, r) /\ r.client.useV1 = c.useV1 /\ r.out # Again
  <1> DEFINE r == PP!GetUserList(s, c, a)
  <1>1. r.client = c
    BY DEF PP!GetUserList, PP!Reply
  <1>2. CASE a.status # "ok"
    <2>1. \/ r.out = Error
          \/ r.out = Panic /\ a.status = "nulls"
          \/ r.out = {} /\ a.status = "empty"
      BY <1>2, Reads DEF PP!GetUserList, PP!Reply, Listed, PP!ParseV2rayUserListResponse,
         PP!ParseTrojanUserListResponse, PP!ParseSSUserListResponse
    <2>2. Lists({}) /\ "ProxyPanel" \in Pointers
      BY DEF Lists, Pointers
    <2> QED BY <1>1, <1>2, <2>1, <2>2, Marked, Unmarked, Codes
        DEF UsersFine, Heeds, Told, TakeEmpty, WithQuota
  <1>3. CASE a.status = "ok" /\ a.body = {}
    <2>1. r.out \in {Error, {}}
      BY <1>3, Reads DEF PP!GetUserList, PP!Reply, Listed, PP!ParseV2rayUserListResponse,
         PP!ParseTrojanUserListResponse, PP!ParseSSUserListResponse
    <2>2. Lists({})
      BY DEF Lists
    <2> QED BY <1>1, <1>3, <2>1, <2>2, Marked, Codes
        DEF UsersFine, Heeds, Told, TakeEmpty, WithQuota
  <1>4. ASSUME NEW b \in UserBodies, a.body = {b}, a.status = "ok"
        PROVE  UsersFine("ProxyPanel", s, c, a, r) /\ r.out # Again
    <2> DEFINE v == PP!UserInfo("uuid", None, PP!SpeedLimit(s, b.speed), c.device)
               t == PP!UserInfo("passwd", None, PP!SpeedLimit(s, b.speed), c.device)
               p == PP!UserInfo(None, "passwd", PP!SpeedLimit(s, b.speed), c.device)
    <2>1. c.device \in Grants /\ b.speed = 0
      BY PanelConstants DEF Grants, UserBodies, Clients
    <2>2. v \in Handed /\ t \in Handed /\ p \in Handed
      BY <2>1, Speed0, HandedType
    <2>3. r.out \in {Error, {v}, {t}, {p}}
      BY <1>4, Reads DEF PP!GetUserList, PP!Reply, Listed, PP!ParseV2rayUserListResponse,
                  PP!ParseTrojanUserListResponse, PP!ParseSSUserListResponse
    <2> HIDE DEF v, t, p
    <2>4. \A u \in Handed : Lists({u}) /\ {u} # {}
      BY DEF Lists
    <2>q. r.out = Error \/ (Lists(r.out) /\ r.out # {})
      BY <2>2, <2>3, <2>4
    <2> QED BY <1>1, <1>4, <2>q, Unmarked, Marked, Codes
        DEF UsersFine, Heeds, Told, TakeEmpty, WithQuota
  <1> QED
    BY <1>1, <1>2, <1>3, <1>4, Marked DEF UsersAnswered

LEMMA NVUsers ==
    ASSUME NEW s \in Cfgs, NEW c \in Clients, NEW a, UsersAnswered(a)
    PROVE  LET r == NV!GetUserList(s, c, a)
           IN  UsersFine("NewV2board", s, c, a, r) /\ r.client.useV1 = c.useV1 /\ r.out # Again
  <1> DEFINE r == NV!GetUserList(s, c, a)
             t == StoreETag(c, a, "users")
  <1>1. /\ t \in Clients /\ t.tags \subseteq c.tags \cup {"users"}
        /\ a.status \notin Answered => t = c
        /\ t.last = c.last /\ t.useV1 = c.useV1 /\ t.resp = c.resp
        /\ NV!StoreETag(c, a, "users") = t
    BY ETag DEF Resources
  <1> HIDE DEF t
  <1>2. CASE a.status # "ok"
    <2>1. \/ r.client = c /\ r.out = NotModified /\ a.status = "same"
          \/ r.client \in {c, t} /\ r.out = Error
          \/ r.client = t /\ r.out = Panic /\ a.status = "nulls"
      BY <1>1, <1>2 DEF NV!GetUserList, NV!Reply, NV!Valid
    <2>2. "NewV2board" \in Pointers
      BY DEF Pointers
    <2> QED BY <1>1, <1>2, <2>1, <2>2, Marked, Unmarked, Codes
        DEF UsersFine, Heeds, Told, TakeEmpty, WithQuota
  <1>3. CASE a.status = "ok" /\ a.body = {}
    <2>1. r.client \in {c, t} /\ r.out \in {Error, {}}
      BY <1>1, <1>3 DEF NV!GetUserList, NV!Reply, NV!Valid
    <2>2. Lists({})
      BY DEF Lists
    <2> QED BY <1>1, <1>3, <2>1, <2>2, Marked, Codes
        DEF UsersFine, Heeds, Told, TakeEmpty, WithQuota
  <1>4. ASSUME NEW b \in UserBodies, a.body = {b}, a.status = "ok"
        PROVE  UsersFine("NewV2board", s, c, a, r) /\ r.client.useV1 = c.useV1 /\ r.out # Again
    <2> DEFINE u == NV!UserOf(s, b)
    <2>1. NV!DeviceLimit(s, b.limit) \in Grants /\ b.speed = 0
      BY Limits0, PanelConstants DEF Grants, UserBodies
    <2>2. u \in Handed
      BY <2>1, Speed0, HandedType DEF NV!UserOf
    <2>3. r.client \in {c, t} /\ (r.out = {u} \/ r.out = Error)
      BY <1>1, <1>4 DEF NV!GetUserList, NV!Reply, NV!Valid
    <2> HIDE DEF u
    <2>4. Lists({u}) /\ {u} # {}
      BY <2>2 DEF Lists
    <2>5. r.out = Error \/ (Lists(r.out) /\ r.out # {})
      BY <2>3, <2>4
    <2> QED BY <1>1, <1>4, <2>3, <2>5, Unmarked, Marked, Codes
        DEF UsersFine, Heeds, Told, TakeEmpty, WithQuota
  <1> QED
    BY <1>2, <1>3, <1>4, <1>1, Marked DEF UsersAnswered

LEMMA GVUsers ==
    ASSUME NEW s \in Cfgs, NEW c \in Clients, NEW a, UsersAnswered(a)
    PROVE  LET r == GV!GetUserList(s, c, a)
           IN  UsersFine("GoV2Panel", s, c, a, r) /\ r.client.useV1 = c.useV1 /\ r.out # Again
  <1> DEFINE r == GV!GetUserList(s, c, a)
             t == StoreETag(c, a, "users")
  <1>1. /\ t \in Clients /\ t.tags \subseteq c.tags \cup {"users"}
        /\ a.status \notin Answered => t = c
        /\ t.last = c.last /\ t.useV1 = c.useV1 /\ t.resp = c.resp
        /\ GV!StoreETag(c, a, "users") = t
    BY ETag DEF Resources
  <1> HIDE DEF t
  <1>2. CASE a.status # "ok"
    <2>1. \/ r.client = c /\ r.out = NotModified /\ a.status = "same"
          \/ r.client \in {c, t} /\ r.out = Error
          \/ r.client = t /\ r.out = Panic /\ a.status = "nulls"
      BY <1>1, <1>2 DEF GV!GetUserList, GV!Reply, GV!Valid
    <2>2. "GoV2Panel" \in Pointers
      BY DEF Pointers
    <2> QED BY <1>1, <1>2, <2>1, <2>2, Marked, Unmarked, Codes
        DEF UsersFine, Heeds, Told, TakeEmpty, WithQuota
  <1>3. CASE a.status = "ok" /\ a.body = {}
    <2>1. r.client \in {c, t} /\ r.out \in {Error, {}}
      BY <1>1, <1>3 DEF GV!GetUserList, GV!Reply, GV!Valid
    <2>2. Lists({})
      BY DEF Lists
    <2> QED BY <1>1, <1>3, <2>1, <2>2, Marked, Codes
        DEF UsersFine, Heeds, Told, TakeEmpty, WithQuota
  <1>4. ASSUME NEW b \in UserBodies, a.body = {b}, a.status = "ok"
        PROVE  UsersFine("GoV2Panel", s, c, a, r) /\ r.client.useV1 = c.useV1 /\ r.out # Again
    <2> DEFINE u == GV!UserOf(s, b)
    <2>1. s.device \in Grants /\ b.speed = 0
      BY Limits0, PanelConstants DEF Grants, UserBodies
    <2>2. u \in Handed
      BY <2>1, Speed0, HandedType DEF GV!UserOf
    <2>3. r.client \in {c, t} /\ (r.out = {u} \/ r.out = Error)
      BY <1>1, <1>4 DEF GV!GetUserList, GV!Reply, GV!Valid
    <2> HIDE DEF u
    <2>4. Lists({u}) /\ {u} # {}
      BY <2>2 DEF Lists
    <2>5. r.out = Error \/ (Lists(r.out) /\ r.out # {})
      BY <2>3, <2>4
    <2> QED BY <1>1, <1>4, <2>3, <2>5, Unmarked, Marked, Codes
        DEF UsersFine, Heeds, Told, TakeEmpty, WithQuota
  <1> QED
    BY <1>2, <1>3, <1>4, <1>1, Marked DEF UsersAnswered

LEMMA VSUsers ==
    ASSUME NEW s \in Cfgs, NEW c \in Clients, NEW a, UsersAnswered(a)
    PROVE  LET r == VS!GetUserList(s, c, a)
           IN  UsersFine("V2RaySocks", s, c, a, r) /\ r.client.useV1 = c.useV1 /\ r.out # Again
  <1> DEFINE r == VS!GetUserList(s, c, a)
             t == StoreETag(c, a, "users")
  <1>1. /\ t \in Clients /\ t.tags \subseteq c.tags \cup {"users"}
        /\ a.status \notin Answered => t = c
        /\ t.last = c.last /\ t.useV1 = c.useV1 /\ t.resp = c.resp
        /\ VS!StoreETag(c, a, "users") = t
    BY ETag DEF Resources
  <1> HIDE DEF t
  <1>2. CASE a.status # "ok"
    <2>1. \/ r.client = c /\ r.out = NotModified /\ a.status = "same"
          \/ r.client \in {c, t} /\ r.out = Error
          \/ r.client = t /\ r.out = {} /\ a.status \in {"empty", "refused"}
      BY <1>1, <1>2 DEF VS!GetUserList, VS!Reply, VS!Accepted
    <2>2. Lists({})
      BY DEF Lists
    <2> QED BY <1>1, <1>2, <2>1, <2>2, Marked, Unmarked, Codes
        DEF UsersFine, Heeds, Told, TakeEmpty, WithQuota
  <1>3. CASE a.status = "ok" /\ a.body = {}
    <2>1. r.client \in {c, t} /\ r.out \in {Error, {}}
      BY <1>1, <1>3 DEF VS!GetUserList, VS!Reply, VS!Accepted
    <2>2. Lists({})
      BY DEF Lists
    <2> QED BY <1>1, <1>3, <2>1, <2>2, Marked, Codes
        DEF UsersFine, Heeds, Told, TakeEmpty, WithQuota
  <1>4. ASSUME NEW b \in UserBodies, a.body = {b}, a.status = "ok"
        PROVE  UsersFine("V2RaySocks", s, c, a, r) /\ r.client.useV1 = c.useV1 /\ r.out # Again
    <2> DEFINE u == VS!ParseUser(s, b)
    <2>1. VS!DeviceLimit(s, b.limit) \in Grants /\ b.speed = 0 /\ b.method = Empty
      BY Limits0, PanelConstants DEF Grants, UserBodies
    <2> DEFINE F(uuid, passwd) == VS!UserInfo(uuid, passwd, VS!SpeedLimit(s, b.speed),
                                              VS!DeviceLimit(s, b.limit))
    <2>a. F(None, "passwd") \in Handed /\ F("passwd", None) \in Handed /\ F("uuid", None) \in Handed
      BY <2>1, Speed0, HandedType
    <2>2. u \in Handed
      <3>1. VS!Empty = Empty
        BY DEF VS!Empty, Empty
      <3> QED BY <2>1, <2>a, <3>1 DEF VS!ParseUser, Handed
    <2>3. r.client \in {c, t} /\ (r.out = {u} \/ r.out = Error)
      BY <1>1, <1>4 DEF VS!GetUserList, VS!Reply, VS!Accepted
    <2> HIDE DEF u
    <2>4. Lists({u}) /\ {u} # {}
      BY <2>2 DEF Lists
    <2>5. r.out = Error \/ (Lists(r.out) /\ r.out # {})
      BY <2>3, <2>4
    <2> QED BY <1>1, <1>4, <2>3, <2>5, Unmarked, Marked, Codes
        DEF UsersFine, Heeds, Told, TakeEmpty, WithQuota
  <1> QED
    BY <1>2, <1>3, <1>4, <1>1, Marked DEF UsersAnswered

LEMMA XBUsers ==
    ASSUME NEW s \in Cfgs, NEW c \in Clients, NEW a, UsersAnswered(a)
    PROVE  LET r == XB!GetUserList(s, c, a)
           IN  UsersFine("Xboard", s, c, a, r) /\ Races(c, a, r)
  <1> DEFINE r == XB!GetUserList(s, c, a)
             p == XB!parseResponse(c, a)
             t == StoreETag(c, a, "users")
  <1>1. /\ t \in Clients /\ t.tags \subseteq c.tags \cup {"users"}
        /\ t.last = c.last /\ t.useV1 = c.useV1 /\ t.resp = c.resp
        /\ XB!StoreETag(c, a, "users") = t
    BY ETag DEF Resources
  <1> HIDE DEF t
  <1>2. c.useV1 \in BOOLEAN
    BY DEF Clients
  <1>3. CASE a.status \notin Answered
    <2>1. \/ r.client = c /\ r.out = NotModified /\ a.status = "same"
          \/ r = p /\ p.out # "answered"
      BY <1>3, XBResponse, Marked, Codes DEF UsersAnswered, XB!GetUserList, XB!Reply
    <2>2. /\ p.client \in Clients
          /\ p.client.tags = c.tags /\ p.client.last = c.last /\ p.client.resp = c.resp
          /\ Races(c, a, p) /\ p.out \in {Error, Again}
      BY <1>3, XBResponse DEF UsersAnswered
    <2>3. CASE r.client = c /\ r.out = NotModified /\ a.status = "same"
      BY <1>2, <1>3, <2>3, Marked, Unmarked, Codes
          DEF UsersFine, Heeds, Told, TakeEmpty, WithQuota, Races, Falls
    <2>4. CASE r = p
      BY <1>3, <2>2, <2>4, Marked, Unmarked, Codes
          DEF UsersFine, Heeds, Told, TakeEmpty, WithQuota
    <2> QED BY <2>1, <2>3, <2>4
  <1>4. ASSUME a.status \in Answered, r.client = t,
               \/ r.out = Error
               \/ r.out = Panic /\ a.status = "nulls"
               \/ a.status = "ok" /\ Lists(r.out) /\ r.out # {}
        PROVE  UsersFine("Xboard", s, c, a, r) /\ Races(c, a, r)
    BY <1>1, <1>2, <1>4, Unmarked, Marked, Codes
        DEF UsersFine, Heeds, Told, TakeEmpty, Pointers, Races, Falls, WithQuota
  <1>5. CASE a.status \in Answered \ {"ok"} \/ (a.status = "ok" /\ a.body = {})
    <2>0. a.status \in Answered /\ p.out = "answered"
      BY <1>5, XBResponse, Codes DEF UsersAnswered
    <2>1. r.client = t /\ (r.out = Error \/ (r.out = Panic /\ a.status = "nulls"))
      BY <1>1, <1>5, <2>0, Codes DEF XB!GetUserList, XB!Reply, XB!Valid
    <2> QED BY <1>4, <2>0, <2>1
  <1>6. ASSUME NEW b \in UserBodies, a.body = {b}, a.status = "ok"
        PROVE  UsersFine("Xboard", s, c, a, r) /\ Races(c, a, r)
    <2> DEFINE u == XB!UserOf(s, b)
    <2>1. XB!DeviceLimit(s, b.limit) \in Grants /\ b.speed = 0
      BY Limits0, PanelConstants DEF Grants, UserBodies
    <2>2. u \in Handed
      BY <2>1, Speed0, HandedType DEF XB!UserOf
    <2>3. p.out = "answered"
      BY <1>6, XBResponse, Codes DEF UsersAnswered
    <2>4. r.client = t /\ r.out = {u}
      BY <1>1, <1>6, <2>3 DEF XB!GetUserList, XB!Reply, XB!Valid
    <2> HIDE DEF u
    <2>5. Lists(r.out) /\ r.out # {}
      BY <2>2, <2>4 DEF Lists
    <2> QED BY <1>4, <1>6, <2>4, <2>5, Codes
  <1> QED
    BY <1>3, <1>5, <1>6 DEF UsersAnswered

-----------------------------------------------------------------------------
(* The rules, the alive list and the reports.                              *)

\* A panic comes of a rule that is no regular expression, and only of that.
Compiles(rules, out) == IF rules = "invalid" THEN out = Panic ELSE out # Panic
RulesFine(k, s, c, a, r) ==
    /\ Heeds(k, c, a, "rules", r) /\ Keeps(c, r) /\ r.client.resp = c.resp
    /\ r.out = Panic => a.status = "ok" /\ a.body.rules = "invalid"
    /\ a.status = "ok" => Compiles(a.body.rules, r.out) \/ r.out = Error

LEMMA RuleSet ==
    ASSUME NEW rules
    PROVE  LET out == Rules(rules)
           IN  /\ Compiles(rules, out) /\ out \notin {Error, NotModified, Again}
               /\ SS!Rules(rules) = out /\ PM!Rules(rules) = out /\ PP!Rules(rules) = out
               /\ VS!Rules(rules) = out /\ NV!Rules(rules) = out /\ GV!Rules(rules) = out
               /\ XB!Rules(rules) = out
  <1>1. Compiles(rules, Rules(rules)) /\ Rules(rules) \notin {Error, NotModified, Again}
    BY Marked DEF Rules, Compiles
  <1> QED
    BY <1>1 DEF Rules, SS!Rules, PM!Rules, PP!Rules, VS!Rules, NV!Rules, GV!Rules, XB!Rules

LEMMA RulesReplyFine ==
    ASSUME NEW k \in AskForRules, NEW s, NEW c \in Clients, NEW a, a.status \in Statuses
    PROVE  RulesFine(k, s, c, a, RulesReply(k, s, c, a))
  <1>0. ASSUME WellFormed(a)
        PROVE  LET out == Rules(Content(a).rules)
               IN  /\ out \notin {Error, NotModified, Again}
                   /\ out = Panic => a.status = "ok" /\ a.body.rules = "invalid"
                   /\ a.status = "ok" => Compiles(a.body.rules, out)
    BY <1>0, RuleSet, Reads DEF Content, Blank, Compiles
  <1>1. CASE k = "SSPanel"
    <2> DEFINE r == SS!GetNodeRule(s, c, a)
               t == StoreETag(c, a, "rules")
    <2>1. /\ t \in Clients /\ t.tags \subseteq c.tags \cup {"rules"}
          /\ a.status \notin Answered => t = c
          /\ t.last = c.last /\ t.useV1 = c.useV1 /\ t.resp = c.resp
          /\ SS!StoreETag(c, a, "rules") = t
      BY ETag DEF Resources
    <2> HIDE DEF t
    <2>2. \/ r.client = c /\ r.out = NotModified /\ a.status = "same"
          \/ r.client = t /\ r.out = Error /\ a.status # "ok"
          \/ r.client = t /\ r.out = Rules(Content(a).rules) /\ WellFormed(a)
      BY <2>1, RuleSet, Reads DEF SS!GetNodeRule, SS!Reply
    <2>3. RulesFine(k, s, c, a, r)
      BY <1>0, <1>1, <2>1, <2>2, Marked, Codes, Reads
          DEF RulesFine, Heeds, Told, TakeEmpty, Keeps, Compiles
    <2> QED BY <1>1, <2>3 DEF RulesReply
  <1>2. CASE k = "PMPanel"
    <2> DEFINE r == PM!GetNodeRule(s, c, a)
    <2>2. /\ r.client = c
          /\ r.out = Error \/ (r.out = Rules(Content(a).rules) /\ WellFormed(a))
      BY RuleSet, Reads DEF PM!GetNodeRule, PM!Reply
    <2>3. RulesFine(k, s, c, a, r)
      BY <1>0, <1>2, <2>2, Marked, Codes, Reads
          DEF RulesFine, Heeds, Told, TakeEmpty, Keeps, Compiles
    <2> QED BY <1>2, <2>3 DEF RulesReply
  <1>3. CASE k = "ProxyPanel"
    <2> DEFINE r == PP!GetNodeRule(s, c, a)
    <2>2. /\ r.client = c
          /\ r.out = Error \/ (r.out = Rules(Content(a).rules) /\ WellFormed(a))
      BY RuleSet, Reads DEF PP!GetNodeRule, PP!Reply
    <2>3. RulesFine(k, s, c, a, r)
      BY <1>0, <1>3, <2>2, Marked, Codes, Reads
          DEF RulesFine, Heeds, Told, TakeEmpty, Keeps, Compiles
    <2> QED BY <1>3, <2>3 DEF RulesReply
  <1> QED
    BY <1>1, <1>2, <1>3 DEF AskForRules

\* Rules kept from the node's answer: no configuration, or an invalid rule.
LEMMA KeptRulesPanic ==
    ASSUME NEW k \in AllKinds \ AskForRules, NEW c \in Clients
    PROVE  KeptRules(k, c).out = Panic
             <=> k # "BunPanel" /\ \/ c.resp = "invalid"
                                   \/ c.resp = None /\ k # "Xboard"
  <1>1. None # "invalid"
    BY ApiConstants DEF Words, RuleSets
  <1>2. {} # Panic
    BY Marked
  <1>3. Rules(c.resp) = Panic <=> c.resp = "invalid"
    BY RuleSet DEF Compiles
  <1> QED
    BY <1>1, <1>2, <1>3, RuleSet
       DEF KeptRules, AllKinds, AskForRules, Reply, VS!GetNodeRule, VS!Reply,
           NV!GetNodeRule, NV!Reply, GV!GetNodeRule, GV!Reply, XB!GetNodeRule, XB!Reply

LEMMA AliveFine ==
    ASSUME NEW k \in AllKinds, NEW c \in Clients, NEW a, a.status \in Statuses
    PROVE  LET r == AliveReply(k, c, a)
           IN  /\ r.client \in Clients /\ r.client.tags = c.tags
               /\ r.client.last = c.last /\ r.client.resp = c.resp
               /\ IF k = "Xboard" THEN Races(c, a, r) ELSE r.client = c
  <1>1. CASE k # "Xboard"
    BY <1>1 DEF AliveReply, NV!GetUserAlive, NV!Reply
  <1>2. CASE k = "Xboard"
    <2> DEFINE r == XB!GetUserAlive(c, a)
               p == XB!parseResponse(c, a)
    <2>1. r = p \/ (r.client = c /\ a.status \in Answered)
      BY XBResponse, Marked, Codes DEF XB!GetUserAlive, XB!Reply
    <2>2. c.useV1 \in BOOLEAN
      BY DEF Clients
    <2>3. a.status \in Answered /\ r.client = c => Races(c, a, r)
      BY <2>2, Codes DEF Races, Falls
    <2> QED BY <1>2, <2>1, <2>3, XBResponse DEF AliveReply
  <1> QED
    BY <1>1, <1>2

\* The reports package k makes requests for.
ReportsOf(k) ==
    {"traffic"}
    \cup (IF k \in {"SSPanel", "ProxyPanel", "V2RaySocks", "Xboard"} THEN {"status"} ELSE {})
    \cup (IF k # "GoV2Panel" THEN {"online"} ELSE {})
    \cup (IF k \in {"SSPanel", "ProxyPanel"} THEN {"illegal"} ELSE {})

LEMMA XBReports ==
    ASSUME NEW c \in Clients, NEW a, a.status \in Statuses, NEW s, NEW at \in ReportsOf("Xboard")
    PROVE  LET r == ReportReply("Xboard", s, c, at, a)
           IN  /\ r.client \in Clients /\ r.client.tags = c.tags
               /\ r.client.last = c.last /\ r.client.resp = c.resp
               /\ Races(c, a, r)
               /\ at = "traffic" /\ r.out = "done" => a.status \in Answered
  <1> DEFINE p == XB!parseResponse(c, a)
  <1>0. /\ p.client \in Clients /\ p.client.tags = c.tags
        /\ p.client.last = c.last /\ p.client.resp = c.resp
        /\ p.client.useV1 = (c.useV1 \/ Falls(a))
        /\ Falls(a) /\ p.out = Error => c.useV1
        /\ a.status \in Answered => p.client = c /\ p.out = "answered"
        /\ a.status \notin Answered => p.out \in {Error, Again}
    BY XBResponse DEF Races
  <1> HIDE DEF p
  <1>1. CASE at = "traffic"
    <2> DEFINE r == XB!ReportUserTraffic(c, a)
    <2>1. \/ r.client = c /\ r.out = "done" /\ p.out = "answered"
          \/ r = p /\ p.out # "answered"
      BY DEF XB!ReportUserTraffic, XB!Reply, p
    <2>2. r.client = p.client /\ (r.out = "done" \/ r.out = p.out)
      BY <1>0, <2>1, Marked
    <2>3. r.out = "done" => a.status \in Answered
      BY <1>0, <2>1, Marked
    <2>4. Races(c, a, r)
      BY <1>0, <2>2, Marked DEF Races
    <2> QED BY <1>0, <1>1, <2>2, <2>3, <2>4 DEF ReportReply, TrafficReply
  <1>2. CASE at = "online"
    <2> DEFINE r == XB!ReportNodeOnlineUsers(c, a)
    <2>1. r.client = p.client /\ (r.out = "done" \/ r.out = p.out)
      BY DEF XB!ReportNodeOnlineUsers, XB!Reply, p
    <2>2. Races(c, a, r)
      BY <1>0, <2>1, Marked DEF Races
    <2> QED BY <1>0, <1>2, <2>1, <2>2 DEF ReportReply, OnlineReply
  <1>3. CASE at = "status"
    <2> DEFINE r == XB!ReportNodeStatus(c, a)
    <2>1. r.client = p.client /\ (r.out = "done" \/ r.out = p.out)
      BY DEF XB!ReportNodeStatus, XB!Reply, p
    <2>2. Races(c, a, r)
      BY <1>0, <2>1, Marked DEF Races
    <2> QED BY <1>0, <1>3, <2>1, <2>2 DEF ReportReply, StatusReply
  <1> QED
    BY <1>1, <1>2, <1>3 DEF ReportsOf

\* Only an answer that carries the panel's yes makes a traffic report return
\* nil, except where the body is not read.
Accepts(k, a) == \/ a.status = "ok"
                 \/ k \in {"NewV2board", "GoV2Panel", "Xboard"} /\ a.status \in Answered
                 \/ k = "V2RaySocks" /\ a.status \in {"refused", "empty"}

LEMMA OtherReports ==
    ASSUME NEW k \in AllKinds \ {"Xboard"}, NEW c, NEW a, NEW s, NEW at \in ReportsOf(k)
    PROVE  LET r == ReportReply(k, s, c, at, a)
           IN  /\ r.client = c
               /\ at = "traffic" /\ r.out = "done" => Accepts(k, a)
  <1> USE Marked, Codes
  <1>1. CASE at = "traffic"
    BY <1>1 DEF ReportReply, TrafficReply, AllKinds, Accepts,
         SS!ReportUserTraffic, SS!Post, SS!Valid, SS!Reply,
         Bun!ReportUserTraffic, Bun!Post, Bun!Valid, Bun!Reply,
         PM!ReportUserTraffic, PM!Post, PM!Valid, PM!Reply,
         PP!ReportUserTraffic, PP!Report, PP!Post, PP!Valid, PP!Reply,
         VS!ReportUserTraffic, VS!PostUnchecked, VS!Accepted, VS!Reply,
         NV!ReportUserTraffic, NV!PostUnread, NV!Reply,
         GV!ReportUserTraffic, GV!PostUnread, GV!Reply
  <1>2. CASE at = "online"
    BY <1>2 DEF ReportReply, OnlineReply, AllKinds, ReportsOf,
         SS!ReportNodeOnlineUsers, SS!Post, SS!Reply,
         Bun!ReportNodeOnlineUsers, Bun!Post, Bun!Reply,
         PM!ReportNodeOnlineUsers, PM!Post, PM!Reply,
         PP!ReportNodeOnlineUsers, PP!Report, PP!Post, PP!Reply,
         VS!ReportNodeOnlineUsers, VS!PostUnchecked, VS!Reply,
         NV!ReportNodeOnlineUsers, NV!Reply
  <1>3. CASE at = "status"
    BY <1>3 DEF ReportReply, StatusReply, AllKinds, ReportsOf,
         SS!ReportNodeStatus, SS!Post, SS!Reply,
         PP!ReportNodeStatus, PP!Report, PP!Post, PP!Reply,
         VS!ReportNodeStatus, VS!PostUnchecked, VS!Reply
  <1>4. CASE at = "illegal"
    BY <1>4 DEF ReportReply, IllegalReply, AllKinds, ReportsOf,
         SS!ReportIllegal, SS!Post, SS!Reply,
         PP!ReportIllegal, PP!Report, PP!Post, PP!Reply
  <1> QED
    BY <1>1, <1>2, <1>3, <1>4 DEF ReportsOf

-----------------------------------------------------------------------------
(* The same of whichever package it is.                                    *)

Raced(k, c, a, r) == IF k = "Xboard" THEN Races(c, a, r)
                     ELSE r.client.useV1 = c.useV1 /\ r.out # Again

LEMMA NodeReplyFine ==
    ASSUME NEW k \in AllKinds, NEW s \in Settings, NEW c \in Clients, NEW a,
           NodeAnswered(k, a)
    PROVE  LET r == NodeReply(k, s, c, a)
           IN  NodeFine(k, s, c, a, r) /\ r.client.last = c.last /\ Raced(k, c, a, r)
  BY SSNode, BunNode, PMNode, PPNode, VSNode, NVNode, GVNode, XBNode
     DEF NodeReply, AllKinds, Keeps, Raced

LEMMA UsersReplyFine ==
    ASSUME NEW k \in AllKinds, NEW s \in Cfgs, NEW c \in Clients, NEW a, UsersAnswered(a)
    PROVE  LET r == UsersReply(k, s, c, a)
           IN  UsersFine(k, s, c, a, r) /\ Raced(k, c, a, r)
  BY SSUsers, BunUsers, PMUsers, PPUsers, VSUsers, NVUsers, GVUsers, XBUsers
     DEF UsersReply, AllKinds, Raced

LEMMA ReportReplyFine ==
    ASSUME NEW k \in AllKinds, NEW s, NEW c \in Clients, NEW a, a.status \in Statuses,
           NEW at \in ReportsOf(k)
    PROVE  LET r == ReportReply(k, s, c, at, a)
           IN  /\ r.client \in Clients /\ r.client.tags = c.tags
               /\ r.client.last = c.last /\ r.client.resp = c.resp
               /\ IF k = "Xboard" THEN Races(c, a, r) ELSE r.client = c
               /\ at = "traffic" /\ r.out = "done" => Accepts(k, a)
  BY XBReports, OtherReports DEF Accepts

-----------------------------------------------------------------------------
(* The inductive invariant.                                                *)

\* Types, with what an answer under way can hold.
StateType ==
    /\ kind \in Kinds /\ cfg \in Cfgs /\ node \in Nodes \cup FirstNodes
    /\ account = None \/ account \in [limit : Limits, others : 0..MaxDevices,
                                      booked : 0..MaxDevices]
    /\ client \in Clients
    /\ edits \in 0..MaxEdits /\ faults \in 0..MaxFaults
    /\ Lists(given)
    /\ dead \in BOOLEAN
    /\ current \subseteq Resources /\ dropped \subseteq Resources
    /\ mistaken \subseteq Resources
    /\ sent \in 0..MaxDevices /\ spoilt \subseteq {"rules", "answer"}
    /\ lost \in Nat
PullType ==
    /\ pull = [at |-> pull.at, path |-> pull.path, answer |-> pull.answer,
               failed |-> pull.failed]
    /\ pull.at \in Resources \cup {"alive", "idle", "ended"}
    /\ pull.path \in {"v1", "v2"} /\ pull.failed \in BOOLEAN
    /\ pull.answer # None =>
          /\ pull.answer.status \in Statuses /\ pull.answer.path = pull.path
          /\ pull.at = "rules" => kind \in AskForRules
          /\ pull.at \in {"node", "rules"} => pull.answer.body \in Nodes \cup FirstNodes
          /\ pull.at = "users" => \/ pull.answer.body = {}
                                  \/ \E b \in UserBodies : pull.answer.body = {b}
PushType ==
    /\ push = [left |-> push.left, path |-> push.path, answer |-> push.answer,
               devices |-> push.devices, booked |-> push.booked]
    /\ push.left \in Seq(ReportsOf(kind))
    /\ push.path \in {"v1", "v2"} /\ push.booked \in BOOLEAN
    /\ push.devices \in 0..MaxDevices
    /\ push.answer # None =>
          /\ push.left # <<>>
          /\ push.answer.status \in Statuses \ {"same", "nulls"}
          /\ push.answer.path = push.path
          /\ push.answer.status # "failed" =>
                push.booked = (push.answer.status = "ok")
TypeInv == StateType /\ PullType /\ PushType

\* Calls sent before the client had fallen back to V1.
PullV2 == pull.at \notin {"idle", "ended"} /\ pull.path = "v2"
PushV2 == push.left # <<>> /\ push.path = "v2"
RaceInv ==
    IF kind = "Xboard" /\ client.useV1
    THEN \/ lost = 0 /\ ~(PullV2 /\ PushV2)
         \/ lost = 1 /\ ~PullV2 /\ ~PushV2
    ELSE lost = 0

\* The devices remembered for the quota are those reported.
MemoryInv == kind \in WithQuota => client.last = sent

\* Where a rule that does not compile, or no configuration, may be found.
RuleInv ==
    /\ kind # "BunPanel" =>
          /\ node.rules = "invalid" => "rules" \in spoilt
          /\ client.resp = "invalid" => "rules" \in spoilt
          /\ pull.answer # None /\ pull.at \in {"node", "rules"}
             /\ pull.answer.body.rules = "invalid" => "rules" \in spoilt
    /\ kind \in {"NewV2board", "GoV2Panel"} => client.resp # None
    /\ kind = "V2RaySocks" => /\ cfg.type \in VS!NodeTypes
                              /\ client.resp = None => "answer" \in spoilt

IInv == /\ TypeInv /\ RaceInv /\ MemoryInv /\ RuleInv
        /\ StaleOnlyIfDropped /\ DeathHasCause

-----------------------------------------------------------------------------
(* Facts the steps share.                                                  *)

LEMMA NodeHasAnswered ==
    ASSUME TypeInv, Come("node")
    PROVE  NodeAnswered(kind, pull.answer)
  <1>1. pull.answer.status \in Statuses /\ pull.answer.body \in Nodes \cup FirstNodes
    BY DEF TypeInv, PullType, Come
  <1> QED
    BY <1>1, PanelConstants DEF NodeAnswered, TypeInv, StateType, NodeAnswers

LEMMA UsersHaveAnswered ==
    ASSUME TypeInv, Come("users")
    PROVE  UsersAnswered(pull.answer)
  BY DEF TypeInv, PullType, Come, UsersAnswered

LEMMA Packages == Kinds \subseteq AllKinds /\ \A c \in Cfgs : c \in Settings
  BY PanelConstants

\* What a GetX has made of an answer, as Learn records it.
LEMMA Learned ==
    ASSUME TypeInv, StaleOnlyIfDropped, UNCHANGED kind, NEW at \in Resources, Come(at),
           NEW r, Heeds(kind, client, pull.answer, at, r), Learn(r, at)
    PROVE  /\ client' \in Clients
           /\ client'.last = r.client.last /\ client'.useV1 = r.client.useV1
           /\ client'.resp = r.client.resp
           /\ dropped' \subseteq Resources /\ current' \subseteq Resources
           /\ mistaken' \subseteq Resources
           /\ dead' \in BOOLEAN
           /\ StaleOnlyIfDropped'
  <1>1. /\ client' \in Clients
        /\ client'.last = r.client.last /\ client'.useV1 = r.client.useV1
        /\ client'.resp = r.client.resp
        /\ client'.tags \subseteq r.client.tags
        /\ at \in client'.tags => Unchanged(at)
    BY DEF Learn, Heeds, Clients
  <1>2. dropped' = IF pull.answer.status \notin Answered THEN dropped
                   ELSE IF r.out = Error THEN dropped \cup {at} ELSE dropped \ {at}
    BY DEF Learn
  <1>3. current' = IF ~Told(r) THEN current
                   ELSE IF pull.answer.status = "ok" /\ Unchanged(at) THEN current \cup {at}
                   ELSE current \ {at}
    BY DEF Learn, Valid
  <1>4. mistaken' = IF ~Told(r) THEN mistaken
                    ELSE IF pull.answer.status = "ok" THEN mistaken \ {at}
                    ELSE mistaken \cup {at}
    BY DEF Learn, Valid
  <1>5. /\ dropped' \subseteq Resources /\ current' \subseteq Resources
        /\ mistaken' \subseteq Resources
    BY <1>2, <1>3, <1>4 DEF TypeInv, StateType
  <1> DEFINE kept  == current \cup dropped \cup (IF kind \in TakeEmpty THEN mistaken ELSE {})
             keeps == current' \cup dropped' \cup (IF kind \in TakeEmpty THEN mistaken' ELSE {})
  <1>6. client.tags \subseteq kept
    BY DEF StaleOnlyIfDropped, Come
  <1>7. ASSUME ~dead', NEW x \in client'.tags PROVE x \in keeps
    <2>1. /\ x \in client.tags \/ x = at
          /\ pull.answer.status \notin Answered => x \in client.tags
          /\ r.out # Panic
      BY <1>1, <1>7 DEF Heeds, Learn
    <2>2. CASE x # at
      <3>1. x \in kept
        BY <1>6, <2>1, <2>2
      <3> QED BY <1>2, <1>3, <1>4, <2>2, <3>1
    <2>3. CASE x = at /\ pull.answer.status \in Answered /\ r.out = Error
      BY <1>2, <2>3
    <2>4. CASE pull.answer.status \notin Answered /\ ~Told(r)
      <3>1. x \in kept
        BY <1>6, <2>1, <2>4
      <3> QED BY <1>2, <1>3, <1>4, <2>4, <3>1
    <2>5. CASE x = at /\ Told(r) /\ pull.answer.status = "ok"
      BY <1>1, <1>3, <1>7, <2>5
    <2>6. CASE x = at /\ Told(r) /\ pull.answer.status # "ok"
      BY <1>4, <2>6 DEF Heeds
    <2>7. pull.answer.status \in Answered /\ ~Told(r) => r.out = Error
      BY <2>1, Codes DEF Heeds, Told
    <2> QED BY <2>2, <2>3, <2>4, <2>5, <2>6, <2>7
  <1>8. StaleOnlyIfDropped'
    BY <1>7 DEF StaleOnlyIfDropped
  <1> QED
    BY <1>1, <1>5, <1>8 DEF Learn

LEMMA Paths ==
    ASSUME NEW c \in Clients
    PROVE  Path(c) \in {"v1", "v2"} /\ (kind = "Xboard" /\ c.useV1 => Path(c) = "v1")
  BY DEF Path, XB!Path

LEMMA ReportsAre ==
    ASSUME NEW k \in AllKinds, NEW c, NEW due
    PROVE  Reports(k, c, due) \in Seq(ReportsOf(k))
  <1> DEFINE If(r) == IF r \in Requests(k, c) /\ r \in due \cup {"status"}
                      THEN <<r>> ELSE <<>>
  <1>1. \A r \in Requests(k, c) : r \in ReportsOf(k)
    BY DEF Requests, ReportsOf, AllKinds
  <1>2. \A r : If(r) \in Seq(ReportsOf(k))
    BY <1>1
  <1> HIDE DEF If
  <1>3. /\ If("status") \in Seq(ReportsOf(k)) /\ If("traffic") \in Seq(ReportsOf(k))
        /\ If("online") \in Seq(ReportsOf(k)) /\ If("illegal") \in Seq(ReportsOf(k))
    BY <1>2
  <1>4. If("status") \o If("traffic") \o If("online") \o If("illegal") \in Seq(ReportsOf(k))
    BY <1>3
  <1> QED
    BY <1>4 DEF Reports, If

LEMMA Sent ==
    ASSUME TypeInv, UNCHANGED <<kind, pull>>, NEW left \in Seq(ReportsOf(kind)),
           NEW c \in Clients, NEW devices \in 0..MaxDevices, Send(left, c, devices),
           kind \in WithQuota => c.last = sent
    PROVE  /\ client' \in Clients /\ client'.tags = c.tags
           /\ client'.useV1 = c.useV1 /\ client'.resp = c.resp
           /\ sent' \in 0..MaxDevices
           /\ PullType' /\ PushType' /\ MemoryInv'
           /\ kind = "Xboard" /\ c.useV1 => ~PushV2'
  <1> DEFINE online == left # <<>> /\ Head(left) = "online" /\ kind \in WithQuota
  <1>1. /\ client' \in Clients /\ client'.tags = c.tags
        /\ client'.useV1 = c.useV1 /\ client'.resp = c.resp
        /\ sent' \in 0..MaxDevices /\ MemoryInv'
    <2>1. CASE online
      <3>1. client' = [c EXCEPT !.last = devices] /\ sent' = devices
        BY <2>1 DEF Send, OnlineToReport, SS!OnlineToReport, Bun!OnlineToReport
      <3> QED BY <3>1 DEF Clients, MemoryInv
    <2>2. CASE ~online
      <3>1. client' = c /\ sent' = sent
        BY <2>2 DEF Send
      <3> QED BY <3>1 DEF MemoryInv, TypeInv, StateType
    <2> QED BY <2>1, <2>2
  <1>2. push' = IF left = <<>> THEN Quiet
                ELSE [left |-> left, path |-> Path(c), answer |-> None,
                      devices |-> devices, booked |-> FALSE]
    BY DEF Send
  <1>3. PushType' /\ (kind = "Xboard" /\ c.useV1 => ~PushV2')
    <2>1. CASE left = <<>>
      BY <1>2, <2>1, PanelConstants DEF Quiet, PushType, PushV2
    <2>2. CASE left # <<>>
      <3>1. push' = [left |-> left, path |-> Path(c), answer |-> None,
                     devices |-> devices, booked |-> FALSE]
        BY <1>2, <2>2
      <3> QED BY <3>1, Paths DEF PushType, PushV2
    <2> QED BY <2>1, <2>2
  <1>4. PullType'
    BY DEF TypeInv, PullType
  <1> QED
    BY <1>1, <1>3, <1>4

-----------------------------------------------------------------------------
(* The invariant holds initially.                                          *)

\* A package that has made something of a node's answer reads its rules.
LEMMA RulesRead ==
    ASSUME NEW k \in AskForRules, NEW s, NEW c, NEW a, NodeReply(k, s, c, a).out # Error,
           NEW d, NEW b, b.status = "ok"
    PROVE  RulesReply(k, s, d, b).out = Rules(b.body.rules)
  <1>0. WellFormed(b) /\ Content(b) = b.body /\ b.status # "same"
    BY DEF WellFormed, Content
  <1>1. CASE k = "SSPanel"
    BY <1>0, <1>1, RuleSet, Reads DEF RulesReply, SS!GetNodeRule, SS!Reply
  <1>2. CASE k = "PMPanel"
    <2>1. s.type \in PM!NodeTypes
      BY <1>2 DEF NodeReply, PM!GetNodeInfo, PM!Reply
    <2> QED BY <1>0, <1>2, <2>1, RuleSet, Reads DEF RulesReply, PM!GetNodeRule, PM!Reply
  <1>3. CASE k = "ProxyPanel"
    <2>1. s.type \in PP!NodeTypes
      BY <1>3 DEF NodeReply, PP!GetNodeInfo, PP!Reply
    <2> QED BY <1>0, <1>3, <2>1, RuleSet, Reads DEF RulesReply, PP!GetNodeRule, PP!Reply
  <1> QED
    BY <1>1, <1>2, <1>3 DEF AskForRules

\* The same of those that keep the rules of the node's answer.
LEMMA RulesKept ==
    ASSUME NEW k \in {"V2RaySocks", "NewV2board", "GoV2Panel", "Xboard"}, NEW s, NEW c,
           NEW a, a.status = "ok", a.body.rules \in RuleSets,
           LET r == NodeReply(k, s, c, a) IN NodeFine(k, s, c, a, r) /\ r.out # Error
    PROVE  /\ NodeReply(k, s, c, a).client.resp = a.body.rules
           /\ k = "V2RaySocks" => s.type \in VS!NodeTypes
  BY DEF NodeFine, Remembers

LEMMA FirstClient ==
    ASSUME NEW s \in Cfgs
    PROVE  /\ NewClient(s) \in Clients
           /\ NewClient(s).tags = {} /\ NewClient(s).last = 0 /\ ~NewClient(s).useV1
  <1>1. s.device \in 0..MaxDevices /\ 0 \in 0..MaxDevices
    BY PanelConstants DEF Settings
  <1> QED
    BY <1>1 DEF NewClient, Clients

LEMMA FirstAnswers ==
    ASSUME Init
    PROVE  /\ NodeAnswered(kind, Fine("node")) /\ UsersAnswered(Fine("users"))
           /\ Fine("node").status = "ok" /\ Fine("users").status = "ok"
           /\ Fine("rules").status = "ok"
           /\ Fine("node").body = node /\ Fine("rules").body = node
           /\ node.rules \in RuleSets
  <1>1. kind \in Kinds /\ node \in Nodes \cup FirstNodes
    BY DEF Init
  <1>2. PICK limit \in Limits : account = [limit |-> limit, others |-> 0, booked |-> 0]
    BY DEF Init
  <1>3. /\ Fine("node") = [status |-> "ok", path |-> "v2", body |-> node]
        /\ Fine("rules") = [status |-> "ok", path |-> "v2", body |-> node]
    BY DEF Fine, Body
  <1>5. /\ Fine("users").status = "ok"
        /\ \/ Fine("users").body = {}
           \/ Fine("users").body = {[limit |-> limit, alive |-> 0, booked |-> 0,
                                     speed |-> 0, method |-> Empty]}
    BY <1>2 DEF Fine, Body
  <1>6. [limit |-> limit, alive |-> 0, booked |-> 0, speed |-> 0, method |-> Empty]
          \in UserBodies
    BY PanelConstants DEF UserBodies, Grants
  <1>7. UsersAnswered(Fine("users"))
    BY <1>5, <1>6 DEF UsersAnswered, Statuses, Answered
  <1>8. NodeAnswered(kind, Fine("node"))
    BY <1>1, <1>3, PanelConstants DEF NodeAnswered, Statuses, Answered, NodeAnswers
  <1> QED
    BY <1>1, <1>3, <1>5, <1>7, <1>8, PanelConstants DEF NodeAnswers

LEMMA Initially == Init => IInv
  <1> SUFFICES ASSUME Init PROVE IInv
    OBVIOUS
  <1> DEFINE n == NodeReply(kind, cfg, NewClient(cfg), Fine("node"))
             u == UsersReply(kind, cfg, n.client, Fine("users"))
             r == IF kind \in AskForRules
                  THEN RulesReply(kind, cfg, u.client, Fine("rules"))
                  ELSE KeptRules(kind, u.client)
  <1>1. /\ kind \in Kinds /\ cfg \in Cfgs /\ node \in FirstNodes
        /\ kind \in AllKinds /\ cfg \in Settings
    BY Packages DEF Init
  <1>2. /\ n.out \notin {Error, Panic} /\ u.out \notin {Error, Panic} /\ r.out # Panic
        /\ client = r.client /\ given = u.out
    BY DEF Init
  <1>3. /\ NodeFine(kind, cfg, NewClient(cfg), Fine("node"), n)
        /\ n.client.last = 0 /\ ~n.client.useV1
    <2>1. /\ NodeFine(kind, cfg, NewClient(cfg), Fine("node"), n)
          /\ n.client.last = NewClient(cfg).last
          /\ Raced(kind, NewClient(cfg), Fine("node"), n)
      BY <1>1, FirstClient, FirstAnswers, NodeReplyFine
    <2>2. n.client.useV1 = NewClient(cfg).useV1
      BY <1>1, <2>1, FirstClient, FirstAnswers DEF Raced, Races, Falls, Clients
    <2> QED BY <1>1, <2>1, <2>2, FirstClient
  <1>4. n.client \in Clients /\ n.client.tags \subseteq {"node"}
    BY <1>1, <1>3, FirstClient DEF NodeFine, Heeds, Told, TakeEmpty
  <1>5. UsersFine(kind, cfg, n.client, Fine("users"), u) /\ u.client.last = 0 /\ ~u.client.useV1
    <2>1. /\ UsersFine(kind, cfg, n.client, Fine("users"), u)
          /\ Raced(kind, n.client, Fine("users"), u)
      BY <1>1, <1>4, FirstAnswers, UsersReplyFine
    <2>2. u.client.useV1 = n.client.useV1
      BY <1>4, <2>1, FirstAnswers DEF Raced, Races, Falls, Clients
    <2> QED BY <1>3, <2>1, <2>2, FirstAnswers DEF UsersFine, WellFormed
  <1>6. /\ u.client \in Clients /\ u.client.tags \subseteq {"node", "users"}
        /\ u.client.resp = n.client.resp /\ Lists(u.out)
    BY <1>2, <1>4, <1>5, FirstAnswers, Codes DEF UsersFine, Heeds
  <1> HIDE DEF n, u
  <1>7. /\ r.client \in Clients /\ r.client.tags \subseteq current
        /\ r.client.last = 0 /\ ~r.client.useV1 /\ r.client.resp = u.client.resp
    <2>1. CASE kind \in AskForRules
      <3>1. RulesFine(kind, cfg, u.client, Fine("rules"), r)
        BY <1>6, <2>1, FirstAnswers, RulesReplyFine, Codes
      <3>2. current = {"node", "users", "rules"}
        BY <2>1 DEF Init
      <3> QED BY <1>5, <1>6, <3>1, <3>2 DEF RulesFine, Heeds, Told, TakeEmpty, Keeps
    <2>2. CASE kind \notin AskForRules
      <3>1. r.client = u.client
        BY <2>2 DEF KeptRules, Reply, VS!GetNodeRule, VS!Reply,
           NV!GetNodeRule, NV!Reply, GV!GetNodeRule, GV!Reply, XB!GetNodeRule, XB!Reply
      <3>2. current = {"node", "users"}
        BY <2>2 DEF Init
      <3> QED BY <1>5, <1>6, <3>1, <3>2
    <2> QED BY <2>1, <2>2
  <1>8. kind # "BunPanel" => node.rules # "invalid"
    <2>1. CASE kind \in AskForRules
      <3>1. r.out = Rules(node.rules)
        BY <1>2, <2>1, FirstAnswers, RulesRead DEF n
      <3> QED BY <1>2, <3>1, RuleSet DEF Compiles
    <2>2. CASE kind \in AllKinds \ (AskForRules \cup {"BunPanel"})
      <3>1. u.client.resp = node.rules
        BY <1>2, <1>3, <1>6, <2>2, FirstAnswers, RulesKept DEF n, AllKinds, AskForRules
      <3>2. u.client.resp # "invalid"
        BY <1>2, <1>6, <2>2, KeptRulesPanic
      <3> QED BY <3>1, <3>2
    <2> QED BY <1>1, <2>1, <2>2
  <1>9. kind \in {"V2RaySocks", "NewV2board", "GoV2Panel", "Xboard"} =>
          client.resp = node.rules
    BY <1>2, <1>3, <1>6, <1>7, FirstAnswers, RulesKept DEF n
  <1>10. kind = "V2RaySocks" => cfg.type \in VS!NodeTypes
    BY <1>2, <1>3, FirstAnswers, RulesKept DEF n
  <1>11. client.resp \in {None, "none", node.rules}
    <2>1. NewClient(cfg).resp = None
      BY DEF NewClient
    <2> QED BY <1>2, <1>3, <1>6, <1>7, <2>1, FirstAnswers DEF NodeFine, Remembers
  <1>12. TypeInv
    <2>1. StateType
      <3>1. /\ 0 \in 0..MaxEdits /\ 0 \in 0..MaxFaults /\ 0 \in 0..MaxDevices
        BY PanelConstants
      <3>2. account \in [limit : Limits, others : 0..MaxDevices, booked : 0..MaxDevices]
        BY <3>1 DEF Init
      <3>3. current \subseteq Resources
        BY DEF Init, Resources
      <3> QED BY <1>1, <1>2, <1>6, <1>7, <3>1, <3>2, <3>3 DEF Init, StateType
    <2>2. PullType
      BY DEF Init, Idle, PullType
    <2>3. PushType
      BY PanelConstants DEF Init, Quiet, PushType
    <2> QED BY <2>1, <2>2, <2>3 DEF TypeInv
  <1>13. RaceInv
    BY <1>2, <1>7 DEF Init, RaceInv
  <1>14. MemoryInv
    BY <1>2, <1>7 DEF Init, MemoryInv
  <1>15. RuleInv
    <2>1. None \notin RuleSets /\ node.rules \in RuleSets
      BY FirstAnswers, ApiConstants DEF Words
    <2> QED BY <1>8, <1>9, <1>10, <1>11, <2>1 DEF RuleInv, Init, Idle, RuleSets
  <1>16. StaleOnlyIfDropped /\ DeathHasCause
    BY <1>2, <1>7 DEF Init, StaleOnlyIfDropped, DeathHasCause
  <1> QED
    BY <1>12, <1>13, <1>14, <1>15, <1>16 DEF IInv

-----------------------------------------------------------------------------
(* Every action keeps it: the panel and the network.                       *)

LEMMA Edited ==
    ASSUME TypeInv, StaleOnlyIfDropped, NEW R, Changed(R),
           UNCHANGED <<kind, dead, dropped, mistaken>>
    PROVE  /\ client' \in Clients /\ client'.last = client.last
           /\ client'.useV1 = client.useV1 /\ client'.resp = client.resp
           /\ current' \subseteq Resources
           /\ StaleOnlyIfDropped'
  <1>1. /\ client' \in Clients /\ client'.last = client.last
        /\ client'.useV1 = client.useV1 /\ client'.resp = client.resp
        /\ client'.tags = client.tags \ R
    BY DEF Changed, TypeInv, StateType, Clients
  <1>2. current' = current \ R
    BY DEF Changed
  <1> QED
    BY <1>1, <1>2 DEF StaleOnlyIfDropped, TypeInv, StateType

LEMMA SetNodeKeeps == ASSUME IInv, NEW n \in Nodes, SetNode(n) PROVE IInv'
  <1>1. /\ UNCHANGED <<kind, cfg, account, faults, pull, push, given, dead,
                       dropped, mistaken, sent, lost>>
        /\ node' = n /\ edits < MaxEdits /\ edits' = edits + 1
        /\ spoilt' = IF n.rules = "invalid" THEN spoilt \cup {"rules"} ELSE spoilt
        /\ Changed({"node", "rules"})
    BY DEF SetNode
  <1>2. /\ client' \in Clients /\ client'.last = client.last
        /\ client'.useV1 = client.useV1 /\ client'.resp = client.resp
        /\ current' \subseteq Resources /\ StaleOnlyIfDropped'
    BY <1>1, Edited DEF IInv
  <1>3. TypeInv'
    <2>1. StateType'
      BY <1>1, <1>2, PanelConstants DEF IInv, TypeInv, StateType
    <2>2. PullType' /\ PushType'
      BY <1>1 DEF IInv, TypeInv, PullType, PushType
    <2> QED BY <2>1, <2>2 DEF TypeInv
  <1>4. RaceInv' /\ MemoryInv'
    BY <1>1, <1>2 DEF IInv, RaceInv, MemoryInv, PullV2, PushV2
  <1>5. RuleInv' /\ DeathHasCause'
    BY <1>1, <1>2 DEF IInv, RuleInv, DeathHasCause
  <1> QED
    BY <1>2, <1>3, <1>4, <1>5 DEF IInv

LEMMA SetAccountKeeps ==
    ASSUME IInv, NEW acc, SetAccount(acc),
           \/ acc = None
           \/ acc \in [limit : Limits, others : 0..MaxDevices, booked : 0..MaxDevices]
    PROVE  IInv'
  <1>1. /\ UNCHANGED <<kind, cfg, node, faults, pull, push, given, dead,
                       dropped, mistaken, sent, spoilt, lost>>
        /\ account' = acc /\ edits < MaxEdits /\ edits' = edits + 1
        /\ Changed({"users"})
    BY DEF SetAccount
  <1>2. /\ client' \in Clients /\ client'.last = client.last
        /\ client'.useV1 = client.useV1 /\ client'.resp = client.resp
        /\ current' \subseteq Resources /\ StaleOnlyIfDropped'
    BY <1>1, Edited DEF IInv
  <1>3. TypeInv'
    <2>1. StateType'
      BY <1>1, <1>2, PanelConstants DEF IInv, TypeInv, StateType
    <2>2. PullType' /\ PushType'
      BY <1>1 DEF IInv, TypeInv, PullType, PushType
    <2> QED BY <2>1, <2>2 DEF TypeInv
  <1>4. RaceInv' /\ MemoryInv'
    BY <1>1, <1>2 DEF IInv, RaceInv, MemoryInv, PullV2, PushV2
  <1>5. RuleInv' /\ DeathHasCause'
    BY <1>1, <1>2 DEF IInv, RuleInv, DeathHasCause
  <1> QED
    BY <1>2, <1>3, <1>4, <1>5 DEF IInv

LEMMA AnyAccountKeeps == ASSUME IInv, SetAnyAccount \/ Expire PROVE IInv'
  <1> DEFINE Booked == [limit : Limits, others : 0..MaxDevices, booked : 0..MaxDevices]
  <1>1. account = None \/ account \in Booked
    BY DEF IInv, TypeInv, StateType
  <1>2. CASE SetAnyAccount
    <2>1. PICK acc \in Accounts :
             SetAccount(IF acc = None \/ account = None THEN acc
                        ELSE [acc EXCEPT !.booked = account.booked])
      BY <1>2 DEF SetAnyAccount
    <2>2. CASE acc = None \/ account = None
      <3>1. acc = None \/ acc \in Booked
        BY PanelConstants DEF Accounts
      <3>2. SetAccount(acc)
        BY <2>1, <2>2
      <3> QED BY <3>1, <3>2, SetAccountKeeps
    <2>3. CASE acc # None /\ account # None
      <3> DEFINE new == [acc EXCEPT !.booked = account.booked]
      <3>1. new \in Booked
        BY <1>1, <2>3 DEF Accounts
      <3>2. SetAccount(new)
        BY <2>1, <2>3
      <3> HIDE DEF new
      <3> QED BY <3>1, <3>2, SetAccountKeeps
    <2> QED BY <2>2, <2>3
  <1>3. CASE Expire
    <2> DEFINE new == [account EXCEPT !.booked = 0]
    <2>1. SetAccount(new) /\ account # None
      BY <1>3 DEF Expire
    <2>2. new \in Booked
      BY <1>1, <2>1, PanelConstants
    <2> HIDE DEF new
    <2> QED BY <2>1, <2>2, SetAccountKeeps
  <1> QED
    BY <1>2, <1>3

LEMMA FaultsCounted ==
    ASSUME NEW status, NEW path, CountFault(status, path), faults \in 0..MaxFaults
    PROVE  faults' \in 0..MaxFaults
  BY PanelConstants DEF CountFault

LEMMA AnswerPullKeeps ==
    ASSUME IInv, NEW status \in Statuses, AnswerPull(status) PROVE IInv'
  <1>1. /\ UNCHANGED <<kind, cfg, client, node, account, edits, push, given, dead,
                       current, dropped, mistaken, sent, spoilt, lost>>
        /\ ~dead /\ pull.at \notin {"idle", "ended"}
        /\ pull.at # "rules" \/ kind \in AskForRules
        /\ CountFault(status, pull.path)
        /\ pull' = [pull EXCEPT !.answer = [status |-> status, path |-> pull.path,
                                            body |-> Body(pull.at)]]
    BY DEF AnswerPull, panel, history
  <1> DEFINE a == [status |-> status, path |-> pull.path, body |-> Body(pull.at)]
  <1>2. pull' = [at |-> pull.at, path |-> pull.path, answer |-> a, failed |-> pull.failed]
    BY <1>1 DEF IInv, TypeInv, PullType
  <1>3. pull.at = "users" => \/ a.body = {}
                             \/ \E b \in UserBodies : a.body = {b}
    <2> DEFINE b == [limit |-> account.limit, alive |-> account.others + account.booked,
                     booked |-> account.booked, speed |-> 0, method |-> Empty]
    <2>1. pull.at = "users" => a.body = IF account = None THEN {} ELSE {b}
      BY DEF Body
    <2>2. ASSUME account # None PROVE b \in UserBodies
      <3>1. /\ account.limit \in 0..MaxDevices /\ account.others \in 0..MaxDevices
            /\ account.booked \in 0..MaxDevices /\ MaxDevices \in Nat
        BY <2>2, PanelConstants DEF IInv, TypeInv, StateType
      <3>2. /\ account.others + account.booked \in 0..(2 * MaxDevices)
            /\ account.booked <= account.others + account.booked
        BY <3>1
      <3> QED BY <3>1, <3>2 DEF UserBodies, Grants
    <2> HIDE DEF b
    <2> QED BY <2>1, <2>2
  <1>4. pull.at \in {"node", "rules"} => a.body = node
    BY DEF Body
  <1> HIDE DEF a
  <1>5. a.status = status /\ a.path = pull.path
    BY DEF a
  <1>6. TypeInv'
    <2>1. StateType'
      BY <1>1, FaultsCounted DEF IInv, TypeInv, StateType
    <2>2. PullType'
      BY <1>1, <1>2, <1>3, <1>4, <1>5 DEF IInv, TypeInv, PullType, StateType
    <2>3. PushType'
      BY <1>1 DEF IInv, TypeInv, PushType
    <2> QED BY <2>1, <2>2, <2>3 DEF TypeInv
  <1>7. RaceInv' /\ MemoryInv'
    BY <1>1, <1>2 DEF IInv, RaceInv, MemoryInv, PullV2, PushV2
  <1>8. RuleInv' /\ DeathHasCause' /\ StaleOnlyIfDropped'
    BY <1>1, <1>2, <1>4 DEF IInv, RuleInv, DeathHasCause, StaleOnlyIfDropped
  <1> QED
    BY <1>6, <1>7, <1>8 DEF IInv

LEMMA AnswerPushKeeps ==
    ASSUME IInv, NEW status \in Statuses, NEW booked \in BOOLEAN, AnswerPush(status, booked)
    PROVE  IInv'
  <1>1. /\ UNCHANGED <<kind, cfg, node, edits, pull, given, dead, dropped,
                       mistaken, sent, spoilt, lost>>
        /\ push.left # <<>> /\ status \notin {"same", "nulls"}
        /\ status # "failed" => booked = (status = "ok")
        /\ CountFault(status, push.path)
        /\ push' = [push EXCEPT !.answer = [status |-> status, path |-> push.path],
                                !.booked = booked]
        /\ \/ /\ account # None /\ account' = [account EXCEPT !.booked = push.devices]
              /\ Changed({"users"})
           \/ UNCHANGED <<account, client, current>>
    BY DEF AnswerPush
  <1>2. push' = [left |-> push.left, path |-> push.path,
                 answer |-> [status |-> status, path |-> push.path],
                 devices |-> push.devices, booked |-> booked]
    BY <1>1 DEF IInv, TypeInv, PushType
  <1>3. /\ client' \in Clients /\ client'.last = client.last
        /\ client'.useV1 = client.useV1 /\ client'.resp = client.resp
        /\ current' \subseteq Resources /\ StaleOnlyIfDropped'
    <2>1. CASE Changed({"users"})
      BY <1>1, <2>1, Edited DEF IInv
    <2>2. CASE UNCHANGED <<client, current>>
      BY <1>1, <2>2 DEF IInv, TypeInv, StateType, StaleOnlyIfDropped
    <2> QED BY <1>1, <2>1, <2>2
  <1>4. TypeInv'
    <2>1. \/ account' = None
          \/ account' \in [limit : Limits, others : 0..MaxDevices, booked : 0..MaxDevices]
      BY <1>1 DEF IInv, TypeInv, StateType, PushType
    <2>2. StateType'
      BY <1>1, <1>3, <2>1, FaultsCounted DEF IInv, TypeInv, StateType
    <2>3. PullType'
      BY <1>1 DEF IInv, TypeInv, PullType
    <2>4. PushType'
      <3>1. /\ push'.left = push.left /\ push'.path = push.path
            /\ push'.devices = push.devices /\ push'.booked = booked
            /\ push'.answer.status = status /\ push'.answer.path = push.path
            /\ push' = [left |-> push'.left, path |-> push'.path, answer |-> push'.answer,
                        devices |-> push'.devices, booked |-> push'.booked]
        BY <1>2
      <3>2. status # "failed" => push'.booked = (push'.answer.status = "ok")
        BY <1>1, <3>1
      <3> QED BY <1>1, <3>1, <3>2 DEF IInv, TypeInv, PushType
    <2> QED BY <2>2, <2>3, <2>4 DEF TypeInv
  <1>5. RaceInv' /\ MemoryInv'
    BY <1>1, <1>2, <1>3 DEF IInv, RaceInv, MemoryInv, PullV2, PushV2
  <1>6. RuleInv' /\ DeathHasCause'
    BY <1>1, <1>3 DEF IInv, RuleInv, DeathHasCause
  <1> QED
    BY <1>3, <1>4, <1>5, <1>6 DEF IInv

-----------------------------------------------------------------------------
(* Every action keeps it: nodeInfoMonitor.                                 *)

LEMMA Asked ==
    ASSUME NEW c \in Clients, UNCHANGED kind,
           \/ \E at \in Resources \cup {"alive"}, failed \in BOOLEAN : pull' = Ask(at, c, failed)
           \/ pull' = Idle
           \/ pull' = [Idle EXCEPT !.at = "ended"]
    PROVE  /\ PullType' /\ pull'.answer = None
           /\ kind = "Xboard" /\ c.useV1 => ~PullV2'
  <1>1. ASSUME NEW at \in Resources \cup {"alive"}, NEW failed \in BOOLEAN,
               pull' = Ask(at, c, failed)
        PROVE  /\ PullType' /\ pull'.answer = None
               /\ kind = "Xboard" /\ c.useV1 => ~PullV2'
    BY <1>1, Paths DEF Ask, PullType, PullV2
  <1>2. CASE pull' = Idle \/ pull' = [Idle EXCEPT !.at = "ended"]
    <2>1. \E at \in {"idle", "ended"} :
             pull' = [at |-> at, path |-> "v2", answer |-> None, failed |-> FALSE]
      BY <1>2 DEF Idle
    <2> QED BY <2>1 DEF PullType, PullV2
  <1> QED
    BY <1>1, <1>2

\* Whichever monitor finds V2 missing second gives its call up, and then no call
\* of V2 is under way.
LEMMA PullRaces ==
    ASSUME IInv, UNCHANGED <<kind, push>>, pull.at \notin {"idle", "ended"},
           pull.answer # None, NEW r, r.client \in Clients,
           kind = "Xboard" => Races(client, pull.answer, r), CountLost(pull, r),
           client'.useV1 = r.client.useV1,
           kind = "Xboard" /\ r.client.useV1 => ~PullV2'
    PROVE  RaceInv' /\ lost' \in Nat
  <1>1. lost' \in Nat
    BY DEF IInv, TypeInv, StateType, CountLost
  <1>2. CASE kind # "Xboard"
    BY <1>2 DEF IInv, RaceInv, CountLost
  <1>3. CASE kind = "Xboard"
    <2>1. PushV2' = PushV2
      BY DEF PushV2
    <2>2. Falls(pull.answer) <=> pull.answer.status = "missing" /\ pull.path = "v2"
      BY DEF Falls, IInv, TypeInv, PullType
    <2>3. Falls(pull.answer) => PullV2
      BY <2>2 DEF PullV2
    <2>4. client.useV1 \in BOOLEAN /\ r.client.useV1 \in BOOLEAN
      BY DEF IInv, TypeInv, StateType, Clients
    <2>5. /\ client'.useV1 = (client.useV1 \/ Falls(pull.answer))
          /\ Falls(pull.answer) /\ r.out = Error => client.useV1
          /\ client'.useV1 => ~PullV2'
      BY <1>3 DEF Races
    <2>6. lost' = IF Falls(pull.answer) /\ r.out = Error THEN lost + 1 ELSE lost
      BY <1>3, <2>2 DEF CountLost
    <2>7. IF client.useV1 THEN \/ lost = 0 /\ ~(PullV2 /\ PushV2)
                               \/ lost = 1 /\ ~PullV2 /\ ~PushV2
                          ELSE lost = 0
      BY <1>3 DEF IInv, RaceInv
    <2>8. CASE client'.useV1
      <3>1. \/ lost' = 0 /\ ~(PullV2' /\ PushV2')
            \/ lost' = 1 /\ ~PullV2' /\ ~PushV2'
        BY <2>1, <2>3, <2>4, <2>5, <2>6, <2>7, <2>8
      <3> QED BY <1>3, <2>8, <3>1 DEF RaceInv
    <2>9. CASE ~client'.useV1
      <3>1. lost' = 0
        BY <2>4, <2>5, <2>6, <2>7, <2>9
      <3> QED BY <1>3, <2>9, <3>1 DEF RaceInv
    <2> QED BY <2>8, <2>9
  <1> QED
    BY <1>1, <1>2, <1>3

LEMMA PollStartsKeeps == ASSUME IInv, PollStarts PROVE IInv'
  <1>1. /\ UNCHANGED <<kind, cfg, client, node, account, edits, faults, push, given,
                       dead, current, dropped, mistaken, sent, spoilt, lost>>
        /\ ~dead /\ pull' = Ask("node", client, FALSE) /\ client \in Clients
    BY DEF PollStarts, panel, bounds, history, IInv, TypeInv, StateType
  <1>2. PullType' /\ pull'.answer = None /\ (kind = "Xboard" /\ client.useV1 => ~PullV2')
    BY <1>1, Asked DEF Resources
  <1>3. TypeInv'
    BY <1>1, <1>2 DEF IInv, TypeInv, StateType, PushType
  <1>4. RaceInv' /\ MemoryInv'
    BY <1>1, <1>2 DEF IInv, RaceInv, MemoryInv, PullV2, PushV2
  <1>5. RuleInv' /\ DeathHasCause' /\ StaleOnlyIfDropped'
    BY <1>1, <1>2 DEF IInv, RuleInv, DeathHasCause, StaleOnlyIfDropped
  <1> QED
    BY <1>3, <1>4, <1>5 DEF IInv

LEMMA TakeNodeKeeps == ASSUME IInv, TakeNode PROVE IInv'
  <1> DEFINE r == NodeReply(kind, cfg, client, pull.answer)
  <1>1. /\ UNCHANGED <<kind, cfg, node, account, edits, faults, push, given, sent>>
        /\ Come("node") /\ Learn(r, "node") /\ CountLost(pull, r)
        /\ spoilt' = CASE pull.answer.status = "ok"   -> spoilt \ {"answer"}
                       [] pull.answer.status = "same" -> spoilt
                       [] OTHER                       -> spoilt \cup {"answer"}
        /\ \/ \E at \in {"node", "users"} : pull' = Ask(at, r.client, FALSE)
           \/ pull' = Idle
           \/ pull' = [Idle EXCEPT !.at = "ended"]
           \/ pull' = pull /\ r.out = Panic
        /\ r.out = Panic => pull' = pull
    BY DEF TakeNode, panel, bounds
  <1>2. /\ kind \in AllKinds /\ cfg \in Settings /\ client \in Clients
        /\ NodeAnswered(kind, pull.answer)
    BY <1>1, Packages, NodeHasAnswered DEF IInv, TypeInv, StateType
  <1>3. NodeFine(kind, cfg, client, pull.answer, r) /\ r.client.last = client.last
        /\ Raced(kind, client, pull.answer, r)
    BY <1>2, NodeReplyFine
  <1> HIDE DEF r
  <1>4. r.client \in Clients
    BY <1>3 DEF NodeFine, Heeds, Told, TakeEmpty
  <1>5. /\ client' \in Clients
        /\ client'.last = r.client.last /\ client'.useV1 = r.client.useV1
        /\ client'.resp = r.client.resp
        /\ dropped' \subseteq Resources /\ current' \subseteq Resources
        /\ mistaken' \subseteq Resources
        /\ dead' \in BOOLEAN /\ StaleOnlyIfDropped'
    BY <1>1, <1>3, Learned DEF IInv, NodeFine, Resources
  <1>6. /\ PullType' /\ (pull'.answer = None \/ pull' = pull)
        /\ kind = "Xboard" /\ r.client.useV1 => ~PullV2'
    <2>1. CASE r.out = Panic
      BY <1>1, <1>3, <2>1 DEF NodeFine, IInv, TypeInv, PullType
    <2>2. CASE r.out # Panic
      BY <1>1, <1>4, <2>2, Asked DEF Resources
    <2> QED BY <2>1, <2>2
  <1>7. RaceInv' /\ lost' \in Nat
    BY <1>1, <1>3, <1>4, <1>5, <1>6, PullRaces DEF Raced, Come
  <1>8. TypeInv'
    <2>1. StateType'
      BY <1>1, <1>5, <1>7 DEF IInv, TypeInv, StateType
    <2>2. PushType'
      BY <1>1 DEF IInv, TypeInv, PushType
    <2> QED BY <1>6, <2>1, <2>2 DEF TypeInv
  <1>9. MemoryInv'
    BY <1>1, <1>3, <1>5 DEF IInv, MemoryInv
  <1>10. /\ "rules" \in spoilt => "rules" \in spoilt'
         /\ pull.answer.status \notin {"ok", "same"} => "answer" \in spoilt'
         /\ pull.answer.status = "same" => spoilt' = spoilt
    BY <1>1
  <1>11. RuleInv'
    <2>1. None # "invalid" /\ None \notin RuleSets /\ None # "none"
      BY ApiConstants DEF Words, RuleSets
    <2>2. pull.answer.status = "ok" => pull.answer.body.rules \in RuleSets
      BY <1>2 DEF NodeAnswered, NodeAnswers, WellFormed
    <2>3. \/ client'.resp \in {client.resp, "none"}
          \/ pull.answer.status = "ok" /\ client'.resp = pull.answer.body.rules
          \/ /\ kind = "V2RaySocks" /\ pull.answer.status \notin {"ok", "same"}
             /\ client'.resp = None
      BY <1>3, <1>5 DEF NodeFine, Remembers
    <2>4. ASSUME kind # "BunPanel", client'.resp = "invalid" PROVE "rules" \in spoilt'
      <3>1. pull.answer # None /\ pull.at = "node"
        BY <1>1 DEF Come
      <3> QED BY <1>10, <2>1, <2>3, <2>4, <3>1 DEF IInv, RuleInv
    <2>5. kind \in {"NewV2board", "GoV2Panel"} => client'.resp # None
      BY <2>1, <2>2, <2>3 DEF IInv, RuleInv
    <2>6. ASSUME kind = "V2RaySocks", client'.resp = None PROVE "answer" \in spoilt'
      <3>1. cfg.type \in VS!NodeTypes /\ (client.resp = None => "answer" \in spoilt)
        BY <2>6 DEF IInv, RuleInv
      <3>2. pull.answer.status # "ok"
        BY <1>3, <1>5, <2>1, <2>2, <2>6, <3>1 DEF NodeFine, Remembers
      <3>3. CASE pull.answer.status = "same"
        BY <1>10, <2>1, <2>3, <2>6, <3>1, <3>3
      <3> QED BY <1>10, <3>2, <3>3
    <2>7. kind # "BunPanel" /\ node'.rules = "invalid" => "rules" \in spoilt'
      BY <1>1, <1>10 DEF IInv, RuleInv
    <2>8. kind = "V2RaySocks" => cfg'.type \in VS!NodeTypes
      BY <1>1 DEF IInv, RuleInv
    <2>9. pull'.answer # None => UNCHANGED pull
      BY <1>6
    <2>10. ASSUME kind # "BunPanel", pull'.answer # None, pull'.at \in {"node", "rules"},
                  pull'.answer.body.rules = "invalid"
           PROVE  "rules" \in spoilt'
      BY <1>10, <2>9, <2>10 DEF IInv, RuleInv
    <2> QED BY <1>1, <2>4, <2>5, <2>6, <2>7, <2>8, <2>10 DEF RuleInv
  <1>12. DeathHasCause'
    <2>1. dead' => r.out = Panic /\ UNCHANGED pull /\ pull.at = "node"
      BY <1>1 DEF Learn, Come
    <2> QED BY <1>1, <1>3, <1>10, <2>1 DEF DeathHasCause, NodeFine
  <1> QED
    BY <1>5, <1>7, <1>8, <1>9, <1>11, <1>12 DEF IInv

LEMMA TakeUsersKeeps == ASSUME IInv, TakeUsers PROVE IInv'
  <1> DEFINE r == UsersReply(kind, cfg, client, pull.answer)
  <1>1. /\ UNCHANGED <<kind, cfg, node, account, edits, faults, push, spoilt>>
        /\ Come("users") /\ Learn(r, "users") /\ CountLost(pull, r)
        /\ given' = IF Told(r) THEN r.out ELSE given
        /\ sent' = IF Told(r) THEN 0 ELSE sent
        /\ \/ \E at \in {"users", "alive", "rules"}, failed \in BOOLEAN :
                 pull' = Ask(at, r.client, failed)
           \/ pull' = Idle
           \/ pull' = pull /\ r.out = Panic
        /\ r.out = Panic => pull' = pull
    BY DEF TakeUsers, panel, bounds
  <1>2. /\ kind \in AllKinds /\ cfg \in Cfgs /\ client \in Clients
        /\ UsersAnswered(pull.answer)
    BY <1>1, Packages, UsersHaveAnswered DEF IInv, TypeInv, StateType
  <1>3. /\ UsersFine(kind, cfg, client, pull.answer, r)
        /\ Raced(kind, client, pull.answer, r)
    BY <1>2, UsersReplyFine
  <1> HIDE DEF r
  <1>4. r.client \in Clients
    BY <1>3 DEF UsersFine, Heeds, Told, TakeEmpty
  <1>5. /\ client' \in Clients
        /\ client'.last = r.client.last /\ client'.useV1 = r.client.useV1
        /\ client'.resp = r.client.resp
        /\ dropped' \subseteq Resources /\ current' \subseteq Resources
        /\ mistaken' \subseteq Resources
        /\ dead' \in BOOLEAN /\ StaleOnlyIfDropped'
    BY <1>1, <1>3, Learned DEF IInv, UsersFine, Resources
  <1>6. /\ PullType' /\ (pull'.answer = None \/ pull' = pull)
        /\ r.out # Panic /\ kind = "Xboard" /\ r.client.useV1 => ~PullV2'
    <2>1. CASE r.out = Panic
      BY <1>1, <2>1 DEF IInv, TypeInv, PullType
    <2>2. CASE r.out # Panic
      BY <1>1, <1>4, <2>2, Asked DEF Resources
    <2> QED BY <2>1, <2>2
  <1>7. RaceInv' /\ lost' \in Nat
    <2>1. CASE r.out # Panic
      BY <1>1, <1>3, <1>4, <1>5, <1>6, <2>1, PullRaces DEF Raced, Come
    <2>2. CASE r.out = Panic /\ kind # "Xboard"
      BY <1>1, <1>3, <1>4, <1>5, <2>2, PullRaces DEF Raced, Come
    <2>3. CASE r.out = Panic /\ kind = "Xboard"
      <3>1. pull.answer.status = "nulls"
        BY <1>3, <2>3 DEF UsersFine
      <3>2. client'.useV1 = client.useV1
        BY <1>2, <1>3, <1>5, <2>3, <3>1 DEF Raced, Races, Falls, Clients
      <3>3. lost' = lost
        BY <1>1, <2>3, <3>1 DEF CountLost
      <3> QED BY <1>1, <2>3, <3>2, <3>3
          DEF IInv, RaceInv, PullV2, PushV2, TypeInv, StateType
    <2> QED BY <2>1, <2>2, <2>3
  <1>8. TypeInv'
    <2>1. Lists(given')
      BY <1>1, <1>3, Codes DEF IInv, TypeInv, StateType, UsersFine, Told
    <2>2. sent' \in 0..MaxDevices
      BY <1>1, PanelConstants DEF IInv, TypeInv, StateType
    <2>3. StateType'
      BY <1>1, <1>5, <1>7, <2>1, <2>2 DEF IInv, TypeInv, StateType
    <2>4. PushType'
      BY <1>1 DEF IInv, TypeInv, PushType
    <2> QED BY <1>6, <2>3, <2>4 DEF TypeInv
  <1>9. MemoryInv'
    <2>1. CASE kind \in WithQuota /\ WellFormed(pull.answer)
      <3>1. client'.last = 0
        BY <1>3, <1>5, <2>1 DEF UsersFine
      <3>2. Told(r)
        BY <1>3, <2>1, Unmarked, Codes DEF UsersFine, Told
      <3> QED BY <1>1, <3>1, <3>2 DEF MemoryInv
    <2>2. CASE kind \in WithQuota /\ ~WellFormed(pull.answer)
      <3>1. client'.last = client.last
        BY <1>3, <1>5, <2>2 DEF UsersFine
      <3>2. ~Told(r)
        BY <1>3, <2>2, Codes DEF UsersFine, Told
      <3> QED BY <1>1, <3>1, <3>2 DEF IInv, MemoryInv
    <2>3. CASE kind \notin WithQuota
      BY <1>1, <2>3 DEF MemoryInv
    <2> QED BY <2>1, <2>2, <2>3
  <1>10. RuleInv'
    <2>1. client'.resp = client.resp
      BY <1>3, <1>5 DEF UsersFine
    <2>2. pull'.answer # None => UNCHANGED pull
      BY <1>6
    <2> QED BY <1>1, <2>1, <2>2 DEF IInv, RuleInv
  <1>11. DeathHasCause'
    <2>1. dead' => r.out = Panic /\ UNCHANGED pull /\ pull.at = "users"
      BY <1>1 DEF Learn, Come
    <2> QED BY <1>1, <1>3, <2>1 DEF DeathHasCause, UsersFine
  <1> QED
    BY <1>5, <1>7, <1>8, <1>9, <1>10, <1>11 DEF IInv

LEMMA TakeAliveKeeps == ASSUME IInv, TakeAlive PROVE IInv'
  <1> DEFINE r == AliveReply(kind, client, pull.answer)
  <1>1. /\ UNCHANGED <<kind, cfg, node, account, edits, faults, push, given, dead,
                       current, dropped, mistaken, sent, spoilt>>
        /\ Come("alive") /\ client' = r.client /\ CountLost(pull, r)
        /\ \/ \E at \in {"alive", "rules"}, failed \in BOOLEAN :
                 pull' = Ask(at, r.client, failed)
           \/ pull' = Idle
    <2>1. pull.failed \in BOOLEAN
      BY DEF IInv, TypeInv, PullType
    <2> QED BY <2>1 DEF TakeAlive, panel, bounds
  <1>2. /\ kind \in AllKinds /\ client \in Clients /\ pull.answer.status \in Statuses
    BY <1>1, Packages DEF IInv, TypeInv, StateType, PullType, Come
  <1>3. /\ r.client \in Clients /\ r.client.tags = client.tags
        /\ r.client.last = client.last /\ r.client.resp = client.resp
        /\ IF kind = "Xboard" THEN Races(client, pull.answer, r) ELSE r.client = client
    BY <1>2, AliveFine
  <1> HIDE DEF r
  <1>4. /\ PullType' /\ pull'.answer = None
        /\ kind = "Xboard" /\ r.client.useV1 => ~PullV2'
    BY <1>1, <1>3, Asked DEF Resources
  <1>5. RaceInv' /\ lost' \in Nat
    BY <1>1, <1>3, <1>4, PullRaces DEF Come
  <1>6. TypeInv'
    <2>1. StateType'
      BY <1>1, <1>3, <1>5 DEF IInv, TypeInv, StateType
    <2>2. PushType'
      BY <1>1 DEF IInv, TypeInv, PushType
    <2> QED BY <1>4, <2>1, <2>2 DEF TypeInv
  <1>7. MemoryInv' /\ RuleInv' /\ StaleOnlyIfDropped' /\ DeathHasCause'
    <2>1. ~dead'
      BY <1>1 DEF Come
    <2>2. MemoryInv' /\ StaleOnlyIfDropped'
      BY <1>1, <1>3 DEF IInv, MemoryInv, StaleOnlyIfDropped
    <2>3. RuleInv'
      BY <1>1, <1>3, <1>4 DEF IInv, RuleInv
    <2> QED BY <2>1, <2>2, <2>3 DEF DeathHasCause
  <1> QED
    BY <1>5, <1>6, <1>7 DEF IInv

LEMMA TakeRulesKeeps == ASSUME IInv, TakeRules PROVE IInv'
  <1> DEFINE r == RulesReply(kind, cfg, client, pull.answer)
  <1>1. /\ UNCHANGED <<kind, cfg, node, account, edits, faults, push, given, sent,
                       spoilt, lost>>
        /\ Come("rules") /\ Learn(r, "rules")
        /\ pull' = IF r.out = Panic THEN pull ELSE Idle
    BY DEF TakeRules, panel, bounds
  <1>2. /\ kind \in AskForRules /\ client \in Clients /\ pull.answer.status \in Statuses
    BY <1>1 DEF IInv, TypeInv, StateType, PullType, Come
  <1>3. RulesFine(kind, cfg, client, pull.answer, r)
    BY <1>2, RulesReplyFine
  <1> HIDE DEF r
  <1>4. /\ client' \in Clients
        /\ client'.last = r.client.last /\ client'.useV1 = r.client.useV1
        /\ client'.resp = r.client.resp
        /\ dropped' \subseteq Resources /\ current' \subseteq Resources
        /\ mistaken' \subseteq Resources
        /\ dead' \in BOOLEAN /\ StaleOnlyIfDropped'
    BY <1>1, <1>3, Learned DEF IInv, RulesFine, Resources
  <1>5. PullType' /\ (pull'.answer = None \/ pull' = pull)
    <2>1. CASE r.out = Panic
      BY <1>1, <2>1 DEF IInv, TypeInv, PullType
    <2>2. CASE r.out # Panic
      BY <1>1, <1>2, <2>2, Asked
    <2> QED BY <2>1, <2>2
  <1>6. TypeInv'
    <2>1. StateType'
      BY <1>1, <1>4 DEF IInv, TypeInv, StateType
    <2>2. PushType'
      BY <1>1 DEF IInv, TypeInv, PushType
    <2> QED BY <1>5, <2>1, <2>2 DEF TypeInv
  <1>7. RaceInv'
    BY <1>1, <1>2 DEF IInv, RaceInv, AskForRules
  <1>8. MemoryInv' /\ RuleInv'
    <2>1. client'.resp = client.resp /\ client'.last = client.last
      BY <1>3, <1>4 DEF RulesFine, Keeps
    <2>2. pull'.answer # None => UNCHANGED pull
      BY <1>5
    <2> QED BY <1>1, <2>1, <2>2 DEF IInv, MemoryInv, RuleInv
  <1>9. DeathHasCause'
    <2>1. dead' => pull.answer.body.rules = "invalid" /\ UNCHANGED pull
      BY <1>1, <1>3 DEF Learn, RulesFine
    <2>2. kind # "BunPanel" /\ pull.answer # None /\ pull.at = "rules"
      BY <1>1, <1>2 DEF AskForRules, Come
    <2> QED BY <1>1, <2>1, <2>2 DEF IInv, RuleInv, DeathHasCause
  <1> QED
    BY <1>4, <1>6, <1>7, <1>8, <1>9 DEF IInv

LEMMA TakeKeptRulesKeeps == ASSUME IInv, TakeKeptRules PROVE IInv'
  <1>1. /\ UNCHANGED <<kind, cfg, client, node, account, edits, faults, push, given,
                       current, dropped, mistaken, sent, spoilt, lost>>
        /\ dead' = (KeptRules(kind, client).out = Panic)
        /\ ~dead /\ pull.at = "rules" /\ kind \notin AskForRules
        /\ pull' = IF dead' THEN pull ELSE Idle
    BY DEF TakeKeptRules, panel, bounds, history
  <1>2. kind \in AllKinds \ AskForRules /\ client \in Clients
    BY <1>1, Packages DEF IInv, TypeInv, StateType
  <1>3. PullType' /\ (pull' = pull \/ (pull'.answer = None /\ ~PullV2'))
    <2>1. CASE dead'
      BY <1>1, <2>1 DEF IInv, TypeInv, PullType
    <2>2. CASE ~dead'
      <3>1. PullType' /\ pull'.answer = None
        BY <1>1, <1>2, <2>2, Asked
      <3> QED BY <1>1, <2>2, <3>1 DEF Idle, PullV2
    <2> QED BY <2>1, <2>2
  <1>4. TypeInv'
    <2>1. StateType'
      BY <1>1 DEF IInv, TypeInv, StateType
    <2>2. PushType'
      BY <1>1 DEF IInv, TypeInv, PushType
    <2> QED BY <1>3, <2>1, <2>2 DEF TypeInv
  <1>5. RaceInv' /\ MemoryInv' /\ RuleInv'
    <2>1. CASE pull' = pull
      BY <1>1, <2>1 DEF IInv, RaceInv, MemoryInv, RuleInv, PullV2, PushV2
    <2>2. CASE pull'.answer = None /\ ~PullV2'
      BY <1>1, <2>2 DEF IInv, RaceInv, MemoryInv, RuleInv, PushV2
    <2> QED BY <1>3, <2>1, <2>2
  <1>6. StaleOnlyIfDropped'
    BY <1>1 DEF IInv, StaleOnlyIfDropped
  <1>7. DeathHasCause'
    <2>1. dead' => kind # "BunPanel" /\ \/ client.resp = "invalid"
                                        \/ client.resp = None /\ kind # "Xboard"
      BY <1>1, <1>2, KeptRulesPanic
    <2>2. kind \in {"BunPanel", "V2RaySocks", "NewV2board", "GoV2Panel", "Xboard"}
      BY <1>2 DEF AllKinds, AskForRules
    <2> QED BY <1>1, <2>1, <2>2 DEF IInv, RuleInv, DeathHasCause
  <1> QED
    BY <1>4, <1>5, <1>6, <1>7 DEF IInv

-----------------------------------------------------------------------------
(* Every action keeps it: pushMonitor.                                     *)

LEMMA PushStartsKeeps ==
    ASSUME IInv, NEW due, NEW devices \in 0..MaxDevices, PushStarts(due, devices)
    PROVE  IInv'
  <1> DEFINE left == Reports(kind, client, due)
  <1>1. /\ UNCHANGED <<kind, cfg, node, account, edits, faults, pull, given, dead,
                       current, dropped, mistaken, spoilt, lost>>
        /\ Send(left, client, devices) /\ ~dead
    BY DEF PushStarts, panel, bounds
  <1>2. client \in Clients /\ left \in Seq(ReportsOf(kind))
    BY Packages, ReportsAre DEF IInv, TypeInv, StateType
  <1> HIDE DEF left
  <1>3. /\ client' \in Clients /\ client'.tags = client.tags
        /\ client'.useV1 = client.useV1 /\ client'.resp = client.resp
        /\ sent' \in 0..MaxDevices
        /\ PullType' /\ PushType' /\ MemoryInv'
        /\ kind = "Xboard" /\ client.useV1 => ~PushV2'
    BY <1>1, <1>2, Sent DEF IInv, MemoryInv
  <1>4. TypeInv'
    BY <1>1, <1>3 DEF IInv, TypeInv, StateType
  <1>5. RaceInv'
    BY <1>1, <1>3 DEF IInv, RaceInv, PullV2
  <1>6. RuleInv' /\ StaleOnlyIfDropped' /\ DeathHasCause'
    BY <1>1, <1>3 DEF IInv, RuleInv, StaleOnlyIfDropped, DeathHasCause
  <1> QED
    BY <1>3, <1>4, <1>5, <1>6 DEF IInv

\* As PullRaces.
LEMMA PushRaces ==
    ASSUME IInv, UNCHANGED <<kind, pull>>, push.left # <<>>, push.answer # None,
           NEW r, r.client \in Clients,
           kind = "Xboard" => Races(client, push.answer, r), CountLost(push, r),
           client'.useV1 = r.client.useV1,
           kind = "Xboard" /\ r.client.useV1 => ~PushV2'
    PROVE  RaceInv' /\ lost' \in Nat
  <1>1. lost' \in Nat
    BY DEF IInv, TypeInv, StateType, CountLost
  <1>2. CASE kind # "Xboard"
    BY <1>2 DEF IInv, RaceInv, CountLost
  <1>3. CASE kind = "Xboard"
    <2>1. PullV2' = PullV2
      BY DEF PullV2
    <2>2. Falls(push.answer) <=> push.answer.status = "missing" /\ push.path = "v2"
      BY DEF Falls, IInv, TypeInv, PushType
    <2>3. Falls(push.answer) => PushV2
      BY <2>2 DEF PushV2
    <2>4. client.useV1 \in BOOLEAN /\ r.client.useV1 \in BOOLEAN
      BY DEF IInv, TypeInv, StateType, Clients
    <2>5. /\ client'.useV1 = (client.useV1 \/ Falls(push.answer))
          /\ Falls(push.answer) /\ r.out = Error => client.useV1
          /\ client'.useV1 => ~PushV2'
      BY <1>3 DEF Races
    <2>6. lost' = IF Falls(push.answer) /\ r.out = Error THEN lost + 1 ELSE lost
      BY <1>3, <2>2 DEF CountLost
    <2>7. IF client.useV1 THEN \/ lost = 0 /\ ~(PullV2 /\ PushV2)
                               \/ lost = 1 /\ ~PullV2 /\ ~PushV2
                          ELSE lost = 0
      BY <1>3 DEF IInv, RaceInv
    <2>8. CASE client'.useV1
      <3>1. \/ lost' = 0 /\ ~(PullV2' /\ PushV2')
            \/ lost' = 1 /\ ~PullV2' /\ ~PushV2'
        BY <2>1, <2>3, <2>4, <2>5, <2>6, <2>7, <2>8
      <3> QED BY <1>3, <2>8, <3>1 DEF RaceInv
    <2>9. CASE ~client'.useV1
      <3>1. lost' = 0
        BY <2>4, <2>5, <2>6, <2>7, <2>9
      <3> QED BY <1>3, <2>9, <3>1 DEF RaceInv
    <2> QED BY <2>8, <2>9
  <1> QED
    BY <1>1, <1>2, <1>3

LEMMA PushGoesOnKeeps ==
    ASSUME IInv, NEW devices \in 0..MaxDevices, NEW moreHits, PushGoesOn(devices, moreHits)
    PROVE  IInv'
  <1> DEFINE at == Head(push.left)
             r  == ReportReply(kind, cfg, client, at, push.answer)
  <1>1. /\ UNCHANGED <<kind, cfg, node, account, edits, faults, pull, given, dead,
                       current, dropped, mistaken, spoilt>>
        /\ push.left # <<>> /\ push.answer # None /\ ~dead /\ CountLost(push, r)
        /\ \/ Send(push.left, r.client, devices)
           \/ Send(Tail(push.left), r.client, devices)
    BY DEF PushGoesOn, panel, bounds
  <1>2. /\ kind \in AllKinds /\ client \in Clients /\ push.answer.status \in Statuses
        /\ push.left \in Seq(ReportsOf(kind)) /\ at \in ReportsOf(kind)
        /\ Tail(push.left) \in Seq(ReportsOf(kind))
    BY <1>1, Packages DEF IInv, TypeInv, StateType, PushType
  <1>3. /\ r.client \in Clients /\ r.client.tags = client.tags
        /\ r.client.last = client.last /\ r.client.resp = client.resp
        /\ IF kind = "Xboard" THEN Races(client, push.answer, r) ELSE r.client = client
    BY <1>2, ReportReplyFine
  <1> HIDE DEF r
  <1>4. PICK left \in Seq(ReportsOf(kind)) : Send(left, r.client, devices)
    BY <1>1, <1>2
  <1>5. /\ client' \in Clients /\ client'.tags = client.tags
        /\ client'.useV1 = r.client.useV1 /\ client'.resp = client.resp
        /\ sent' \in 0..MaxDevices
        /\ PullType' /\ PushType' /\ MemoryInv'
        /\ kind = "Xboard" /\ r.client.useV1 => ~PushV2'
    BY <1>1, <1>3, <1>4, Sent DEF IInv, MemoryInv
  <1>6. RaceInv' /\ lost' \in Nat
    BY <1>1, <1>3, <1>5, PushRaces
  <1>7. TypeInv'
    BY <1>1, <1>5, <1>6 DEF IInv, TypeInv, StateType
  <1>8. RuleInv' /\ StaleOnlyIfDropped' /\ DeathHasCause'
    BY <1>1, <1>5 DEF IInv, RuleInv, StaleOnlyIfDropped, DeathHasCause
  <1> QED
    BY <1>5, <1>6, <1>7, <1>8 DEF IInv

-----------------------------------------------------------------------------
(* The theorems.                                                           *)

LEMMA Step == IInv /\ [Next]_vars => IInv'
  <1> SUFFICES ASSUME IInv, [Next]_vars PROVE IInv'
    OBVIOUS
  <1>1. CASE Environment
    BY <1>1, SetNodeKeeps, AnyAccountKeeps, AnswerPullKeeps, AnswerPushKeeps DEF Environment
  <1>2. CASE Pulling
    BY <1>2, PollStartsKeeps, TakeNodeKeeps, TakeUsersKeeps, TakeAliveKeeps,
       TakeRulesKeeps, TakeKeptRulesKeeps DEF Pulling
  <1>3. CASE Pushing
    BY <1>3, PushStartsKeeps, PushGoesOnKeeps DEF Pushing
  <1>4. CASE UNCHANGED vars
    <2>1. UNCHANGED <<kind, cfg, client, node, account, edits, faults, pull, push, given,
                      dead, current, dropped, mistaken, sent, spoilt, lost>>
      BY <1>4 DEF vars, panel, bounds, history
    <2>2. TypeInv'
      BY <2>1 DEF IInv, TypeInv, StateType, PullType, PushType
    <2>3. RaceInv' /\ MemoryInv' /\ RuleInv'
      BY <2>1 DEF IInv, RaceInv, MemoryInv, RuleInv, PullV2, PushV2
    <2>4. StaleOnlyIfDropped' /\ DeathHasCause'
      BY <2>1 DEF IInv, StaleOnlyIfDropped, DeathHasCause
    <2> QED BY <2>2, <2>3, <2>4 DEF IInv
  <1> QED
    BY <1>1, <1>2, <1>3, <1>4 DEF Next

\* What the clients and their panel keep up, whatever the panel answers and
\* however the two monitors interleave.
THEOREM Invariant == Spec => []IInv
  BY Initially, Step, PTL DEF Spec

LEMMA Typed == IInv => TypeOK
  <1> SUFFICES ASSUME IInv PROVE TypeOK
    OBVIOUS
  <1>1. \A u \in given : u.device \in Grants
    BY DEF IInv, TypeInv, StateType, Lists, Handed
  <1>2. /\ client.tags \subseteq Resources /\ client.last \in 0..MaxDevices
        /\ client.device \in 0..MaxDevices /\ client.useV1 \in BOOLEAN
    BY DEF IInv, TypeInv, StateType, Clients
  <1>3. /\ pull.at \in Resources \cup {"alive", "idle", "ended"}
        /\ pull.path \in {"v1", "v2"} /\ pull.failed \in BOOLEAN
    BY DEF IInv, TypeInv, PullType
  <1>4. /\ push.path \in {"v1", "v2"} /\ push.booked \in BOOLEAN
        /\ push.devices \in 0..MaxDevices
    BY DEF IInv, TypeInv, PushType
  <1> QED
    BY <1>1, <1>2, <1>3, <1>4 DEF IInv, TypeInv, StateType, TypeOK

\* The types: in particular a grant of devices is never negative, whatever the
\* panel counts (the Quota of sspanel and bunpanel).
THEOREM TypeCorrect == Spec => []TypeOK
  BY Invariant, Typed, PTL

\* A client answered 304 has handed over what the panel has, or has read it and
\* made an error of it, or, not with V2board's family, took an answer that holds
\* nothing for a node or an empty list: GetNodeInfo, GetUserList, GetNodeRule.
THEOREM OnlyDroppedIsStale == Spec => []StaleOnlyIfDropped
  <1>1. IInv => StaleOnlyIfDropped
    BY DEF IInv
  <1> QED
    BY <1>1, Invariant, PTL

\* Only a rule that does not compile, a string of sspanel's old format without
\* the parts its parser indexes, an answer without a list with pmpanel, a list
\* with a null in it with the packages that keep pointers, and with v2raysocks a
\* node answer lost, refused or without a node end the process.
THEOREM PanicsHaveCauses == Spec => []DeathHasCause
  <1>1. IInv => DeathHasCause
    BY DEF IInv
  <1> QED
    BY <1>1, Invariant, PTL

\* Xboard's fallback to V1 costs one call at most.
THEOREM OneCallIsLost == Spec => []OneRacerLost
  <1>1. IInv => OneRacerLost
    BY DEF IInv, RaceInv, OneRacerLost
  <1> QED
    BY <1>1, Invariant, PTL

\* A traffic report returns nil only if the panel has booked it, except where
\* the client does not read the body: ReportUserTraffic of every package.
THEOREM NilOnlyIfBooked == Spec => NilMeansBooked
  <1>1. ASSUME IInv, push.answer # None, Head(push.left) = "traffic"
        PROVE  \/ ReportReply(kind, cfg, client, "traffic", push.answer).out # "done"
               \/ push.booked \/ Unread
    <2>1. /\ kind \in AllKinds /\ client \in Clients /\ push.answer.status \in Statuses \ {"same", "nulls"}
          /\ push.left \in Seq(ReportsOf(kind)) /\ push.left # <<>>
          /\ push.answer.status = "ok" => push.booked
      BY <1>1, Packages DEF IInv, TypeInv, StateType, PushType
    <2>2. "traffic" \in ReportsOf(kind)
      BY DEF ReportsOf
    <2>3. ReportReply(kind, cfg, client, "traffic", push.answer).out = "done"
            => Accepts(kind, push.answer)
      BY <2>1, <2>2, ReportReplyFine
    <2> QED BY <2>1, <2>3, Codes DEF Accepts, Unread
  <1> QED
    BY <1>1, Invariant, PTL DEF NilMeansBooked

\* A user list leaves the monitor's hands only where it is taken.
LEMMA Taken ==
    ASSUME IInv, [Next]_vars,
           \/ pull.at = "users" /\ pull.at' # "users"
           \/ given' # given
    PROVE  TakeUsers
  <1>1. ASSUME \E n \in Nodes : SetNode(n) PROVE UNCHANGED <<pull, given>>
    BY <1>1 DEF SetNode
  <1>2. ASSUME SetAnyAccount \/ Expire PROVE UNCHANGED <<pull, given>>
    BY <1>2 DEF SetAnyAccount, Expire, SetAccount
  <1>3. ASSUME NEW status \in Statuses, AnswerPull(status)
        PROVE  UNCHANGED <<given, pull.at>>
    BY <1>3 DEF AnswerPull, IInv, TypeInv, PullType
  <1>4. ASSUME \E status \in Statuses, booked \in BOOLEAN : AnswerPush(status, booked)
        PROVE  UNCHANGED <<pull, given>>
    BY <1>4 DEF AnswerPush
  <1>5. ASSUME PollStarts \/ TakeNode \/ TakeAlive \/ TakeRules \/ TakeKeptRules
        PROVE  given' = given /\ pull.at # "users"
    BY <1>5 DEF PollStarts, TakeNode, TakeAlive, TakeRules, TakeKeptRules, Come
  <1>6. ASSUME Pushing PROVE UNCHANGED <<pull, given>>
    BY <1>6 DEF Pushing, PushStarts, PushGoesOn
  <1>7. ASSUME UNCHANGED vars PROVE UNCHANGED <<pull, given>>
    BY <1>7 DEF vars
  <1> QED
    BY <1>1, <1>2, <1>3, <1>4, <1>5, <1>6, <1>7 DEF Next, Environment, Pulling

\* What is handed over is what the package has made of the answer.
LEMMA HandedOver ==
    ASSUME IInv, TakeUsers
    PROVE  LET r == UsersReply(kind, cfg, client, pull.answer)
           IN  /\ UsersFine(kind, cfg, client, pull.answer, r)
               /\ UsersAnswered(pull.answer)
               /\ given' = IF Told(r) THEN r.out ELSE given
  <1>1. /\ kind \in AllKinds /\ cfg \in Cfgs /\ client \in Clients
        /\ UsersAnswered(pull.answer)
    BY Packages, UsersHaveAnswered DEF IInv, TypeInv, StateType, TakeUsers
  <1> QED
    BY <1>1, UsersReplyFine DEF TakeUsers

\* The quota of sspanel and bunpanel: what an account gets here and the devices
\* others hold keep within its limit, as long as the panel's count of this
\* node's devices is what the client has reported.
THEOREM QuotaNeverOvergrants == Spec => NoOvergrant
  <1>1. ASSUME IInv, [Next]_vars, Takes, kind \in WithQuota, pull.answer.body # {},
               Counted, NEW u \in given', LimitOf(Had) > 0
        PROVE  \/ u.device > 0 /\ u.device + (Had.alive - Had.booked) <= LimitOf(Had)
               \/ u.device \in 1..sent
    <2> DEFINE r == UsersReply(kind, cfg, client, pull.answer)
    <2>1. /\ UsersFine(kind, cfg, client, pull.answer, r) /\ UsersAnswered(pull.answer)
          /\ given' = IF Told(r) THEN r.out ELSE given
      BY <1>1, Taken, HandedOver DEF Takes
    <2> HIDE DEF r
    <2>2. PICK b \in UserBodies : pull.answer.body = {b}
      BY <1>1, <2>1 DEF UsersAnswered, Takes
    <2>3. Had = b
      BY <2>2 DEF Had
    <2>4. Lists(r.out) /\ Shares(cfg, b, client.last, r.out)
      BY <1>1, <2>1, <2>2 DEF UsersFine, Takes, WellFormed
    <2>5. given' = r.out
      BY <2>1, <2>4, Unmarked, Codes DEF Told
    <2>6. client.last = sent /\ sent \in 0..MaxDevices
      BY <1>1 DEF IInv, MemoryInv, TypeInv, StateType
    <2>7. /\ b.alive \in Nat /\ b.booked \in Nat /\ b.booked <= b.alive
          /\ MaxDevices \in Nat
      BY PanelConstants DEF UserBodies, Grants
    <2>8. b.booked = sent
      BY <1>1, <2>3 DEF Counted
    <2>9. DeviceLimit(cfg, b.limit) \in 0..MaxDevices
      BY <1>1, Limits0 DEF IInv, TypeInv, StateType
    <2>10. LimitOf(Had) = DeviceLimit(cfg, b.limit)
      BY <2>3 DEF LimitOf
    <2>11. \/ b.alive = 0 /\ u.device = DeviceLimit(cfg, b.limit)
           \/ u.device > 0 /\ u.device = DeviceLimit(cfg, b.limit) - b.alive + sent
           \/ u.device = sent /\ sent > 0
      BY <1>1, <2>4, <2>5, <2>6, <2>10 DEF Shares
    <2> QED
      BY <1>1, <2>3, <2>6, <2>7, <2>8, <2>9, <2>10, <2>11
  <1>2. IInv /\ [Next]_vars =>
          (Takes /\ kind \in WithQuota /\ pull.answer.body # {} /\ Counted =>
             \A u \in given' :
                LimitOf(Had) > 0 =>
                   \/ u.device > 0 /\ u.device + (Had.alive - Had.booked) <= LimitOf(Had)
                   \/ u.device \in 1..sent)
    BY <1>1
  <1> QED
    BY <1>2, Invariant, PTL DEF NoOvergrant, Spec

\* A user leaves the node only because the panel has no such account, because
\* other devices fill its limit, because the panel counts devices the client no
\* longer remembers, or by an answer without a list taken for an empty one.
THEOREM UsersLeaveForCause == Spec => LeavesForCause
  <1>1. ASSUME IInv, [Next]_vars, given # {}, given' = {}
        PROVE  \/ pull.answer.body = {}
               \/ Emptied
               \/ /\ kind \in WithQuota
                  /\ \/ Had.alive - Had.booked >= LimitOf(Had) /\ sent = 0
                     \/ Had.booked > sent
    <2> DEFINE r == UsersReply(kind, cfg, client, pull.answer)
    <2>1. /\ UsersFine(kind, cfg, client, pull.answer, r) /\ UsersAnswered(pull.answer)
          /\ given' = IF Told(r) THEN r.out ELSE given
      BY <1>1, Taken, HandedOver
    <2> HIDE DEF r
    <2>2. r.out = {}
      BY <1>1, <2>1 DEF Told
    <2>3. CASE ~(kind \in WithQuota /\ WellFormed(pull.answer))
      BY <2>1, <2>2, <2>3 DEF UsersFine, Emptied
    <2>5. CASE kind \in WithQuota /\ pull.answer.status = "empty"
      BY <2>5 DEF WithQuota, TakeEmpty, Emptied
    <2>4. ASSUME kind \in WithQuota, pull.answer.status = "ok", pull.answer.body # {}
          PROVE  \/ Had.alive - Had.booked >= LimitOf(Had) /\ sent = 0
                 \/ Had.booked > sent
      <3>1. PICK b \in UserBodies : pull.answer.body = {b}
        BY <2>1, <2>4 DEF UsersAnswered
      <3>2. Had = b
        BY <3>1 DEF Had
      <3>3. Shares(cfg, b, client.last, r.out)
        BY <2>1, <2>4, <3>1 DEF UsersFine, WellFormed
      <3>4. client.last = sent
        BY <1>1, <2>4 DEF IInv, MemoryInv
      <3>5. /\ b.alive \in Nat /\ b.booked \in Nat /\ MaxDevices \in Nat
        BY PanelConstants DEF UserBodies, Grants
      <3>6. DeviceLimit(cfg, b.limit) \in 0..MaxDevices
        BY <1>1, Limits0 DEF IInv, TypeInv, StateType
      <3>7. sent = 0 /\ b.alive >= DeviceLimit(cfg, b.limit)
        BY <2>2, <3>3, <3>4 DEF Shares
      <3> QED BY <3>2, <3>5, <3>6, <3>7 DEF LimitOf
    <2> QED BY <2>3, <2>4, <2>5 DEF WellFormed
  <1>2. IInv /\ [Next]_vars =>
          (given # {} /\ given' = {} =>
             \/ pull.answer.body = {}
             \/ Emptied
             \/ /\ kind \in WithQuota
                /\ \/ Had.alive - Had.booked >= LimitOf(Had) /\ sent = 0
                   \/ Had.booked > sent)
    BY <1>1
  <1> QED
    BY <1>2, Invariant, PTL DEF LeavesForCause, Spec
=============================================================================
