---------------------------- MODULE InboundProofs ----------------------------
(***************************************************************************)
(* From a panel's answer to a listening node, for any package, settings,   *)
(* answers and number of edits.                                            *)
(***************************************************************************)
EXTENDS Inbound, PanelsProofs

-----------------------------------------------------------------------------
(* What InboundBuilder builds.                                             *)

LocalREALITY == ~local.disableLocal /\ local.reality /\ local.realityConfigs
PanelREALITY(info) == local.disableLocal /\ info.rkey # None /\ info.reality
NoSection == \/ local.cert = None
             \/ local.disableLocal /\ ~local.realityConfigs

\* A handler h built of info.
BuiltOf(info, h) ==
    /\ h \in Handlers
    /\ h.protocol = Protocol(local, info) /\ h.protocol # Error
    /\ h.port = info.port /\ h.users = {}
    /\ h.cipher = ToLower(info.cipher)
    /\ Transport(info.transport) # Error
    /\ h.protocol = "shadowsocks" => h.cipher \in AeadCiphers \cup Ciphers2022
    /\ h.security = "tls" => ~LocalREALITY
    /\ h.security = "none" => /\ ~LocalREALITY /\ ~PanelREALITY(info)
                              /\ local.cert = "none" \/ ~info.tls

LEMMA Secured ==
    ASSUME NEW info \in NodeInfos, NEW issued \in BOOLEAN, local \in LocalSettings,
           NEW s, s = Security(local, info, issued)
    PROVE  \/ s = Error
           \/ (s = Panic /\ NoSection)
           \/ /\ s \in Securities
              /\ s.mode = "tls" => ~LocalREALITY
              /\ s.mode = "none" => /\ ~LocalREALITY /\ ~PanelREALITY(info)
                                    /\ local.cert = "none" \/ ~info.tls
  <1>1. /\ info.rkey # None => info.rkey \in Words
        /\ local.rkey \in Words /\ Empty \in Words
    BY Literals DEF NodeInfos, LocalSettings
  <1>2. /\ info.reality \in BOOLEAN /\ info.tls \in BOOLEAN
        /\ local.disableLocal \in BOOLEAN /\ local.reality \in BOOLEAN
        /\ local.realityConfigs \in BOOLEAN
    BY DEF NodeInfos, LocalSettings
  <1>3. CASE PanelREALITY(info)
    <2>1. s = IF local.realityConfigs THEN Reality(info.rkey) ELSE Panic
      BY <1>2, <1>3 DEF Security, PanelREALITY
    <2>2. CASE local.realityConfigs
      BY <1>1, <1>3, <2>1, <2>2 DEF Reality, Securities, PanelREALITY
    <2>3. CASE ~local.realityConfigs
      BY <1>3, <2>1, <2>3 DEF NoSection, PanelREALITY
    <2> QED BY <2>2, <2>3
  <1>4. CASE LocalREALITY
    <2>1. s = Reality(IF info.rkey # None THEN info.rkey ELSE local.rkey)
      BY <1>2, <1>4 DEF Security, LocalREALITY
    <2> QED BY <1>1, <2>1 DEF Reality, Securities
  <1>5. CASE ~PanelREALITY(info) /\ ~LocalREALITY
    <2>1. s = TLSOrNone(local, info, issued)
      BY <1>2, <1>5 DEF Security, LocalREALITY, PanelREALITY
    <2>2. CASE ~info.tls
      BY <1>1, <1>5, <2>1, <2>2 DEF TLSOrNone, None_, Securities
    <2>3. CASE info.tls /\ local.cert = None
      BY <2>1, <2>3 DEF TLSOrNone, NoSection
    <2>4. CASE info.tls /\ local.cert # None /\ local.cert = "none"
      BY <1>1, <1>5, <2>1, <2>4 DEF TLSOrNone, None_, Securities
    <2>5. CASE info.tls /\ local.cert # None /\ local.cert # "none"
      <3>1. s = [mode |-> "tls", rkey |-> Empty] \/ s = Error
        BY <2>1, <2>5 DEF TLSOrNone
      <3> QED BY <1>1, <1>5, <3>1 DEF Securities
    <2> QED BY <1>2, <2>2, <2>3, <2>4, <2>5
  <1> QED
    BY <1>3, <1>4, <1>5

\* InboundBuilder: an error, a panic for want of a section, or a handler.
LEMMA Building ==
    ASSUME NEW info \in NodeInfos, NEW issued \in BOOLEAN, local \in LocalSettings,
           NEW h, h = InboundBuilder(local, info, issued)
    PROVE  \/ h = Error
           \/ (h = Panic /\ NoSection)
           \/ BuiltOf(info, h)
  <1> DEFINE protocol  == Protocol(local, info)
             transport == Transport(info.transport)
             s         == Security(local, info, issued)
  <1>1. CASE Error \in {protocol, transport}
    BY <1>1 DEF InboundBuilder
  <1>2. CASE Error \notin {protocol, transport} /\ s \in {Error, Panic}
    <2>1. h = s
      BY <1>2 DEF InboundBuilder
    <2>2. s = Panic => (NoSection \/ s = Error \/ s \in Securities)
      BY Secured
    <2> QED BY <1>2, <2>1, <2>2, BuilderConstants
  <1>3. CASE /\ Error \notin {protocol, transport} /\ s \notin {Error, Panic}
             /\ ~Builds(protocol, transport, s, info)
    BY <1>3 DEF InboundBuilder
  <1>4. CASE /\ Error \notin {protocol, transport} /\ s \notin {Error, Panic}
             /\ Builds(protocol, transport, s, info)
    <2>1. h = [protocol |-> protocol, port |-> info.port,
               loopback |-> info.type = "Shadowsocks-Plugin",
               transport |-> transport, security |-> s.mode,
               cipher |-> ToLower(info.cipher), users |-> {}]
      BY <1>4 DEF InboundBuilder
    <2>2. protocol \in Protocols
      BY <1>4 DEF Protocol, Protocols
    <2>3. transport \in Transports
      BY <1>4 DEF Transport, Transports
    <2>4. /\ s \in Securities
          /\ s.mode = "tls" => ~LocalREALITY
          /\ s.mode = "none" => /\ ~LocalREALITY /\ ~PanelREALITY(info)
                                /\ local.cert = "none" \/ ~info.tls
      <3> HIDE DEF s
      <3> QED BY <1>4, Secured DEF s
    <2>5. s.mode \in {"none", "tls", "reality"}
      BY <2>4 DEF Securities
    <2>6. ToLower(info.cipher) \in Words \cup Ciphers2022
      BY DEF ToLower, Ciphers2022, NodeInfos
    <2>7. info.port \in 0..(Uint32 - 1)
      BY DEF NodeInfos
    <2>8. protocol = "shadowsocks" => ToLower(info.cipher) \in AeadCiphers \cup Ciphers2022
      BY <1>4 DEF Builds
    <2> HIDE DEF protocol, transport, s
    <2>9. h \in Handlers
      BY <2>1, <2>2, <2>3, <2>5, <2>6, <2>7 DEF Handlers
    <2>10. protocol # Error /\ transport # Error
      BY <1>4 DEF protocol, transport
    <2>11. BuiltOf(info, h)
      BY <2>1, <2>4, <2>8, <2>9, <2>10 DEF BuiltOf, protocol, transport
    <2> QED BY <2>11
  <1> QED
    BY <1>1, <1>2, <1>3, <1>4

LEMMA Unknown ==
    /\ Transport(Empty) = Error /\ Transport("reality") = Error
    /\ ToLower(Empty) \notin AeadCiphers \cup Ciphers2022
  <1>1. /\ Empty \notin {"tcp", "raw", "xhttp", "splithttp", "kcp", "mkcp", "ws",
                         "websocket", "grpc", "httpupgrade", "hysteria"}
        /\ Empty \notin {"2022-128-UPPER", "aes-128-gcm", "2022-128", "2022-256"}
    BY DEF Empty
  <1> QED
    BY <1>1 DEF Transport, ToLower, AeadCiphers, Ciphers2022

-----------------------------------------------------------------------------
(* What is served of an answer n.                                          *)

Tags == [port : 1..(Uint32 - 1), outer : BOOLEAN]
Excused(n) ==
    \/ local.cert = "none"
    \/ /\ cfg.type \in V2rayTypes /\ AsksREALITY(n)
       /\ kind \notin {"NewV2board", "Xboard"}
       /\ \/ ~ToldOfReality(n)
          \/ ~local.disableLocal /\ ~(local.reality /\ local.realityConfigs)
Matches(h, a) ==
    IF a.protocol = "2022" THEN h.protocol = "shadowsocks" /\ h.cipher \in Ciphers2022
    ELSE a.protocol = h.protocol

\* The handler at tag t.
HandlerFine(n, t, h) ==
    /\ t \in Tags
    /\ h.protocol \in Protocols
    /\ h.port \in 0..(Uint32 - 1)
    /\ h.port = 0 => t.outer
    /\ h.security \in {"none", "tls", "reality"}
    /\ h.security = "tls" => ~LocalREALITY
    /\ ~t.outer /\ h.security = "none" /\ WantsSecurity(n) => Excused(n)
    /\ \A a \in h.users : Matches(h, a)

\* What is in the clear has an excuse: the builders and the client of the
\* panel agree on what is to be encrypted.
LEMMA ClearExcused ==
    ASSUME NEW n \in NodeAnswers, NEW info \in NodeInfos, Promise(kind, cfg, n, info),
           local \in LocalSettings, NEW h, BuiltOf(info, h), h.security = "none",
           WantsSecurity(n)
    PROVE  Excused(n)
  <1>1. /\ ~LocalREALITY /\ ~PanelREALITY(info)
        /\ local.cert = "none" \/ ~info.tls
    BY DEF BuiltOf
  <1>2. Transport(info.transport) # Error /\ Protocol(local, info) # Error
    BY DEF BuiltOf
  <1>3. info.transport # Empty /\ info.transport # "reality"
    BY <1>2, Unknown
  <1>4. SUFFICES ASSUME ~info.tls PROVE Excused(n)
    BY <1>1 DEF Excused
  <1>5. info.type = cfg.type
    BY DEF Promise
  <1>6. cfg.type # "Trojan" \/ (kind = "Xboard" /\ n.sec = "none")
    BY <1>4 DEF Promise
  <1>7. cfg.type # "Hysteria"
    <2>1. info.hysteria # 2
      BY <1>4 DEF Promise
    <2> QED BY <1>2, <1>5, <2>1 DEF Protocol, V2rayTypes
  <1>8. cfg.type \in V2rayTypes /\ (AsksTLS(n) \/ AsksREALITY(n))
    BY <1>6, <1>7 DEF WantsSecurity
  <1>9. ~AsksTLS(n)
    BY <1>3, <1>4, <1>8 DEF Promise
  <1>10. /\ kind \notin {"NewV2board", "Xboard"}
         /\ Tells(kind, cfg, n) => info.reality /\ info.rkey # None
    BY <1>3, <1>4, <1>8, <1>9 DEF Promise
  <1>11. ToldOfReality(n) => ~local.disableLocal
    BY <1>1, <1>10 DEF Tells, ToldOfReality, PanelREALITY
  <1>12. local.disableLocal \/ ~(local.reality /\ local.realityConfigs)
    BY <1>1 DEF LocalREALITY
  <1> QED
    BY <1>8, <1>9, <1>10, <1>11, <1>12 DEF Excused

\* Accounts are of the inbound's protocol, and why one may not join.
JoinCause(n) ==
    /\ cfg.type = "Shadowsocks" /\ ToLower(n.cipher) \in Ciphers2022
    /\ \/ kind \in {"GoV2Panel", "BunPanel"}
       \/ kind \in CutsKeys /\ n.cipher # ToLower(n.cipher)

LEMMA Accounts ==
    ASSUME NEW n \in NodeAnswers, NEW info \in NodeInfos, Promise(kind, cfg, n, info),
           NEW h, BuiltOf(info, h), info.type # "Shadowsocks-Plugin",
           NEW u, UserPromise(kind, cfg, u), kind \in AllKinds,
           NEW a \in buildUser(kind, info, u)
    PROVE  /\ Matches(h, a)
           /\ CanJoin(h, a) \/ JoinCause(n)
  <1>1. /\ Protocol(local, info) # Error /\ h.protocol = Protocol(local, info)
        /\ h.cipher = ToLower(info.cipher) /\ info.type = cfg.type
    BY DEF BuiltOf, Promise
  <1>2. CASE info.type \in V2rayTypes
    <2>1. a = Account(IF IsVless(info) THEN "vless" ELSE "vmess", u.uuid, 0)
      BY <1>2 DEF buildUser, V2rayTypes
    <2>2. h.protocol = IF IsVless(info) THEN "vless" ELSE "vmess"
      BY <1>1, <1>2 DEF Protocol, V2rayTypes
    <2>3. u.uuid # None
      BY <1>1, <1>2 DEF UserPromise
    <2> QED BY <2>1, <2>2, <2>3 DEF Matches, CanJoin, Account
  <1>3. CASE info.type = "Trojan"
    <2>1. a = Account("trojan", u.uuid, 0)
      BY <1>3 DEF buildUser, V2rayTypes
    <2>2. h.protocol = "trojan"
      BY <1>1, <1>3 DEF Protocol, V2rayTypes
    <2> QED BY <2>1, <2>2 DEF Matches, CanJoin, Account
  <1>4. CASE info.type = "Hysteria"
    <2>1. a = Account("hysteria", u.uuid, 0)
      BY <1>4 DEF buildUser, V2rayTypes
    <2>2. h.protocol = "hysteria"
      BY <1>1, <1>4 DEF Protocol, V2rayTypes
    <2> QED BY <2>1, <2>2 DEF Matches, CanJoin, Account
  <1>5. CASE info.type = "Shadowsocks"
    <2>1. a \in buildSSUser(kind, u, info.cipher)
      BY <1>5 DEF buildUser, V2rayTypes
    <2>2. h.protocol = "shadowsocks"
      BY <1>1, <1>5 DEF Protocol, V2rayTypes
    <2>3. CASE ToLower(info.cipher) \notin Ciphers2022
      <3>1. a = Account("shadowsocks", u.passwd, 0)
        BY <2>1, <2>3 DEF buildSSUser
      <3> QED BY <2>2, <3>1 DEF Matches, CanJoin, Account
    <2>4. CASE ToLower(info.cipher) \in Ciphers2022
      <3> DEFINE size == checkShadowsocksPassword(kind, u.passwd, info.cipher)
      <3>1. a = Account("2022", u.passwd, size)
        BY <2>1, <2>4 DEF buildSSUser, Shadow2022
      <3>2. Matches(h, a)
        BY <1>1, <2>2, <2>4, <3>1 DEF Matches, Account
      <3>3. n.cipher = info.cipher
        BY <2>4, Unknown DEF Promise
      <3>4. u.passwd = IF kind \in Keyed THEN "uuid" ELSE "passwd"
        BY <1>1, <1>5 DEF UserPromise
      <3>5. CASE kind \notin CutsKeys
        <4>1. size = 0
          BY <3>5 DEF checkShadowsocksPassword
        <4>2. kind \in {"GoV2Panel", "BunPanel"} \/ u.passwd = "passwd"
          BY <3>4, <3>5 DEF Keyed, CutsKeys
        <4>3. a.protocol = "2022" /\ a.size = 0 /\ a.secret = u.passwd
          BY <3>1, <4>1 DEF Account
        <4> QED BY <1>1, <1>5, <2>4, <3>2, <3>3, <4>2, <4>3 DEF CanJoin, JoinCause
      <3>6. CASE kind \in CutsKeys
        <4>1. u.passwd = "uuid"
          BY <3>4, <3>6 DEF Keyed, CutsKeys
        <4>2. size = IF info.cipher = "2022-128" THEN 16 ELSE 32
          BY <3>6, <4>1 DEF checkShadowsocksPassword, Length
        <4>3. a.protocol = "2022" /\ a.size = size
          BY <3>1 DEF Account
        <4>4. info.cipher = ToLower(info.cipher) => a.size = KeySize(h.cipher)
          BY <1>1, <4>2, <4>3 DEF KeySize
        <4>5. a.size # 0
          BY <4>2, <4>3
        <4> QED BY <1>1, <1>5, <2>4, <3>2, <3>3, <3>6, <4>3, <4>4, <4>5 DEF CanJoin, JoinCause
      <3> QED BY <3>5, <3>6
    <2> QED BY <2>3, <2>4
  <1>6. info.type \in V2rayTypes \cup {"Trojan", "Hysteria", "Shadowsocks"}
    BY DEF buildUser
  <1> QED
    BY <1>2, <1>3, <1>4, <1>5, <1>6

-----------------------------------------------------------------------------
(* The steps of an update.  s is what has been done: the handlers, those of *)
(* an answer n at its tag, and whether to go on.                            *)

StepFine(n, tag, s) ==
    /\ s = [ib |-> s.ib, ob |-> s.ob, then |-> s.then]
    /\ s.then \in {"on", "error", "panic"}
    /\ s.then = "panic" => NoSection
    /\ \A t \in DOMAIN s.ib : /\ HandlerFine(n, t, s.ib[t])
                              /\ t.outer \/ t = tag
    /\ DOMAIN s.ob \subseteq Tags

LEMMA InboundAdded ==
    ASSUME NEW n, NEW tag, NEW s, StepFine(n, tag, s),
           NEW t \in Tags, t.outer \/ t = tag, NEW busy \in BOOLEAN,
           NEW h, \/ h = Error
                  \/ (h = Panic /\ NoSection)
                  \/ (h \notin {Error, Panic} /\ HandlerFine(n, t, h))
    PROVE  LET r == AddInbound(s, t, h, busy)
           IN  /\ StepFine(n, tag, r)
               /\ r.then = "on" => /\ s.then = "on" /\ h \notin {Error, Panic}
                                   /\ r.ib = With(s.ib, t, h)
  <1> DEFINE r == AddInbound(s, t, h, busy)
  <1> SUFFICES /\ StepFine(n, tag, r)
               /\ r.then = "on" => /\ s.then = "on" /\ h \notin {Error, Panic}
                                   /\ r.ib = With(s.ib, t, h)
    OBVIOUS
  <1>0. s = [ib |-> s.ib, ob |-> s.ob, then |-> s.then]
    BY DEF StepFine
  <1>1. CASE s.then # "on"
    BY <1>1 DEF AddInbound, Failed
  <1>2. CASE s.then = "on" /\ h = Panic
    <2>1. r = [ib |-> s.ib, ob |-> s.ob, then |-> "panic"]
      BY <1>0, <1>2 DEF AddInbound, Failed
    <2>3. NoSection
      BY <1>2, ApiConstants
    <2> QED BY <2>1, <2>3 DEF StepFine
  <1>3. CASE s.then = "on" /\ h # Panic /\ (h = Error \/ t \in DOMAIN s.ib)
    <2>1. r = [ib |-> s.ib, ob |-> s.ob, then |-> "error"]
      BY <1>0, <1>3 DEF AddInbound, Failed
    <2> QED BY <2>1 DEF StepFine
  <1>4. CASE s.then = "on" /\ h # Panic /\ h # Error /\ t \notin DOMAIN s.ib
    <2>1. r = [ib |-> With(s.ib, t, h), ob |-> s.ob, then |-> IF busy THEN "error" ELSE "on"]
      BY <1>0, <1>4 DEF AddInbound, Failed
    <2>2. HandlerFine(n, t, h)
      BY <1>4
    <2> DEFINE w == With(s.ib, t, h)
    <2>w. /\ DOMAIN w = DOMAIN s.ib \cup {t} /\ w[t] = h
          /\ \A x \in DOMAIN s.ib : x # t => w[x] = s.ib[x]
      BY DEF With
    <2>i. r.ib = w
      BY <2>1
    <2> HIDE DEF w, r
    <2>3. ASSUME NEW x \in DOMAIN r.ib
          PROVE  HandlerFine(n, x, r.ib[x]) /\ (x.outer \/ x = tag)
      <3>1. x = t \/ (x \in DOMAIN s.ib /\ x # t)
        BY <2>i, <2>3, <2>w
      <3>2. CASE x = t
        BY <2>i, <2>2, <2>w, <3>2
      <3>3. CASE x \in DOMAIN s.ib /\ x # t
        <4>1. r.ib[x] = s.ib[x]
          BY <2>i, <2>w, <3>3
        <4> QED BY <3>3, <4>1 DEF StepFine
      <3> QED BY <3>1, <3>2, <3>3
    <2>4. /\ r = [ib |-> r.ib, ob |-> r.ob, then |-> r.then]
          /\ r.then \in {"on", "error"} /\ r.ob = s.ob
      BY <2>1
    <2>5. StepFine(n, tag, r)
      BY <2>3, <2>4 DEF StepFine
    <2> QED BY <1>4, <2>5, <2>i DEF w
  <1> QED
    BY <1>1, <1>2, <1>3, <1>4

LEMMA OutboundAdded ==
    ASSUME NEW n, NEW tag, NEW s, StepFine(n, tag, s), NEW t \in Tags, NEW redirect
    PROVE  LET r == AddOutbound(s, t, redirect)
           IN  /\ StepFine(n, tag, r)
               /\ r.ib = s.ib
               /\ r.then = "on" => s.then = "on"
  <1> DEFINE r == AddOutbound(s, t, redirect)
  <1> SUFFICES StepFine(n, tag, r) /\ r.ib = s.ib /\ (r.then = "on" => s.then = "on")
    OBVIOUS
  <1>0. s = [ib |-> s.ib, ob |-> s.ob, then |-> s.then]
    BY DEF StepFine
  <1>1. CASE s.then # "on"
    BY <1>1 DEF AddOutbound, Failed
  <1>2. CASE s.then = "on" /\ t \in DOMAIN s.ob
    <2>1. r = [ib |-> s.ib, ob |-> s.ob, then |-> "error"]
      BY <1>0, <1>2 DEF AddOutbound, Failed
    <2> QED BY <2>1 DEF StepFine
  <1>3. CASE s.then = "on" /\ t \notin DOMAIN s.ob
    <2>1. r = [ib |-> s.ib, ob |-> With(s.ob, t, redirect), then |-> "on"]
      BY <1>0, <1>3 DEF AddOutbound, Failed
    <2>2. DOMAIN With(s.ob, t, redirect) \subseteq Tags
      BY DEF With, StepFine
    <2> QED BY <1>3, <2>1, <2>2 DEF StepFine
  <1> QED
    BY <1>1, <1>2, <1>3

\* A handler and its outbound: what InboundBuilder makes of info, at tag t.
LEMMA PairAdded ==
    ASSUME NEW n, NEW tag, NEW s, StepFine(n, tag, s),
           NEW t \in Tags, t.outer \/ t = tag, local \in LocalSettings,
           NEW info \in NodeInfos, info.port = 0 => t.outer,
           NEW busy \in BOOLEAN, NEW issued \in BOOLEAN,
           ~t.outer /\ WantsSecurity(n) =>
              \A h : BuiltOf(info, h) /\ h.security = "none" => Excused(n)
    PROVE  LET r == AddPair(s, t, info, busy, issued)
           IN  /\ StepFine(n, tag, r)
               /\ r.then = "on" => /\ s.then = "on"
                                   /\ t \in DOMAIN r.ib /\ BuiltOf(info, r.ib[t])
  <1> DEFINE h == InboundBuilder(local, info, issued)
             b == AddInbound(s, t, h, busy)
             r == AddOutbound(b, t, OutboundBuilder(info))
  <1> SUFFICES /\ StepFine(n, tag, r)
               /\ r.then = "on" => /\ s.then = "on"
                                   /\ t \in DOMAIN r.ib /\ BuiltOf(info, r.ib[t])
    BY DEF AddPair
  <1>1. \/ h = Error
        \/ (h = Panic /\ NoSection)
        \/ BuiltOf(info, h)
    BY Building
  <1> HIDE DEF h
  <1>2. ASSUME BuiltOf(info, h)
        PROVE  h \notin {Error, Panic} /\ HandlerFine(n, t, h)
    <2>1. h \in Handlers /\ h.port = info.port /\ h.users = {}
      BY <1>2 DEF BuiltOf
    <2>2. h.security = "tls" => ~LocalREALITY
      BY <1>2 DEF BuiltOf
    <2>3. ~t.outer /\ h.security = "none" /\ WantsSecurity(n) => Excused(n)
      BY <1>2
    <2>4. h \notin {Error, Panic}
      BY <2>1, BuilderConstants
    <2> QED BY <2>1, <2>2, <2>3, <2>4 DEF HandlerFine, Handlers
  <1>3. /\ StepFine(n, tag, b)
        /\ b.then = "on" => /\ s.then = "on" /\ h \notin {Error, Panic}
                            /\ b.ib = With(s.ib, t, h)
    BY <1>1, <1>2, InboundAdded
  <1> HIDE DEF b
  <1>4. /\ StepFine(n, tag, r)
        /\ r.ib = b.ib
        /\ r.then = "on" => b.then = "on"
    BY <1>3, OutboundAdded
  <1>5. ASSUME r.then = "on" PROVE t \in DOMAIN r.ib /\ BuiltOf(info, r.ib[t])
    <2>1. r.ib = With(s.ib, t, h) /\ BuiltOf(info, h)
      BY <1>1, <1>3, <1>4, <1>5
    <2>2. t \in DOMAIN With(s.ib, t, h) /\ With(s.ib, t, h)[t] = h
      BY DEF With
    <2> QED BY <2>1, <2>2
  <1> QED
    BY <1>3, <1>4, <1>5

LEMMA InfoTags ==
    ASSUME NEW info \in NodeInfos, info.port # 0
    PROVE  /\ Tag(info) \in Tags /\ ~Tag(info).outer
           /\ DokodemoTag(info) \in Tags /\ DokodemoTag(info).outer
           /\ Tag(info) # DokodemoTag(info)
  <1>1. info.port \in 1..(Uint32 - 1)
    BY ApiConstants DEF NodeInfos
  <1> QED
    BY <1>1 DEF Tag, DokodemoTag, Tags

\* What addNewTag leaves is fine; a Shadowsocks-Plugin node is never complete.
LEMMA TagAdded ==
    ASSUME NEW n \in NodeAnswers, NEW info \in NodeInfos, Promise(kind, cfg, n, info),
           info.port # 0, local \in LocalSettings, NEW s, StepFine(n, Tag(info), s),
           NEW busy \in BOOLEAN, NEW issued \in BOOLEAN
    PROVE  LET r == addNewTag(s, info, busy, issued)
           IN  /\ StepFine(n, Tag(info), r)
               /\ r.then = "on" => /\ s.then = "on" /\ info.type # "Shadowsocks-Plugin"
                                   /\ Tag(info) \in DOMAIN r.ib
                                   /\ BuiltOf(info, r.ib[Tag(info)])
  <1> DEFINE tag == Tag(info)
             r == addNewTag(s, info, busy, issued)
  <1> SUFFICES /\ StepFine(n, tag, r)
               /\ r.then = "on" => /\ s.then = "on" /\ info.type # "Shadowsocks-Plugin"
                                   /\ tag \in DOMAIN r.ib /\ BuiltOf(info, r.ib[tag])
    OBVIOUS
  <1>0. info.type = cfg.type
    BY DEF Promise
  <1>1. CASE info.type # "Shadowsocks-Plugin"
    <2>1. r = AddPair(s, tag, info, busy, issued)
      BY <1>1 DEF addNewTag
    <2>2. WantsSecurity(n) => \A h : BuiltOf(info, h) /\ h.security = "none" => Excused(n)
      BY ClearExcused
    <2> HIDE DEF r, tag
    <2>3. tag \in Tags /\ StepFine(n, tag, s)
      BY InfoTags DEF tag
    <2> QED BY <1>1, <2>1, <2>2, <2>3, PairAdded
  <1>2. CASE info.type = "Shadowsocks-Plugin"
    <2> DEFINE inner == InnerInfo(info)
               outer == OuterInfo(info)
               b == AddPair(s, tag, inner, busy, issued)
    <2>1. r = AddPair(b, DokodemoTag(info), outer, busy, issued)
      BY <1>2 DEF addNewTag, addInboundForSSPlugin
    <2>2. /\ inner \in NodeInfos /\ inner.port = info.port
          /\ inner.type = info.type /\ inner.cipher = info.cipher
      BY Literals DEF InnerInfo, NodeInfos
    <2>3. outer \in NodeInfos /\ outer.transport = info.transport
      <3>1. (info.port + 1) % Uint32 \in 0..(Uint32 - 1)
        BY ApiConstants DEF NodeInfos
      <3>2. "dokodemo-door" \in Words
        BY DEF Words
      <3> QED BY <3>1, <3>2 DEF OuterInfo, NodeInfos
    <2>4. ~WantsSecurity(n)
      BY <1>0, <1>2 DEF WantsSecurity, V2rayTypes
    <2>5. /\ tag \in Tags /\ ~tag.outer /\ StepFine(n, tag, s)
          /\ DokodemoTag(info) \in Tags /\ DokodemoTag(info).outer
      BY InfoTags
    <2> HIDE DEF r, tag, inner, outer
    <2>6. /\ StepFine(n, tag, b)
          /\ b.then = "on" => tag \in DOMAIN b.ib /\ BuiltOf(inner, b.ib[tag])
      BY <2>2, <2>4, <2>5, PairAdded
    <2> HIDE DEF b
    <2>7. /\ StepFine(n, tag, r)
          /\ r.then = "on" => b.then = "on" /\ BuiltOf(outer, r.ib[DokodemoTag(info)])
      BY <2>1, <2>3, <2>5, <2>6, PairAdded
    <2>8. ASSUME r.then = "on" PROVE FALSE
      <3>1. BuiltOf(inner, b.ib[tag]) /\ BuiltOf(outer, r.ib[DokodemoTag(info)])
        BY <2>6, <2>7, <2>8
      <3>2. info.transport # Empty
        BY <2>3, <3>1, Unknown DEF BuiltOf
      <3>3. Protocol(local, inner) = "shadowsocks"
        BY <1>2, <2>2 DEF Protocol, V2rayTypes
      <3>4. ToLower(info.cipher) \in AeadCiphers \cup Ciphers2022
        BY <2>2, <3>1, <3>3 DEF BuiltOf
      <3>5. info.cipher # Empty
        BY <3>4, Unknown
      <3> QED BY <1>0, <1>2, <3>2, <3>5 DEF Promise
    <2> QED BY <2>7, <2>8
  <1> QED
    BY <1>1, <1>2

\* addNewUser: only a key of the wrong size keeps an account out.
LEMMA UsersAdded ==
    ASSUME NEW n \in NodeAnswers, NEW info \in NodeInfos, Promise(kind, cfg, n, info),
           kind \in AllKinds, NEW s, StepFine(n, Tag(info), s),
           s.then = "on" => /\ info.type # "Shadowsocks-Plugin"
                            /\ Tag(info) \in DOMAIN s.ib
                            /\ BuiltOf(info, s.ib[Tag(info)]),
           NEW users, \A u \in users : UserPromise(kind, cfg, u)
    PROVE  LET r == addNewUser(s, info, users)
           IN  /\ StepFine(n, Tag(info), r)
               /\ r.then = "on" => s.then = "on"
               /\ s.then = "on" /\ r.then # "on" => JoinCause(n)
  <1> DEFINE tag == Tag(info)
             accounts == UNION {buildUser(kind, info, u) : u \in users}
             h == s.ib[tag]
             r == addNewUser(s, info, users)
  <1> SUFFICES /\ StepFine(n, tag, r)
               /\ r.then = "on" => s.then = "on"
               /\ s.then = "on" /\ r.then # "on" => JoinCause(n)
    OBVIOUS
  <1>0. s = [ib |-> s.ib, ob |-> s.ob, then |-> s.then]
    BY DEF StepFine
  <1>1. CASE s.then # "on"
    BY <1>1 DEF addNewUser, Failed
  <1>2. ASSUME s.then = "on", NEW a \in accounts
        PROVE  Matches(h, a) /\ (CanJoin(h, a) \/ JoinCause(n))
    <2>1. PICK u \in users : a \in buildUser(kind, info, u)
      BY <1>2
    <2>2. BuiltOf(info, h) /\ info.type # "Shadowsocks-Plugin"
      BY <1>2
    <2>3. UserPromise(kind, cfg, u)
      OBVIOUS
    <2> QED BY <2>1, <2>2, <2>3, Accounts
  <1>3. CASE s.then = "on" /\ \E a \in accounts : ~CanJoin(h, a)
    <2>1. r = [ib |-> s.ib, ob |-> s.ob, then |-> "error"]
      BY <1>0, <1>3 DEF addNewUser, Failed
    <2> HIDE DEF h, accounts
    <2>2. JoinCause(n)
      BY <1>2, <1>3
    <2> QED BY <1>3, <2>1, <2>2 DEF StepFine
  <1>4. CASE s.then = "on" /\ \A a \in accounts : CanJoin(h, a)
    <2> DEFINE g == [h EXCEPT !.users = accounts]
               w == With(s.ib, tag, g)
    <2>1. r = [ib |-> w, ob |-> s.ob, then |-> "on"]
      BY <1>0, <1>4 DEF addNewUser, Failed
    <2>2. h \in Handlers /\ tag \in DOMAIN s.ib
      BY <1>4 DEF BuiltOf
    <2>3. HandlerFine(n, tag, h)
      BY <2>2 DEF StepFine
    <2> HIDE DEF h, accounts
    <2>4. /\ g.protocol = h.protocol /\ g.port = h.port /\ g.security = h.security
          /\ g.cipher = h.cipher /\ g.users = accounts
      BY <2>2 DEF Handlers
    <2> HIDE DEF g
    <2>5. \A a \in accounts : Matches(g, a)
      BY <1>2, <1>4, <2>4 DEF Matches
    <2>6. HandlerFine(n, tag, g)
      BY <2>3, <2>4, <2>5 DEF HandlerFine
    <2>w. /\ DOMAIN w = DOMAIN s.ib /\ w[tag] = g
          /\ \A x \in DOMAIN s.ib : x # tag => w[x] = s.ib[x]
      BY <2>2 DEF With
    <2> HIDE DEF w, r, tag
    <2>7. ASSUME NEW x \in DOMAIN w
          PROVE  HandlerFine(n, x, w[x]) /\ (x.outer \/ x = tag)
      <3>1. CASE x = tag
        BY <2>6, <2>w, <3>1
      <3>2. CASE x # tag
        <4>1. w[x] = s.ib[x] /\ x \in DOMAIN s.ib
          BY <2>w, <3>2
        <4>2. HandlerFine(n, x, s.ib[x]) /\ (x.outer \/ x = Tag(info))
          BY <4>1 DEF StepFine
        <4> QED BY <4>1, <4>2 DEF tag
      <3> QED BY <3>1, <3>2
    <2>8. /\ r = [ib |-> r.ib, ob |-> r.ob, then |-> r.then]
          /\ r.then = "on" /\ r.ib = w /\ r.ob = s.ob
      BY <2>1
    <2>9. DOMAIN s.ob \subseteq Tags
      BY DEF StepFine
    <2>10. StepFine(n, tag, r)
      BY <2>7, <2>8, <2>9 DEF StepFine
    <2> QED BY <1>4, <2>8, <2>10
  <1>5. s.then = "on" => tag \in DOMAIN s.ib
    OBVIOUS
  <1> QED
    BY <1>1, <1>3, <1>4

\* What has failed stays as it is.
LEMMA NothingAdded ==
    ASSUME NEW s, s.then # "on", NEW info, NEW users, NEW busy, NEW issued
    PROVE  addNewTag(s, info, busy, issued) = s /\ addNewUser(s, info, users) = s
  <1>1. ASSUME NEW t, NEW i PROVE AddPair(s, t, i, busy, issued) = s
    BY DEF AddPair, AddInbound, AddOutbound, Failed
  <1>2. addNewTag(s, info, busy, issued) = s
    <2>1. CASE info.type = "Shadowsocks-Plugin"
      BY <1>1, <2>1 DEF addNewTag, addInboundForSSPlugin
    <2>2. CASE info.type # "Shadowsocks-Plugin"
      BY <1>1, <2>2 DEF addNewTag
    <2> QED BY <2>1, <2>2
  <1> QED
    BY <1>2 DEF addNewUser, Failed

LEMMA TagRemoved ==
    ASSUME NEW n, NEW tag, NEW s, StepFine(n, tag, s), NEW t
    PROVE  LET r == RemoveTag(s, t)
           IN  /\ StepFine(n, tag, r)
               /\ r.then = "on" => DOMAIN r.ib \subseteq DOMAIN s.ib \ {t}
  <1> DEFINE r == RemoveTag(s, t)
  <1> SUFFICES StepFine(n, tag, r) /\ (r.then = "on" => DOMAIN r.ib \subseteq DOMAIN s.ib \ {t})
    OBVIOUS
  <1>0. s = [ib |-> s.ib, ob |-> s.ob, then |-> s.then]
    BY DEF StepFine
  <1>1. CASE s.then # "on"
    BY <1>1 DEF RemoveTag, Failed
  <1>2. CASE s.then = "on" /\ t \notin DOMAIN s.ib
    <2>1. r = [ib |-> s.ib, ob |-> s.ob, then |-> "error"]
      BY <1>0, <1>2 DEF RemoveTag, Failed
    <2> QED BY <2>1 DEF StepFine
  <1>3. CASE s.then = "on" /\ t \in DOMAIN s.ib
    <2> DEFINE w == Without(s.ib, t)
               v == Without(s.ob, t)
    <2>1. r = [ib |-> w, ob |-> v, then |-> "on"]
      BY <1>0, <1>3 DEF RemoveTag, Failed
    <2>2. /\ DOMAIN w = DOMAIN s.ib \ {t} /\ \A x \in DOMAIN w : w[x] = s.ib[x]
          /\ DOMAIN v \subseteq DOMAIN s.ob
      BY DEF Without
    <2> HIDE DEF w, v, r
    <2>3. ASSUME NEW x \in DOMAIN w
          PROVE  HandlerFine(n, x, w[x]) /\ (x.outer \/ x = tag)
      BY <2>2 DEF StepFine
    <2>4. /\ r = [ib |-> r.ib, ob |-> r.ob, then |-> r.then]
          /\ r.then = "on" /\ r.ib = w /\ r.ob = v
      BY <2>1
    <2>5. DOMAIN v \subseteq Tags
      BY <2>2 DEF StepFine
    <2>6. StepFine(n, tag, r)
      BY <2>3, <2>4, <2>5 DEF StepFine
    <2> QED BY <2>2, <2>4, <2>6
  <1> QED
    BY <1>1, <1>2, <1>3

\* removeOldTag leaves only upper inbounds, and those are fine for any answer.
LEMMA OldTagRemoved ==
    ASSUME NEW m, NEW info, NEW s, StepFine(m, Tag(info), s)
    PROVE  LET r == removeOldTag(s, info)
           IN  /\ StepFine(m, Tag(info), r)
               /\ r.then = "on" => \A n, tag : StepFine(n, tag, r)
  <1> DEFINE tag == Tag(info)
             b == RemoveTag(s, tag)
             c == RemoveTag(b, DokodemoTag(info))
             r == removeOldTag(s, info)
  <1> SUFFICES StepFine(m, tag, r) /\ (r.then = "on" => \A n, t : StepFine(n, t, r))
    OBVIOUS
  <1>1. r = b \/ r = c
    BY DEF removeOldTag
  <1>2. StepFine(m, tag, b) /\ (b.then = "on" => tag \notin DOMAIN b.ib)
    BY TagRemoved
  <1> HIDE DEF b
  <1>3. StepFine(m, tag, c) /\ (c.then = "on" => tag \notin DOMAIN c.ib)
    <2>1. /\ StepFine(m, tag, c)
          /\ c.then = "on" => DOMAIN c.ib \subseteq DOMAIN b.ib \ {DokodemoTag(info)}
      BY <1>2, TagRemoved
    <2>2. c.then = "on" => b.then = "on"
      BY DEF RemoveTag, Failed
    <2> QED BY <1>2, <2>1, <2>2
  <1> HIDE DEF c, r
  <1>4. StepFine(m, tag, r) /\ (r.then = "on" => tag \notin DOMAIN r.ib)
    BY <1>1, <1>2, <1>3
  <1>5. ASSUME r.then = "on", NEW n, NEW t PROVE StepFine(n, t, r)
    <2>1. ASSUME NEW x \in DOMAIN r.ib PROVE HandlerFine(n, x, r.ib[x]) /\ x.outer
      <3>1. HandlerFine(m, x, r.ib[x]) /\ x.outer
        BY <1>4, <1>5 DEF StepFine
      <3> QED BY <3>1 DEF HandlerFine
    <2> QED BY <1>4, <2>1 DEF StepFine
  <1> QED
    BY <1>4, <1>5

-----------------------------------------------------------------------------
(* What the client makes of the panel's answer.                            *)

LEMMA ParsedFine ==
    ASSUME kind \in Kinds, cfg \in Cfgs, node \in Nodes, Usable
    PROVE  /\ Parsed \in NodeInfos /\ Parsed.port # 0
           /\ Promise(kind, cfg, node, Parsed)
           /\ \A u \in Users : UserPromise(kind, cfg, u)
  <1>0. /\ kind \in AllKinds /\ cfg \in Settings /\ node \in NodeAnswers
        /\ node.port = None => kind = "SSPanel" /\ node.users \in {{}, Error}
    BY InboundConstants
  <1>1. Parsed \notin {Error, Panic} /\ Users # Error /\ Parsed.port # 0
    BY DEF Usable, Unreadable, PortMissing
  <1> DEFINE n == NodeAnswer
             proto == XB!nodeTypeForRequests(cfg.type, cfg.vless)
             a == Answer(n)
  <1>2. proto \in Words
    BY <1>0 DEF XB!nodeTypeForRequests, Words, Settings
  <1>3. /\ n \in NodeAnswers /\ n.proto = proto
        /\ n.port = node.port /\ n.users = node.users /\ n.cipher = node.cipher
        /\ n.sec = node.sec /\ n.net = node.net /\ n.reality = node.reality
        /\ n.rkey = node.rkey
    <2> HIDE DEF proto
    <2> QED BY <1>0, <1>2 DEF NodeAnswers, NodeAnswer, proto
  <1>4. a.status = "ok" /\ a.body = n
    BY DEF Answer
  <1>5. Parsed = NodeReply(kind, cfg, NewClient(cfg), a).out
    BY DEF Parsed
  <1> HIDE DEF n, a
  <1>6. Parsed \in NodeInfos /\ Promise(kind, cfg, n, Parsed)
    BY <1>0, <1>1, <1>3, <1>4, <1>5, NodePromise
  <1>7. Promise(kind, cfg, node, Parsed)
    BY <1>3, <1>6 DEF Promise, Tells, AsksTLS, AsksREALITY
  <1>8. ASSUME NEW u \in Users PROVE UserPromise(kind, cfg, u)
    <2> DEFINE b == Answer({[limit |-> 0, alive |-> 0, speed |-> 0,
                             method |-> node.cipher]})
    <2>1. Users = UsersReply(kind, cfg, NewClient(cfg), b).out /\ b.status = "ok"
      BY DEF Users, Answer
    <2> HIDE DEF b
    <2> QED BY <1>0, <1>1, <2>1, UsersPromise
  <1> QED
    BY <1>1, <1>6, <1>7, <1>8

\* The client panics over a string of sspanel's old format only.
LEMMA ParsedPanics ==
    ASSUME kind \in Kinds, cfg \in Cfgs, node \in Nodes, Parsed = Panic
    PROVE  kind = "SSPanel" /\ node.raw # "whole"
  <1>0. /\ kind \in AllKinds /\ cfg \in Settings /\ node \in NodeAnswers
        /\ node.port = None => kind = "SSPanel" /\ node.users \in {{}, Error}
    BY InboundConstants
  <1> DEFINE n == NodeAnswer
             proto == XB!nodeTypeForRequests(cfg.type, cfg.vless)
             a == Answer(n)
  <1>2. proto \in Words
    BY <1>0 DEF XB!nodeTypeForRequests, Words, Settings
  <1>3. /\ n \in NodeAnswers /\ n.proto = proto
        /\ n.port = node.port /\ n.users = node.users /\ n.raw = node.raw
    <2> HIDE DEF proto
    <2> QED BY <1>0, <1>2 DEF NodeAnswers, NodeAnswer, proto
  <1>4. a.status = "ok" /\ a.body = n
    BY DEF Answer
  <1>5. NodeReply(kind, cfg, NewClient(cfg), a).out = Panic
    BY DEF Parsed
  <1> HIDE DEF n, a
  <1> QED
    BY <1>0, <1>3, <1>4, <1>5, NodePanics

\* An update on s, which is fine for the node: the handlers, then the accounts.
LEMMA Updated ==
    ASSUME kind \in Kinds, cfg \in Cfgs, local \in Locals, node \in Nodes, Usable,
           NEW s, StepFine(node, Tag(Parsed), s), NEW busy \in BOOLEAN, NEW issued \in BOOLEAN,
           NEW b, b = addNewTag(s, Parsed, busy, issued),
           NEW r, r = addNewUser(b, Parsed, Users)
    PROVE  /\ StepFine(node, Tag(Parsed), r)
           /\ r.then = "on" => cfg.type # "Shadowsocks-Plugin"
           /\ r.then # "on" /\ b.then = "on" => JoinCause(node)
  <1>0. /\ kind \in AllKinds /\ cfg \in Settings /\ node \in NodeAnswers
        /\ local \in LocalSettings
    BY InboundConstants
  <1> DEFINE info == Parsed
  <1>1. /\ info \in NodeInfos /\ info.port # 0 /\ Promise(kind, cfg, node, info)
        /\ \A u \in Users : UserPromise(kind, cfg, u)
    BY ParsedFine
  <1> HIDE DEF info
  <1>2. /\ StepFine(node, Tag(info), b)
        /\ b.then = "on" => /\ s.then = "on" /\ info.type # "Shadowsocks-Plugin"
                            /\ Tag(info) \in DOMAIN b.ib
                            /\ BuiltOf(info, b.ib[Tag(info)])
    BY <1>0, <1>1, TagAdded DEF info
  <1>3. /\ StepFine(node, Tag(info), r)
        /\ r.then = "on" => b.then = "on"
        /\ b.then = "on" /\ r.then # "on" => JoinCause(node)
    BY <1>0, <1>1, <1>2, UsersAdded DEF info
  <1>4. info.type = cfg.type
    BY <1>1 DEF Promise
  <1> QED
    BY <1>2, <1>3, <1>4 DEF info

-----------------------------------------------------------------------------
(* The inductive invariant.                                                *)

StateTypes ==
    /\ kind \in Kinds /\ cfg \in Cfgs /\ local \in Locals /\ node \in Nodes
    /\ edits \in 0..MaxEdits
    /\ phase \in {"new", "running", "unwatched", "stopped", "crashed"}
    /\ certMonitor \in BOOLEAN /\ hadTLS \in BOOLEAN
    /\ broken = None \/ broken \in Breaks

\* Every handler is fine for the answer the Controller goes by, and only an
\* upper one is at another tag than its own.
CoreFine ==
    /\ \A t \in DOMAIN inbounds : /\ HandlerFine(seen, t, inbounds[t])
                                  /\ t.outer \/ t = Tag(nodeInfo)
    /\ DOMAIN outbounds \subseteq Tags

\* What Start has settled.
Started ==
    /\ phase = "new" => DOMAIN inbounds = {} /\ DOMAIN outbounds = {}
    /\ phase = "running" /\ hadTLS /\ ~local.reality => certMonitor
    /\ phase = "running" => cfg.type # "Shadowsocks-Plugin"

BreakCause == broken # None /\ broken.users => JoinCause(broken.node)
CrashCause == phase = "crashed" => \/ broken # None /\ broken.start /\ broken.error
                                   \/ kind = "SSPanel" /\ node.raw # "whole"
                                   \/ NoSection

IInv == StateTypes /\ CoreFine /\ Started /\ BreakCause /\ CrashCause

LEMMA InitIInv == Init => IInv
  <1> SUFFICES ASSUME Init PROVE IInv
    OBVIOUS
  <1>1. DOMAIN inbounds = {} /\ DOMAIN outbounds = {}
    BY DEF Init
  <1>2. StateTypes
    <2>1. edits \in 0..MaxEdits
      BY InboundConstants DEF Init
    <2> QED BY <2>1 DEF Init, StateTypes
  <1>3. CoreFine
    BY <1>1 DEF CoreFine
  <1> QED
    BY <1>1, <1>2, <1>3 DEF IInv, Init, Started, BreakCause, CrashCause

LEMMA Kept ==
    ASSUME UNCHANGED settings
    PROVE  /\ LocalREALITY => LocalREALITY'
           /\ LocalREALITY' => LocalREALITY
           /\ NoSection => NoSection'
           /\ \A n : /\ Excused(n) => Excused(n)'
                     /\ WantsSecurity(n)' => WantsSecurity(n)
                     /\ JoinCause(n) => JoinCause(n)'
  <1>1. kind' = kind /\ cfg' = cfg /\ local' = local
    BY DEF settings
  <1> QED
    BY <1>1 DEF LocalREALITY, NoSection, Excused, WantsSecurity, ToldOfReality, JoinCause

\* The state an update leaves.
LEMMA Arrived ==
    ASSUME UNCHANGED settings, NEW s, inbounds' = s.ib, outbounds' = s.ob,
           StepFine(seen', Tag(nodeInfo'), s)
    PROVE  CoreFine'
  <1>1. ASSUME NEW t \in DOMAIN inbounds'
        PROVE  HandlerFine(seen, t, inbounds[t])' /\ (t.outer \/ t = Tag(nodeInfo'))
    <2>1. HandlerFine(seen', t, s.ib[t]) /\ (t.outer \/ t = Tag(nodeInfo'))
      BY <1>1 DEF StepFine
    <2> QED BY <2>1, Kept DEF HandlerFine
  <1>2. DOMAIN outbounds' \subseteq Tags
    BY DEF StepFine
  <1> QED
    BY <1>1, <1>2 DEF CoreFine

LEMMA StartIInv ==
    ASSUME IInv, NEW busy \in BOOLEAN, NEW issued \in BOOLEAN, Start(busy, issued)
    PROVE  IInv'
  <1> DEFINE c == Core(inbounds, outbounds)
             b == addNewTag(c, Parsed, busy, issued)
             s == addNewUser(b, Parsed, Users)
  <1>1. /\ phase = "new" /\ Usable
        /\ phase' = CASE b.then # "on"                   -> "crashed"
                      [] b.then = "on" /\ s.then # "on" -> "stopped"
                      [] OTHER                          -> "running"
        /\ broken' = IF s.then # "on"
                     THEN [users |-> b.then = "on", node |-> node, start |-> TRUE,
                           error |-> s.then = "error"]
                     ELSE None
        /\ inbounds' = s.ib /\ outbounds' = s.ob
        /\ nodeInfo' = Parsed /\ seen' = node
        /\ certMonitor' = (s.then = "on" /\ Parsed.tls /\ ~local.reality)
        /\ hadTLS' = Parsed.tls
        /\ UNCHANGED <<settings, node, edits>>
    BY DEF Start, Break, Failed, NeedsCertMonitor
  <1>2. StateTypes /\ DOMAIN inbounds = {} /\ DOMAIN outbounds = {}
    BY <1>1 DEF IInv, Started
  <1>3. StepFine(node, Tag(Parsed), c)
    BY <1>2 DEF StepFine, Core
  <1> HIDE DEF c
  <1>4. /\ StepFine(node, Tag(Parsed), s)
        /\ s.then = "on" => cfg.type # "Shadowsocks-Plugin"
        /\ s.then # "on" /\ b.then = "on" => JoinCause(node)
    BY <1>1, <1>2, <1>3, Updated DEF StateTypes
  <1>5. Parsed.tls \in BOOLEAN
    BY <1>1, <1>2, ParsedFine DEF StateTypes, NodeInfos
  <1>5a. local.reality \in BOOLEAN
    BY <1>2, InboundConstants DEF StateTypes, LocalSettings
  <1>6. s.then \in {"on", "error", "panic"} /\ (s.then = "panic" => NoSection)
    BY <1>4 DEF StepFine
  <1>6a. s.then = "on" => b.then = "on"
    BY NothingAdded
  <1> HIDE DEF b, s
  <1>7. kind' = kind /\ cfg' = cfg /\ local' = local
    BY <1>1 DEF settings
  <1>8. broken' = None \/ broken' \in Breaks
    <2>1. node \in Nodes /\ {b.then = "on", s.then = "error", TRUE} \subseteq BOOLEAN
      BY <1>2 DEF StateTypes
    <2> QED BY <1>1, <2>1 DEF Breaks
  <1>9. phase' \in {"running", "stopped", "crashed"}
    BY <1>1
  <1>10. certMonitor' \in BOOLEAN /\ hadTLS' \in BOOLEAN
    BY <1>1, <1>5, <1>5a
  <1>11. StateTypes'
    BY <1>1, <1>2, <1>7, <1>8, <1>9, <1>10 DEF StateTypes
  <1>12. CoreFine'
    BY <1>1, <1>4, Arrived
  <1>13. Started'
    <2>1. phase' = "running" => s.then = "on"
      BY <1>1
    <2> QED BY <1>1, <1>4, <1>7, <1>9, <2>1 DEF Started
  <1>14. BreakCause'
    <2>1. broken' # None /\ broken'.users =>
             s.then # "on" /\ b.then = "on" /\ broken'.node = node
      BY <1>1
    <2> QED BY <1>4, <1>7, <2>1 DEF BreakCause, JoinCause
  <1>15. CrashCause'
    <2>1. phase' = "crashed" => s.then \in {"error", "panic"}
      BY <1>1, <1>6, <1>6a
    <2>2. s.then = "error" => broken' # None /\ broken'.start /\ broken'.error
      <3> DEFINE last == [users |-> b.then = "on", node |-> node, start |-> TRUE,
                          error |-> s.then = "error"]
      <3>1. node \in Nodes /\ {b.then = "on", s.then = "error", TRUE} \subseteq BOOLEAN
        BY <1>2 DEF StateTypes
      <3>2. last \in Breaks
        BY <3>1 DEF Breaks
      <3>3. last # None
        BY <3>2, InboundConstants
      <3> QED BY <1>1, <3>3
    <2>3. s.then = "panic" => NoSection'
      BY <1>6, <1>7 DEF NoSection
    <2> QED BY <2>1, <2>2, <2>3 DEF CrashCause
  <1> QED
    BY <1>11, <1>12, <1>13, <1>14, <1>15 DEF IInv

LEMMA RetagIInv ==
    ASSUME IInv, NEW busy \in BOOLEAN, NEW issued \in BOOLEAN, Retag(busy, issued)
    PROVE  IInv'
  <1> DEFINE c == Core(inbounds, outbounds)
             removed == removeOldTag(c, nodeInfo)
             b == addNewTag(removed, Parsed, busy, issued)
             s == addNewUser(b, Parsed, Users)
  <1>1. /\ phase = "running" /\ Usable
        /\ phase' = IF s.then = "panic" THEN "crashed" ELSE phase
        /\ inbounds' = s.ib /\ outbounds' = s.ob
        /\ broken' = IF s.then # "on" THEN [users |-> b.then = "on", node |-> node,
                                             start |-> FALSE, error |-> s.then = "error"]
                     ELSE None
        /\ IF removed.then # "on" THEN UNCHANGED <<nodeInfo, seen>>
           ELSE nodeInfo' = Parsed /\ seen' = node
        /\ UNCHANGED <<settings, node, edits, certMonitor, hadTLS>>
    BY DEF Retag, Break, Failed
  <1>2. StateTypes /\ CoreFine /\ Started
    BY DEF IInv
  <1>3. StepFine(seen, Tag(nodeInfo), c)
    BY <1>2 DEF StepFine, Core, CoreFine
  <1> HIDE DEF c
  <1>4. /\ StepFine(seen, Tag(nodeInfo), removed)
        /\ removed.then = "on" => StepFine(node, Tag(Parsed), removed)
    BY <1>3, OldTagRemoved
  <1> HIDE DEF removed
  <1>5. /\ StepFine(seen', Tag(nodeInfo'), s)
        /\ s.then # "on" /\ b.then = "on" => JoinCause(node)
    <2>1. CASE removed.then = "on"
      <3>1. kind \in Kinds /\ cfg \in Cfgs /\ local \in Locals /\ node \in Nodes
        BY <1>2 DEF StateTypes
      <3>2. Usable /\ StepFine(node, Tag(Parsed), removed)
        BY <1>1, <1>4, <2>1
      <3>3. /\ StepFine(node, Tag(Parsed), s)
            /\ s.then # "on" /\ b.then = "on" => JoinCause(node)
        BY <3>1, <3>2, Updated
      <3> QED BY <1>1, <2>1, <3>3
    <2>2. CASE removed.then # "on"
      <3>1. b = removed /\ s = removed
        BY <2>2, NothingAdded
      <3> QED BY <1>1, <1>4, <2>2, <3>1
    <2> QED BY <2>1, <2>2
  <1>6. s.then \in {"on", "error", "panic"} /\ (s.then = "panic" => NoSection)
    BY <1>5 DEF StepFine
  <1> HIDE DEF b, s
  <1>7. kind' = kind /\ cfg' = cfg /\ local' = local
    BY <1>1 DEF settings
  <1>8. broken' = None \/ broken' \in Breaks
    <2>1. node \in Nodes /\ {b.then = "on", s.then = "error", FALSE} \subseteq BOOLEAN
      BY <1>2 DEF StateTypes
    <2> QED BY <1>1, <2>1 DEF Breaks
  <1>9. phase' \in {"running", "crashed"}
    BY <1>1
  <1>10. StateTypes'
    BY <1>1, <1>2, <1>7, <1>8, <1>9 DEF StateTypes
  <1>11. CoreFine'
    BY <1>1, <1>5, Arrived
  <1>12. Started'
    BY <1>1, <1>2, <1>7, <1>9 DEF Started
  <1>13. BreakCause'
    <2>1. broken' # None /\ broken'.users =>
             s.then # "on" /\ b.then = "on" /\ broken'.node = node
      BY <1>1
    <2> QED BY <1>5, <1>7, <2>1 DEF BreakCause, JoinCause
  <1>14. CrashCause'
    BY <1>1, <1>6, <1>7 DEF CrashCause, NoSection
  <1> QED
    BY <1>10, <1>11, <1>12, <1>13, <1>14 DEF IInv

\* The steps that leave the handlers alone.
LEMMA QuietIInv ==
    ASSUME IInv, UNCHANGED <<settings, books, core, broken>>, node' \in Nodes,
           edits' \in 0..MaxEdits, phase' \in {"running", "unwatched", "stopped", "crashed"},
           phase' = "running" => phase = "running",
           phase' = "crashed" => \/ NoSection
                                 \/ kind = "SSPanel" /\ node'.raw # "whole"
                                 \/ broken # None /\ broken.start /\ broken.error
    PROVE  IInv'
  <1>1. /\ UNCHANGED <<kind, cfg, local, nodeInfo, seen, certMonitor, hadTLS>>
        /\ UNCHANGED <<inbounds, outbounds, broken>>
    BY DEF settings, books, core
  <1>2. StateTypes'
    BY <1>1 DEF IInv, StateTypes
  <1>3. CoreFine'
    <2>1. StepFine(seen, Tag(nodeInfo), Core(inbounds, outbounds))
      BY DEF IInv, CoreFine, StepFine, Core
    <2> DEFINE c == Core(inbounds, outbounds)
    <2>2. inbounds' = c.ib /\ outbounds' = c.ob /\ seen' = seen /\ nodeInfo' = nodeInfo
      BY <1>1 DEF Core
    <2>3. StepFine(seen', Tag(nodeInfo'), c)
      BY <2>1, <2>2
    <2> HIDE DEF c
    <2> QED BY <2>2, <2>3, Arrived DEF settings
  <1>4. Started'
    BY <1>1 DEF IInv, Started
  <1>5. BreakCause' /\ CrashCause'
    BY <1>1 DEF IInv, BreakCause, CrashCause, JoinCause, NoSection
  <1> QED
    BY <1>2, <1>3, <1>4, <1>5 DEF IInv

LEMMA NextIInv == IInv /\ [Next]_vars => IInv'
  <1> SUFFICES ASSUME IInv, [Next]_vars PROVE IInv'
    OBVIOUS
  <1>0. /\ edits \in 0..MaxEdits /\ node \in Nodes /\ MaxEdits \in Nat
    BY InboundConstants DEF IInv, StateTypes
  <1>1. CASE StartFails
    BY <1>0, <1>1, QuietIInv DEF StartFails
  <1>1a. CASE ClientPanics
    <2>1. kind = "SSPanel" /\ node.raw # "whole"
      BY <1>1a, ParsedPanics DEF ClientPanics, IInv, StateTypes
    <2> QED BY <1>0, <1>1a, <2>1, QuietIInv DEF ClientPanics
  <1>2. CASE NoPort
    BY <1>0, <1>2, QuietIInv DEF NoPort
  <1>3. CASE CertMonitorPanics
    BY <1>0, <1>3, QuietIInv DEF CertMonitorPanics, NoSection
  <1>4. ASSUME NEW n \in Nodes, Edit(n) PROVE IInv'
    BY <1>0, <1>4, QuietIInv DEF Edit
  <1>5. ASSUME NEW busy \in BOOLEAN, NEW issued \in BOOLEAN,
               Start(busy, issued) \/ Retag(busy, issued)
        PROVE  IInv'
    BY <1>5, StartIInv, RetagIInv
  <1>6. CASE UNCHANGED vars
    <2>1. CASE phase = "new"
      <3>1. /\ UNCHANGED <<kind, cfg, local, node, edits, nodeInfo, seen, certMonitor, hadTLS>>
            /\ UNCHANGED <<inbounds, outbounds, broken, phase>>
        BY <1>6 DEF vars, settings, books, core
      <3>2. CoreFine'
        BY <2>1, <3>1 DEF IInv, Started, CoreFine
      <3> QED
        BY <3>1, <3>2 DEF IInv, StateTypes, Started, BreakCause, CrashCause, JoinCause, NoSection
    <2>2. CASE phase # "new"
      BY <1>0, <1>6, <2>2, QuietIInv DEF vars, IInv, StateTypes, CrashCause
    <2> QED BY <2>1, <2>2
  <1> QED
    BY <1>1, <1>1a, <1>2, <1>3, <1>4, <1>5, <1>6 DEF Next

LEMMA Invariance == Spec => []IInv
  BY InitIInv, NextIInv, PTL DEF Spec

-----------------------------------------------------------------------------
(* What it gives.                                                          *)

\* Types of the state: what listens has a protocol xray-core knows and a real
\* port, and only the upper one of a pair may be given port 0.
THEOREM TypeCorrect == Spec => []TypeOK
  <1>1. IInv => TypeOK
    <2> SUFFICES ASSUME IInv PROVE TypeOK
      OBVIOUS
    <2>1. {certMonitor, hadTLS} \subseteq BOOLEAN
      BY DEF IInv, StateTypes
    <2>2. ASSUME NEW t \in DOMAIN inbounds
          PROVE  /\ t \in Tags
                 /\ inbounds[t].protocol \in Protocols
                 /\ inbounds[t].port \in 0..(Uint32 - 1)
                 /\ inbounds[t].port = 0 => t.outer
                 /\ inbounds[t].security \in {"none", "tls", "reality"}
      BY <2>2 DEF IInv, CoreFine, HandlerFine
    <2>3. DOMAIN inbounds \cup DOMAIN outbounds \subseteq Tags
      BY <2>2 DEF IInv, CoreFine
    <2> QED BY <2>1, <2>2, <2>3 DEF IInv, StateTypes, TypeOK, Tags, Breaks
  <1> QED
    BY <1>1, Invariance, PTL

\* Across eight clients and the builders: a node the panel wants encrypted is
\* served in the clear only if CertMode is "none", or its REALITY was not
\* passed on or has no section to be built of.
THEOREM ClearHasCause == Spec => []ClearOnlyForCause
  <1>1. IInv => ClearOnlyForCause
    BY DEF IInv, CoreFine, HandlerFine, Excused, ClearOnlyForCause
  <1> QED
    BY <1>1, Invariance, PTL

\* The accounts of an inbound are of its protocol, whichever answer it was
\* built of and whichever update was broken off.
THEOREM AccountsMatch == Spec => []AccountsMatchInbound
  <1>1. IInv => AccountsMatchInbound
    BY DEF IInv, CoreFine, HandlerFine, Matches, AccountsMatchInbound
  <1> QED
    BY <1>1, Invariance, PTL

\* An account xray-core turns away ends an update only for Shadowsocks 2022,
\* where the package gives no key or cuts it for another method.
THEOREM AccountsCanJoin == Spec => []AccountsJoin
  <1>1. IInv => AccountsJoin
    BY DEF IInv, BreakCause, JoinCause, AccountsJoin
  <1> QED
    BY <1>1, Invariance, PTL

\* A panic comes of an error of addNewTag at Start, of a string sspanel's old
\* format cannot read, or of a missing CertConfig or REALITYConfigs.
THEOREM CrashCaused == Spec => []CrashHasCause
  <1>1. IInv => CrashHasCause
    BY DEF IInv, CrashCause, NoSection, CrashHasCause
  <1> QED
    BY <1>1, Invariance, PTL

\* A certificate in use that lego issued is renewed, unless TLS came with an
\* update, or the local REALITY switch is on without effect.
THEOREM RenewedInTime == Spec => []RenewedUnlessLate
  <1>1. IInv => RenewedUnlessLate
    <2> SUFFICES ASSUME IInv, NEW t \in DOMAIN inbounds,
                        inbounds[t].security = "tls", phase = "running",
                        ~certMonitor, hadTLS
                 PROVE  local.reality /\ (local.disableLocal \/ ~local.realityConfigs)
      BY DEF RenewedUnlessLate
    <2>1. ~LocalREALITY
      BY DEF IInv, CoreFine, HandlerFine
    <2>2. local.reality
      BY DEF IInv, Started
    <2> QED BY <2>1, <2>2 DEF LocalREALITY
  <1> QED
    BY <1>1, Invariance, PTL

\* Shadowsocks-Plugin never runs: no package gives both the cipher its lower
\* inbound needs and a transport its upper one knows, so Start fails.
THEOREM PluginNeverRuns == Spec => [](phase = "running" => cfg.type # "Shadowsocks-Plugin")
  <1>1. IInv => (phase = "running" => cfg.type # "Shadowsocks-Plugin")
    BY DEF IInv, Started
  <1> QED
    BY <1>1, Invariance, PTL
=============================================================================
