------------------------------ MODULE Builders ------------------------------
(***************************************************************************)
(* inboundbuilder.go, outboundbuilder.go and userbuilder.go: from a         *)
(* NodeInfo, the users and the local settings to what xray-core is given.  *)
(*                                                                         *)
(* Local settings: cert is None without a CertConfig, or its CertMode,     *)
(* "nofile" for a "file" without paths; realityConfigs tells whether the    *)
(* section is there, and rkey is its private key; fallback is "off" or what *)
(* FallBackConfigs holds: "none", "nodest", "ok".                          *)
(***************************************************************************)
EXTENDS Panels

LocalSettings ==
    [cert : STRING \cup {None}, disableLocal : BOOLEAN, reality : BOOLEAN,
     realityConfigs : BOOLEAN, rkey : STRING, fallback : STRING]

\* Ciphers of Shadowsocks, by name.
AeadCiphers == {"aes-128-gcm"}
ToLower(cipher) == IF cipher = "2022-128-UPPER" THEN "2022-128" ELSE cipher
KeySize(cipher) == IF cipher = "2022-128" THEN 16 ELSE 32

IsVless(info) == (info.type = "V2ray" /\ info.vless) \/ info.type = "Vless"

\* Fallbacks for Vless and Trojan.
FallbackFails(local) == local.fallback \in {"none", "nodest"}

Protocol(local, info) ==
    CASE info.type \in V2rayTypes /\ IsVless(info) ->
           IF FallbackFails(local) THEN Error ELSE "vless"
      [] info.type \in V2rayTypes /\ ~IsVless(info) -> "vmess"
      [] info.type = "Trojan" -> IF FallbackFails(local) THEN Error ELSE "trojan"
      [] info.type \in {"Shadowsocks", "Shadowsocks-Plugin"} -> "shadowsocks"
      [] info.type = "Hysteria" -> IF info.hysteria = 2 THEN "hysteria" ELSE Error
      [] info.type = "dokodemo-door" -> "dokodemo-door"
      [] OTHER -> Error

\* conf.TransportProtocol.Build: the names xray-core knows, in lower case.
Transport(name) == CASE name \in {"tcp", "raw"}         -> "tcp"
                     [] name \in {"xhttp", "splithttp"} -> "splithttp"
                     [] name \in {"kcp", "mkcp"}        -> "mkcp"
                     [] name \in {"ws", "websocket"}    -> "ws"
                     [] name \in {"grpc", "httpupgrade", "hysteria"} -> name
                     [] OTHER -> Error

None_(rkey) == [mode |-> "none", rkey |-> rkey]
Reality(rkey) == [mode |-> "reality", rkey |-> rkey]

\* getCertFile; issued tells whether lego gets a certificate.
CertOk(local, issued) ==
    CASE local.cert = "file" -> TRUE
      [] local.cert = "lego" -> issued
      [] OTHER               -> FALSE

TLSOrNone(local, info, issued) ==
    IF ~info.tls THEN None_(Empty)
    ELSE IF local.cert = None THEN Panic
    ELSE IF local.cert = "none" THEN None_(Empty)
    ELSE IF CertOk(local, issued) THEN [mode |-> "tls", rkey |-> Empty]
    ELSE Error

\* Mutant of Security: the node's REALITYConfig is taken without a look.
SecurityUnguarded(local, info, issued) ==
    CASE local.disableLocal /\ info.rkey # None /\ info.reality ->
           IF local.realityConfigs THEN Reality(info.rkey) ELSE Panic
      [] ~local.disableLocal /\ local.reality /\ local.realityConfigs ->
           IF info.rkey = None THEN Panic ELSE Reality(info.rkey)
      [] OTHER -> TLSOrNone(local, info, issued)

\* Mutant of Security: the local switch turns TLS off even if it is disabled.
SecuritySwitchedOff(local, info, issued) ==
    CASE local.disableLocal /\ info.rkey # None /\ info.reality ->
           IF local.realityConfigs THEN Reality(info.rkey) ELSE Panic
      [] ~local.disableLocal /\ local.reality /\ local.realityConfigs ->
           Reality(IF info.rkey # None THEN info.rkey ELSE local.rkey)
      [] local.reality -> None_(Empty)
      [] OTHER -> TLSOrNone(local, info, issued)

\* REALITY of the node, REALITY of the local settings, or TLS.  The node's
\* REALITYConfig, even an empty one, replaces the local key.
Security(local, info, issued) ==
    CASE local.disableLocal /\ info.rkey # None /\ info.reality ->
           IF local.realityConfigs THEN Reality(info.rkey) ELSE Panic
      [] ~local.disableLocal /\ local.reality /\ local.realityConfigs ->
           Reality(IF info.rkey # None THEN info.rkey ELSE local.rkey)
      [] OTHER -> TLSOrNone(local, info, issued)

\* InboundDetourConfig.Build and the creation of the handler: a cipher that is
\* known, a REALITY key, and a transport that REALITY supports.
Builds(protocol, transport, security, info) ==
    /\ protocol = "shadowsocks" => ToLower(info.cipher) \in AeadCiphers \cup Ciphers2022
    /\ security.mode = "reality" => /\ security.rkey # Empty
                                    /\ transport \in {"tcp", "grpc", "splithttp"}

\* What is built, and the security in it, is neither error nor panic.
Protocols == {"vmess", "vless", "trojan", "shadowsocks", "hysteria", "dokodemo-door"}
Transports == {"tcp", "splithttp", "mkcp", "ws", "grpc", "httpupgrade", "hysteria"}
Securities == [mode : {"none", "tls", "reality"}, rkey : Words]
Handlers ==
    [protocol : Protocols, port : 0..(Uint32 - 1), loopback : BOOLEAN,
     transport : Transports, security : {"none", "tls", "reality"},
     cipher : Words \cup Ciphers2022, users : {{}}]
ASSUME BuilderConstants ==
    \A m \in {Error, Panic} : m \notin Securities /\ m \notin Handlers

\* InboundBuilder.
InboundBuilder(local, info, issued) ==
    LET protocol  == Protocol(local, info)
        transport == Transport(info.transport)
        security  == Security(local, info, issued)
    IN  IF Error \in {protocol, transport} THEN Error
        ELSE IF security \in {Error, Panic} THEN security
        ELSE IF ~Builds(protocol, transport, security, info) THEN Error
        ELSE [protocol |-> protocol, port |-> info.port,
              loopback |-> info.type = "Shadowsocks-Plugin",
              transport |-> transport, security |-> security.mode,
              cipher |-> ToLower(info.cipher), users |-> {}]

\* OutboundBuilder: freedom; the outer one of a pair sends to the port below.
OutboundBuilder(info) ==
    IF info.type = "dokodemo-door" THEN (info.port + Uint32 - 1) % Uint32 ELSE None

-----------------------------------------------------------------------------
(* Accounts.                                                               *)

Account(protocol, secret, size) ==
    [protocol |-> protocol, secret |-> secret, size |-> size]

\* checkShadowsocksPassword: these panels give UUIDs, which are cut to the size
\* of the key.  The method is compared as the panel wrote it.  Size 0: as it is.
CutsKeys == {"NewV2board", "Xboard"}
Length(secret) == CASE secret = "uuid" -> 36 [] secret = "passwd" -> 8 [] OTHER -> 0
checkShadowsocksPassword(kind, password, method) ==
    LET size == IF method = "2022-128" THEN 16 ELSE 32
    IN  IF kind \notin CutsKeys THEN 0
        ELSE IF Length(password) >= size THEN size
        ELSE Error

\* A user whose key is invalid is skipped.
Shadow2022(kind, u, method) ==
    LET size == checkShadowsocksPassword(kind, u.passwd, method)
    IN  IF size = Error THEN {} ELSE {Account("2022", u.passwd, size)}

buildSSUser(kind, u, method) ==
    IF ToLower(method) \in Ciphers2022 THEN Shadow2022(kind, u, method)
    ELSE {Account("shadowsocks", u.passwd, 0)}

buildSSPluginUser(kind, u) ==
    CASE ToLower(u.method) \in Ciphers2022 -> Shadow2022(kind, u, u.method)
      [] ToLower(u.method) \in AeadCiphers -> {Account("shadowsocks", u.passwd, 0)}
      [] OTHER                             -> {}

\* Mutant of buildUser: EnableVless alone makes the accounts VLESS ones.
buildUserByFlag(kind, info, u) ==
    CASE info.type \in V2rayTypes ->
           {Account(IF info.vless THEN "vless" ELSE "vmess", u.uuid, 0)}
      [] info.type = "Trojan"             -> {Account("trojan", u.uuid, 0)}
      [] info.type = "Hysteria"           -> {Account("hysteria", u.uuid, 0)}
      [] info.type = "Shadowsocks"        -> buildSSUser(kind, u, info.cipher)
      [] info.type = "Shadowsocks-Plugin" -> buildSSPluginUser(kind, u)
      [] OTHER                            -> {}

\* The account addNewUser builds of one user; of other types no inbound is built.
buildUser(kind, info, u) ==
    CASE info.type \in V2rayTypes ->
           {Account(IF IsVless(info) THEN "vless" ELSE "vmess", u.uuid, 0)}
      [] info.type = "Trojan"             -> {Account("trojan", u.uuid, 0)}
      [] info.type = "Hysteria"           -> {Account("hysteria", u.uuid, 0)}
      [] info.type = "Shadowsocks"        -> buildSSUser(kind, u, info.cipher)
      [] info.type = "Shadowsocks-Plugin" -> buildSSPluginUser(kind, u)
      [] OTHER                            -> {}

\* ToMemoryUser and AddUser of xray-core: an id for VMess and VLESS; a key of
\* the cipher's size for Shadowsocks 2022, and a UUID is none.
CanJoin(handler, account) ==
    CASE account.protocol \in {"vmess", "vless"} -> account.secret # None
      [] account.protocol = "2022" -> IF account.size = 0 THEN account.secret = "passwd"
                                      ELSE account.size = KeySize(handler.cipher)
      [] OTHER -> TRUE
=============================================================================
