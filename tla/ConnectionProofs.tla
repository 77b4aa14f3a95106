-------------------------- MODULE ConnectionProofs --------------------------
(* The parts of a connection's way, for any users, connections, addresses    *)
(* and limits: who gets past the global device limit, who is limited for     *)
(* speed, which hits are reported, what escapes the rules, and which buckets  *)
(* connections share.                                                        *)
EXTENDS Connection, FiniteSetTheorems, TLAPS

-----------------------------------------------------------------------------
(* The global device limit.  Addresses let in are in what the next           *)
(* connection reads, or in everything that is about to be written there.     *)

GlobalNext == \/ \E c \in Conns, a \in Addrs : Admit(c, a) \/ AdmitUnchecked(a)
              \/ Refuse \/ Cache

Pushes == [to : {"nowhere", "local", "remote"}, ips : SUBSET Addrs]

GlobalTypes ==
    /\ local # None => local \subseteq Addrs
    /\ remote # None => remote \subseteq Addrs
    /\ \A ips \in filling : ips # None /\ ips \subseteq Addrs
    /\ pushing \in [Conns -> Pushes]
    /\ letIn # None => letIn \subseteq Addrs

GlobalInv ==
    /\ GlobalTypes
    /\ letIn # None =>
         /\ \A c \in Conns : pushing[c] # NoPushIP => letIn \subseteq pushing[c].ips
         /\ \/ letIn = {}
            \/ \E c \in Conns : pushing[c].to = "local"
            \/ Cached # None /\ letIn \subseteq Cached
         /\ DeviceLimit > 0 => Cardinality(letIn) <= DeviceLimit + 1

\* Every step of a connection and of the monitors is one of the cache's parts
\* or leaves them alone.
LEMMA GlobalSteps == [Next]_vars => [GlobalNext]_globalVars
  <1> SUFFICES ASSUME [Next]_vars PROVE [GlobalNext]_globalVars
    OBVIOUS
  <1> USE DEF GlobalNext
  <1>1. CASE UNCHANGED vars
    BY <1>1 DEF vars
  <1>2. ASSUME NEW c \in Conns, Step(c) PROVE [GlobalNext]_globalVars
    <2>1. CASE Gate(c)
      BY <2>1 DEF Gate
    <2>2. CASE \E late \in BOOLEAN : Dispatch(c, late) \/ DispatchLink(c, late)
      BY <2>2 DEF Dispatch, DispatchLink
    <2>3. CASE Count(c) \/ Link(c) \/ Transfer(c) \/ Close(c)
      BY <2>3 DEF Count, Link, Transfer, Close
    <2>4. CASE Judge(c) \/ Route(c) \/ Record(c)
      BY <2>4 DEF Judge, Route, Record
    <2> QED BY <1>2, <2>1, <2>2, <2>3, <2>4 DEF Step
  <1>3. CASE MapFault
    BY <1>3 DEF MapFault
  <1>4. CASE Monitors
    BY <1>4 DEF Monitors, Replace, Serve, StartRules, AskRules, Collect, others
  <1>5. CASE Caches
    BY <1>5 DEF Caches
  <1> QED BY <1>1, <1>2, <1>3, <1>4, <1>5 DEF Next

LEMMA GlobalInvHolds == GlobalInv /\ [GlobalNext]_globalVars => GlobalInv'
  <1> SUFFICES ASSUME GlobalInv, [GlobalNext]_globalVars PROVE GlobalInv'
    OBVIOUS
  <1>t. GlobalTypes
    BY DEF GlobalInv
  <1>s. ASSUME NEW ips, ips \subseteq Addrs PROVE ips # None
    BY <1>s, GlobalAssumption
  <1>c. Cached # None => Cached \subseteq Addrs
    BY <1>t DEF GlobalTypes, Cached
  <1>n. NoPushIP \in Pushes
    BY DEF NoPushIP, Pushes
  <1>f. ASSUME GlobalTypes', letIn' = None PROVE GlobalInv'
    BY <1>f DEF GlobalInv
  <1>1. ASSUME NEW c \in Conns, NEW a \in Addrs, Admit(c, a) PROVE GlobalInv'
    <2> DEFINE ips == IF Cached = None THEN {} ELSE Cached
    <2>1. ips \subseteq Addrs /\ IsFiniteSet(ips)
      BY <1>c, FS_Subset, FS_EmptySet, GlobalAssumption
    <2>p. [to |-> "local", ips |-> ips \cup {a}] \in Pushes
      BY <2>1 DEF Pushes
    <2> HIDE DEF ips
    <2>2. /\ pushing[c] = NoPushIP
          /\ Cached = None \/ DeviceLimit = 0 \/ Cardinality(ips) <= DeviceLimit
          /\ pushing' = IF a \in ips THEN pushing
                        ELSE [pushing EXCEPT ![c] = [to |-> "local", ips |-> ips \cup {a}]]
          /\ letIn' = IF Racing \/ letIn = None THEN None ELSE letIn \cup {a}
          /\ local' = local /\ remote' = remote
      BY <1>1 DEF Admit, Snapshot, LetIn, ips
    <2>3. \A x \in filling' : x # None /\ x \subseteq Addrs
      <3>1. CASE remote = None
        BY <1>1, <3>1, <1>t DEF Admit, GlobalTypes
      <3>2. CASE remote # None
        BY <1>1, <3>2, <1>t DEF Admit, FillLater, GlobalTypes
      <3> QED BY <3>1, <3>2
    <2>4. GlobalTypes'
      <3>1. pushing' \in [Conns -> Pushes]
        BY <2>2, <2>p, <1>t DEF GlobalTypes
      <3>2. letIn' # None => letIn' \subseteq Addrs
        BY <2>2, <1>t DEF GlobalTypes
      <3> QED BY <2>2, <2>3, <3>1, <3>2, <1>t DEF GlobalTypes
    <2>5. CASE Racing \/ letIn = None
      BY <2>2, <2>4, <2>5, <1>f
    <2>6. CASE ~Racing /\ letIn # None
      <3>1. letIn \subseteq ips
        BY <2>6 DEF GlobalInv, Racing, NoPushIP, ips
      <3>2. letIn' = letIn \cup {a} /\ letIn' \subseteq ips \cup {a}
        BY <2>2, <2>6, <3>1
      <3>3. \A d \in Conns : pushing'[d] # NoPushIP => letIn' \subseteq pushing'[d].ips
        BY <2>2, <2>6, <3>2, <1>t DEF GlobalTypes, Racing
      <3>4. \/ \E d \in Conns : pushing'[d].to = "local"
            \/ Cached' # None /\ letIn' \subseteq Cached'
        <4>1. CASE a \in ips
          BY <2>2, <3>2, <4>1 DEF Cached, ips
        <4>2. CASE a \notin ips
          BY <2>2, <4>2, <1>t DEF GlobalTypes
        <4> QED BY <4>1, <4>2
      <3>5. ASSUME DeviceLimit > 0 PROVE Cardinality(letIn') <= DeviceLimit + 1
        <4>1. Cardinality(ips) <= DeviceLimit /\ Cardinality(ips) \in Nat
          BY <2>1, <2>2, <3>5, FS_EmptySet, FS_CardinalityType, GlobalAssumption DEF ips
        <4>2. /\ IsFiniteSet(ips \cup {a})
              /\ Cardinality(ips \cup {a}) <= Cardinality(ips) + 1
          <5>1. /\ IsFiniteSet(ips \cup {a})
                /\ Cardinality(ips \cup {a}) = IF a \in ips THEN Cardinality(ips)
                                               ELSE Cardinality(ips) + 1
            BY <2>1, FS_AddElement
          <5> QED BY <4>1, <5>1
        <4>3. Cardinality(letIn') <= Cardinality(ips \cup {a})
          BY <3>2, <4>2, FS_Subset
        <4>4. Cardinality(letIn') \in Nat /\ Cardinality(ips \cup {a}) \in Nat
          BY <3>2, <4>2, FS_Subset, FS_CardinalityType
        <4> QED BY <4>1, <4>2, <4>3, <4>4, GlobalAssumption
      <3> QED BY <2>4, <3>3, <3>4, <3>5 DEF GlobalInv
    <2> QED BY <2>5, <2>6
  <1>2. ASSUME NEW a \in Addrs, AdmitUnchecked(a) PROVE GlobalInv'
    BY <1>2, <1>t, <1>f DEF AdmitUnchecked, GlobalTypes
  <1>3. CASE Refuse
    <2>1. \A x \in filling' : x # None /\ x \subseteq Addrs
      <3>1. CASE local = None
        BY <1>3, <3>1, <1>t DEF Refuse, FillLater, GlobalTypes, Cached
      <3>2. CASE local # None
        BY <1>3, <3>2, <1>t DEF Refuse, FillLater, GlobalTypes
      <3> QED BY <3>1, <3>2
    <2> QED BY <1>3, <2>1 DEF Refuse, GlobalInv, GlobalTypes, Cached
  <1>4. ASSUME NEW c \in Conns, PushLocal(c) PROVE GlobalInv'
    <2>1. /\ pushing[c] \in Pushes
          /\ pushing[c].to = "local"
          /\ local' = pushing[c].ips
          /\ pushing' = [pushing EXCEPT ![c] = [to |-> "remote", ips |-> pushing[c].ips]]
          /\ UNCHANGED <<remote, filling, letIn>>
      BY <1>4, <1>t DEF PushLocal, GlobalTypes
    <2>2. GlobalTypes'
      BY <2>1, <1>t DEF GlobalTypes, Pushes
    <2>3. ASSUME letIn # None
          PROVE  /\ \A d \in Conns : pushing'[d] # NoPushIP => letIn \subseteq pushing'[d].ips
                 /\ Cached' # None /\ letIn \subseteq Cached'
      <3>1. letIn \subseteq pushing[c].ips
        BY <2>1, <2>3 DEF GlobalInv, NoPushIP
      <3>2. pushing[c].ips # None
        BY <2>1, <1>s DEF Pushes
      <3>3. \A d \in Conns : pushing'[d] # NoPushIP => letIn \subseteq pushing'[d].ips
        BY <2>1, <2>3, <3>1, <1>t DEF GlobalInv, GlobalTypes
      <3> QED BY <2>1, <3>1, <3>2, <3>3 DEF Cached
    <2> QED BY <2>1, <2>2, <2>3 DEF GlobalInv
  <1>5. ASSUME NEW c \in Conns, PushRemote(c) PROVE GlobalInv'
    <2>1. /\ pushing[c] \in Pushes
          /\ pushing[c].to = "remote"
          /\ remote' = pushing[c].ips
          /\ pushing' = [pushing EXCEPT ![c] = NoPushIP]
          /\ UNCHANGED <<local, filling, letIn>>
      BY <1>5, <1>t DEF PushRemote, GlobalTypes
    <2>2. GlobalTypes'
      BY <2>1, <1>t, <1>n DEF GlobalTypes, Pushes
    <2>3. ASSUME letIn # None
          PROVE  /\ \A d \in Conns : pushing'[d] # NoPushIP => letIn \subseteq pushing'[d].ips
                 /\ \/ letIn = {}
                    \/ \E d \in Conns : pushing'[d].to = "local"
                    \/ Cached' # None /\ letIn \subseteq Cached'
      <3>1. letIn \subseteq pushing[c].ips
        BY <2>1, <2>3 DEF GlobalInv, NoPushIP
      <3>2. ASSUME NEW d \in Conns, pushing[d].to = "local"
            PROVE  pushing'[d].to = "local"
        BY <2>1, <3>2, <1>t DEF GlobalTypes
      <3>3. pushing[c].ips # None
        BY <2>1, <1>s DEF Pushes
      <3>4. \A d \in Conns : pushing'[d] # NoPushIP => letIn \subseteq pushing'[d].ips
        BY <2>1, <2>3, <3>1, <1>t DEF GlobalInv, GlobalTypes
      <3>5. \/ Cached' # None /\ letIn \subseteq Cached'
            \/ local # None /\ Cached' = Cached
        BY <2>1, <3>1, <3>3 DEF Cached
      <3> QED BY <2>3, <3>2, <3>4, <3>5 DEF GlobalInv
    <2> QED BY <2>1, <2>2, <2>3 DEF GlobalInv
  <1>6. ASSUME NEW c \in Conns, PushFails(c) PROVE GlobalInv'
    BY <1>6, <1>t, <1>n, <1>f DEF PushFails, GlobalTypes
  <1>7. CASE Fill \/ ExpireLocal \/ ExpireRemote \/ OtherNode
    <2>1. GlobalTypes'
      <3>1. CASE Fill
        BY <3>1, <1>t DEF Fill, Excuses, GlobalTypes
      <3>2. CASE ExpireLocal \/ ExpireRemote
        BY <3>2, <1>t DEF ExpireLocal, ExpireRemote, Excuses, GlobalTypes
      <3>3. CASE OtherNode
        <4>1. PICK a \in Elsewhere, ips \in SUBSET Addrs :
                 /\ ips = {} \/ (remote # None /\ ips = remote)
                 /\ remote' = ips \cup {a}
                 /\ letIn' = None \/ letIn' = letIn
                 /\ UNCHANGED <<local, filling, pushing>>
          <5>1. PICK a \in Elsewhere, ips \in {{}, IF remote = None THEN {} ELSE remote} :
                   /\ remote' = ips \cup {a}
                   /\ Excuses(Forgets(remote, ips \cup {a}))
                   /\ UNCHANGED <<local, filling, pushing>>
            BY <3>3 DEF OtherNode
          <5> QED BY <5>1, <1>t DEF Excuses, GlobalTypes
        <4>2. ips \cup {a} \subseteq Addrs
          BY <4>1, <1>t, GlobalAssumption DEF GlobalTypes
        <4> QED BY <4>1, <4>2, <1>t DEF GlobalTypes
      <3> QED BY <1>7, <3>1, <3>2, <3>3
    <2>2. CASE letIn' = None
      BY <2>1, <2>2, <1>f
    <2>3. CASE letIn' # None
      <3>1. letIn' = letIn /\ pushing' = pushing
        BY <1>7, <2>3 DEF Fill, ExpireLocal, ExpireRemote, OtherNode, Excuses
      <3>2. Cached # None => Cached' # None /\ Cached \subseteq Cached'
        <4>1. CASE Fill
          BY <4>1, <2>3, <1>t DEF Fill, Excuses, Forgets, Cached, GlobalTypes
        <4>2. CASE ExpireLocal \/ ExpireRemote
          BY <4>2, <2>3, <1>t DEF ExpireLocal, ExpireRemote, Excuses, Forgets,
                Cached, GlobalTypes
        <4>3. CASE OtherNode
          <5>1. PICK a \in Elsewhere, ips \in SUBSET Addrs :
                   /\ ips = {} \/ (remote # None /\ ips = remote)
                   /\ remote' = ips \cup {a} /\ local' = local
                   /\ remote # None => remote \subseteq ips \cup {a}
            <6>1. PICK a \in Elsewhere, ips \in {{}, IF remote = None THEN {} ELSE remote} :
                     /\ remote' = ips \cup {a} /\ local' = local
                     /\ Excuses(Forgets(remote, ips \cup {a}))
              BY <4>3 DEF OtherNode
            <6> QED BY <6>1, <2>3, <1>t DEF Excuses, Forgets, GlobalTypes
          <5>2. remote' # None
            BY <5>1, <1>t, <1>s, GlobalAssumption DEF GlobalTypes
          <5> QED BY <5>1, <5>2 DEF Cached
        <4> QED BY <1>7, <4>1, <4>2, <4>3
      <3> QED BY <2>1, <2>3, <3>1, <3>2 DEF GlobalInv
    <2> QED BY <2>2, <2>3
  <1>8. CASE UNCHANGED globalVars
    BY <1>8 DEF globalVars, GlobalInv, GlobalTypes, Cached
  <1> QED
    BY <1>1, <1>2, <1>3, <1>4, <1>5, <1>6, <1>7, <1>8 DEF GlobalNext, Cache

LEMMA GlobalInvInit == Init => GlobalInv
  <1> SUFFICES ASSUME Init PROVE GlobalInv
    OBVIOUS
  <1>1. GlobalTypes
    BY DEF Init, GlobalInit, GlobalTypes, NoPushIP, Pushes
  <1>2. Cardinality({}) = 0
    BY FS_EmptySet
  <1> QED BY <1>1, <1>2, GlobalAssumption DEF Init, GlobalInit, GlobalInv

\* GlobalBound for every limit, number of addresses and of connections: a
\* user gets in from at most one address more than the global device limit
\* allows, unless connections met in the gap between the check and the write,
\* or the cache forgot (globalLimit and pushIP of limiter.go).
THEOREM GlobalBoundHolds == Spec => []GlobalBound
  <1>1. GlobalInv => GlobalBound
    BY DEF GlobalInv, GlobalBound
  <1> QED BY <1>1, GlobalInvInit, GlobalSteps, GlobalInvHolds, PTL DEF Spec

-----------------------------------------------------------------------------
(* The auto speed limit: what the counters hold was moved in one period,     *)
(* unless it was there when an earlier pull read them.                       *)

TrafficInv ==
    /\ counter \in [Users -> 0..2] /\ moved \in [Users -> 0..1]
    /\ \A u \in Users \ (suspect \cup read) : counter[u] <= moved[u]
    /\ \A r \in over \cup limited : r[1] \in suspect

TrafficNext == \/ \E c \in Conns : Carry(c)
               \/ PullStart \/ PullRead \/ PullDecide
               \/ \E accepted \in BOOLEAN :
                     /\ counter' = [u \in Users |-> IF accepted /\ u \in pending
                                                    THEN 0 ELSE counter[u]]
                     /\ read' = IF accepted THEN read \ pending ELSE read
                     /\ UNCHANGED <<moved, suspect, limited, over>>

\* Only the dispatcher, the pull and the report touch the counters.
LEMMA TrafficSteps ==
    [Next]_vars => TrafficNext \/ UNCHANGED <<trafficVars, limited, over>>
  <1> DEFINE kept == UNCHANGED <<trafficVars, limited, over>>
  <1> SUFFICES ASSUME [Next]_vars PROVE TrafficNext \/ kept
    OBVIOUS
  <1>1. CASE UNCHANGED vars
    BY <1>1 DEF vars, speedVars, autoVars
  <1>2. ASSUME NEW c \in Conns, Step(c) PROVE TrafficNext \/ kept
    <2>1. CASE Transfer(c)
      BY <2>1 DEF Transfer, TrafficNext
    <2>2. CASE \E late \in BOOLEAN : Dispatch(c, late) \/ DispatchLink(c, late)
      BY <2>2 DEF Dispatch, DispatchLink, LoadRecord, autoVars
    <2>3. CASE Count(c)
      BY <2>3 DEF Count, CountOnline, speedVars, autoVars
    <2>4. CASE Link(c) \/ Close(c)
      BY <2>4 DEF Link, Close, TakeBucket, Release, autoVars
    <2>5. CASE Gate(c) \/ Judge(c) \/ Route(c) \/ Record(c)
      BY <2>5 DEF Gate, Judge, Route, Record, speedVars, autoVars
    <2> QED BY <1>2, <2>1, <2>2, <2>3, <2>4, <2>5 DEF Step
  <1>3. CASE MapFault \/ Caches
    BY <1>3 DEF MapFault, Caches, speedVars, autoVars
  <1>4. CASE Monitors
    <2>1. CASE Poll \/ AddInboundLimiter \/ PollEnds
      BY <2>1 DEF Poll, PollUsers, AddInboundLimiter, PollEnds, autoVars
    <2>2. CASE Update
      <3>1. PICK t \in Tasks : UpdateRecord(t) \/ UpdateBucket(t)
        BY <2>2 DEF Update
      <3>2. CASE UpdateRecord(t)
        BY <3>2 DEF UpdateRecord, autoVars
      <3>3. CASE UpdateBucket(t)
        BY <3>3 DEF UpdateBucket, autoVars
      <3> QED BY <3>1, <3>2, <3>3
    <2>3. CASE PullStart \/ PullRead \/ PullDecide
      BY <2>3 DEF TrafficNext
    <2>4. CASE PullEnds
      BY <2>4 DEF PullEnds
    <2>5. ASSUME NEW accepted \in BOOLEAN, NEW next, PushReport(accepted, next)
          PROVE  TrafficNext
      BY <2>5 DEF PushReport, TrafficNext, autoVars
    <2>6. CASE SweepDrop \/ SweepCollect \/ \E u \in Users : SweepLook(u)
      BY <2>6 DEF SweepDrop, SweepCollect, SweepLook, autoVars
    <2>7. CASE Replace \/ Serve \/ StartRules \/ AskRules \/ Collect
      BY <2>7 DEF Replace, Serve, StartRules, AskRules, Collect, DropLimiter,
            ServeUsers, StartEnds, speedVars, quiet, autoVars
    <2> QED BY <1>4, <2>1, <2>2, <2>3, <2>4, <2>5, <2>6, <2>7
            DEF Monitors, Pull, Push
  <1> QED BY <1>1, <1>2, <1>3, <1>4 DEF Next

LEMMA TrafficInvHolds == TrafficInv /\ [Next]_vars => TrafficInv'
  <1> SUFFICES ASSUME TrafficInv, [Next]_vars PROVE TrafficInv'
    OBVIOUS
  <1>1. CASE \E c \in Conns : Carry(c)
    BY <1>1, UserAssumption DEF Carry, TrafficInv, autoVars
  <1>2. CASE PullStart
    BY <1>2 DEF PullStart, TrafficInv, trafficVars
  <1>3. CASE PullRead
    <2>1. \A u \in Users : counter[u] = 2 => u \in suspect'
      BY <1>3 DEF PullRead, TrafficInv
    <2>2. \A r \in over' : r[1] \in suspect'
      BY <1>3, <2>1 DEF PullRead
    <2>3. \A u \in Users \ (suspect' \cup read') : counter'[u] = 0
      BY <1>3 DEF PullRead, TrafficInv
    <2> QED BY <1>3, <2>2, <2>3 DEF PullRead, TrafficInv
  <1>4. CASE PullDecide
    BY <1>4 DEF PullDecide, TrafficInv
  <1>5. ASSUME NEW accepted \in BOOLEAN,
               counter' = [u \in Users |-> IF accepted /\ u \in pending
                                           THEN 0 ELSE counter[u]],
               read' = IF accepted THEN read \ pending ELSE read,
               UNCHANGED <<moved, suspect, limited, over>>
        PROVE  TrafficInv'
    BY <1>5 DEF TrafficInv
  <1>6. CASE UNCHANGED <<trafficVars, limited, over>>
    BY <1>6 DEF TrafficInv, trafficVars
  <1> QED BY <1>1, <1>2, <1>3, <1>4, <1>5, <1>6, TrafficSteps DEF TrafficNext

\* InnocentNotLimited for every set of users and limits, and any failures of
\* the reports: the auto speed limit only hits users who moved more than the
\* limit in one pull period, or whose counters were not reset since an earlier
\* one (userInfoMonitor and pushMonitor of controller.go).
THEOREM InnocentNotLimitedHolds == Spec => []InnocentNotLimited
  <1>1. Init => TrafficInv
    BY DEF Init, SpeedInit, TrafficInv
  <1>2. TrafficInv => InnocentNotLimited
    BY DEF TrafficInv, InnocentNotLimited
  <1> QED BY <1>1, <1>2, TrafficInvHolds, PTL DEF Spec

-----------------------------------------------------------------------------
(* The rules and the record of their hits.                                   *)

AuditTypes ==
    /\ pc \in [Conns -> Places]
    /\ site \in [Conns -> Sites \cup {None}]
    /\ judged \in [Conns -> {"name", "address", None}]
    /\ mine \in [Conns -> Maps \cup {None}]
    /\ content = [m \in Maps |-> content[m]]
    /\ results \in Maps \cup {None} /\ taken \in Maps \cup {None}
    /\ met \in [Conns -> States]
    /\ setting \in Settings

\* A map to be written or put back is the connection's; one that is put back
\* has its hit.  The map taken and the batch are there between two steps of
\* the push only.
HitsWait ==
    /\ \A c \in Conns : pc[c] \in {"write", "store"} => mine[c] \in Maps
    /\ \A c \in Conns : pc[c] = "store" => Hit(c) \in content[mine[c]]
    /\ push.pc # "read" => taken = None
    /\ push.pc # "report" => batch = {}
    /\ HitAccounted

\* Removed rules are asked for before there are users again, and rules that a
\* connection has met stay while it is there, unless the node is replaced.
RulesMet ==
    /\ told \in BOOLEAN /\ (told => setting.ruleETag)
    /\ ruled \in States /\ (ruled = "removed" => poll = "gone")
    /\ ruled = "same" => setting.ruleETag
    /\ \A c \in live \ (old \cup passing) :
          /\ met[c] \in States \ {"removed"}
          /\ met[c] = "set" => ruled = "set"
          /\ met[c] = "same" => setting.ruleETag

\* What names a domain, or is sniffed to, is judged by it.
RulesAsked ==
    setting.rules =>
      /\ RulesMet
      /\ \A c \in Conns : pc[c] = "idle" => c \notin byName \cup heard
      /\ \A c \in byName \cap Conns : judged[c] = "name"
      /\ \A c \in heard \cap Conns :
            pc[c] = "judge" /\ setting.sniffs => judged[c] = "name"
      /\ EscapeHasCause

AuditInv == AuditTypes /\ HitsWait /\ RulesAsked

\* A connection moves on before it is linked, with nothing to be judged.
Moves ==
    \E c \in Conns, place \in Places \ {"idle", "judge", "record", "write", "store"} :
       /\ pc[c] \notin {"idle", "write", "store"}
       /\ setting.rules => place # "dispatched"
       /\ pc' = [pc EXCEPT ![c] = place]

\* What has to do with neither rules nor hits.
Quiet ==
    /\ UNCHANGED <<auditVars, setting>>
    /\ poll' = "gone" <=> poll = "gone"
    /\ push' = push \/ {push.pc, push'.pc} \cap {"read", "report"} = {}
    /\ pc' = pc \/ Moves

LEMMA QuietSteps ==
    ASSUME \/ \E c \in Conns : Count(c) \/ Gate(c) \/ Link(c) \/ Transfer(c)
           \/ MapFault \/ Caches
           \/ /\ Poll \/ AddInboundLimiter \/ PollEnds \/ Update \/ Pull \/ Push
              /\ UNCHANGED <<auditVars, others>>
    PROVE  Quiet
  <1>1. ASSUME NEW c \in Conns, Count(c) PROVE Quiet
    <2>1. Moves
      BY <1>1 DEF Count, Goto, Moves, Places
    <2> QED BY <1>1, <2>1 DEF Count, Goto, Unchanged, CountOnline, Quiet, speedVars,
               limiterVars, listVars
  <1>2. ASSUME NEW c \in Conns, Gate(c) PROVE Quiet
    <2>1. Moves
      BY <1>2 DEF Gate, Goto, AfterGate, Moves, Places
    <2> QED BY <1>2, <2>1 DEF Gate, Goto, Unchanged, Quiet, speedVars,
               limiterVars, listVars
  <1>3. ASSUME NEW c \in Conns, Link(c) PROVE Quiet
    <2>1. Moves
      BY <1>3 DEF Link, Goto, AfterLink, Moves, Places
    <2> QED BY <1>3, <2>1 DEF Link, Goto, Unchanged, TakeBucket, Quiet, listVars
  <1>4. ASSUME NEW c \in Conns, Transfer(c) PROVE Quiet
    BY <1>4 DEF Transfer, Carry, Quiet, limiterVars, listVars
  <1>5. CASE MapFault \/ Caches
    BY <1>5 DEF MapFault, Caches, Quiet, speedVars, limiterVars, listVars
  <1>6. CASE /\ Poll \/ AddInboundLimiter \/ PollEnds \/ Update \/ Pull \/ Push
             /\ UNCHANGED <<auditVars, others>>
    <2>1. UNCHANGED <<auditVars, setting, pc>>
      BY <1>6 DEF others
    <2>2. CASE Poll \/ AddInboundLimiter \/ PollEnds
      BY <2>1, <2>2 DEF Poll, PollUsers, AddInboundLimiter, PollEnds, Quiet, limiterVars
    <2>3. CASE Update
      <3>1. PICK t \in Tasks : UpdateRecord(t) \/ UpdateBucket(t)
        BY <2>3 DEF Update
      <3>2. CASE UpdateRecord(t)
        BY <2>1, <3>2 DEF UpdateRecord, Quiet, listVars
      <3>3. CASE UpdateBucket(t)
        BY <2>1, <3>3 DEF UpdateBucket, Quiet, listVars
      <3> QED BY <3>1, <3>2, <3>3
    <2>4. CASE Pull
      BY <2>1, <2>4 DEF Pull, PullStart, PullRead, PullDecide, PullEnds, Quiet,
            limiterVars, listVars
    <2>5. CASE Push
      <3>1. CASE SweepDrop
        BY <2>1, <3>1 DEF SweepDrop, Quiet, At, listVars
      <3>2. CASE SweepCollect
        BY <2>1, <3>2 DEF SweepCollect, Quiet, At, listVars
      <3>3. ASSUME NEW u \in Users, SweepLook(u) PROVE Quiet
        BY <2>1, <3>3 DEF SweepLook, Quiet, At, limiterVars, listVars
      <3>4. ASSUME NEW accepted \in BOOLEAN, NEW next, PushReport(accepted, next),
                   next.pc \in {"idle", "look", "results"}
            PROVE  Quiet
        BY <2>1, <3>4 DEF PushReport, Quiet, limiterVars, listVars
      <3>5. NoPush.pc = "idle" /\ At("look", current, Users, None).pc = "look"
              /\ At("results", None, {}, None).pc = "results"
        BY DEF NoPush, At
      <3> QED BY <2>5, <3>1, <3>2, <3>3, <3>4, <3>5 DEF Push
    <2> QED BY <1>6, <2>2, <2>3, <2>4, <2>5
  <1> QED BY <1>1, <1>2, <1>3, <1>4, <1>5, <1>6

LEMMA QuietInv == AuditInv /\ Quiet => AuditInv'
  <1> SUFFICES ASSUME AuditInv, Quiet PROVE AuditInv'
    OBVIOUS
  <1>1. /\ UNCHANGED <<site, byName, heard, judged, ruled, told, old, passing, met,
                       results, content, mine, taken, batch, owed, setting>>
        /\ poll' = "gone" <=> poll = "gone"
        /\ push' = push \/ {push.pc, push'.pc} \cap {"read", "report"} = {}
        /\ AuditTypes /\ HitsWait /\ RulesAsked
    BY DEF Quiet, auditVars, destVars, tagVars, ruleVars, hitVars, AuditInv
  <1>2. HitAccounted' /\ \A c \in Conns : Hit(c)' = Hit(c)
    BY <1>1 DEF HitsWait, HitAccounted, Hit
  <1>3. (push.pc # "read" => taken = None)' /\ (push.pc # "report" => batch = {})'
    BY <1>1 DEF HitsWait
  <1>4. CASE pc' = pc
    <2>1. AuditTypes' /\ HitsWait'
      BY <1>1, <1>2, <1>3, <1>4 DEF AuditTypes, HitsWait
    <2>2. RulesAsked'
      BY <1>1, <1>4 DEF RulesAsked, RulesMet, live, EscapeHasCause
    <2> QED BY <2>1, <2>2 DEF AuditInv
  <1>5. ASSUME NEW c \in Conns,
               NEW place \in Places \ {"idle", "judge", "record", "write", "store"},
               pc[c] \notin {"idle", "write", "store"},
               setting.rules => place # "dispatched",
               pc' = [pc EXCEPT ![c] = place]
        PROVE  AuditInv'
    <2>1. AuditTypes'
      BY <1>1, <1>5 DEF AuditTypes
    <2>2. \A d \in Conns : pc'[d] = IF d = c THEN place ELSE pc[d]
      BY <1>1, <1>5 DEF AuditTypes
    <2>3. HitsWait'
      BY <1>1, <1>2, <1>3, <1>5, <2>2 DEF HitsWait
    <2>4. RulesAsked'
      <3>1. live' = live
        BY <1>5, <2>2 DEF live
      <3> QED BY <1>1, <1>5, <2>2, <3>1 DEF RulesAsked, RulesMet, EscapeHasCause
    <2> QED BY <2>1, <2>3, <2>4 DEF AuditInv
  <1> QED BY <1>4, <1>5 DEF Quiet, Moves

\* A connection asks for a destination, and one that is over forgets it.
LEMMA AskInv ==
    ASSUME AuditInv, NEW c \in Conns,
           NEW place \in Places \ {"idle", "judge", "record", "write", "store"},
           UNCHANGED <<listVars, push, setting>>,
           pc[c] = "idle",
           pc' = [pc EXCEPT ![c] = place],
           \/ setting.rules /\ place # "dispatched" /\
              \E s \in Sites, name, known, late \in BOOLEAN :
                 /\ ~(name /\ known)
                 /\ Ask(c, s, name, known, late, poll = "gone")
           \/ ~setting.rules /\ UNCHANGED auditVars
    PROVE  AuditInv'
  <1>t. AuditTypes /\ HitsWait /\ RulesAsked
    BY DEF AuditInv
  <1>p. \A d \in Conns : pc'[d] = IF d = c THEN place ELSE pc[d]
    BY <1>t DEF AuditTypes
  <1>1. CASE ~setting.rules /\ UNCHANGED auditVars
    <2>1. AuditTypes'
      BY <1>1, <1>t DEF AuditTypes, auditVars, destVars, tagVars, hitVars
    <2>2. HitsWait'
      BY <1>1, <1>t, <1>p DEF HitsWait, HitAccounted, Hit, auditVars, destVars, hitVars
    <2> QED BY <1>1, <2>1, <2>2 DEF RulesAsked, AuditInv
  <1>2. ASSUME setting.rules, place # "dispatched",
               NEW s \in Sites, NEW name \in BOOLEAN, NEW known \in BOOLEAN,
               NEW late \in BOOLEAN,
               ~(name /\ known), Ask(c, s, name, known, late, poll = "gone")
        PROVE  AuditInv'
    <2>1. /\ site' = [site EXCEPT ![c] = s]
          /\ judged' = [judged EXCEPT ![c] = IF name THEN "name" ELSE "address"]
          /\ byName' = IF name THEN byName \cup {c} ELSE byName
          /\ heard' = IF known THEN heard \cup {c} ELSE heard
          /\ old' = IF late THEN old \cup {c} ELSE old
          /\ passing' = IF poll = "gone" THEN passing \cup {c} ELSE passing
          /\ met' = [met EXCEPT ![c] = ruled]
          /\ UNCHANGED <<ruled, told, results, content, mine, taken, batch, owed>>
      BY <1>2 DEF Ask, ruleVars, hitVars
    <2>r. RulesMet
      BY <1>2, <1>t DEF RulesAsked
    <2>2. AuditTypes'
      BY <2>1, <2>r, <1>t DEF AuditTypes, RulesMet
    <2>3. HitsWait'
      <3>1. \A d \in Conns \ {c} : Hit(d)' = Hit(d)
        BY <2>1, <1>t DEF Hit, AuditTypes
      <3> QED BY <2>1, <3>1, <1>t, <1>p DEF HitsWait, HitAccounted
    <2>4. \A d \in Conns \ {c} : site'[d] = site[d] /\ judged'[d] = judged[d]
      BY <2>1, <1>t DEF AuditTypes
    <2>5. judged'[c] = IF name THEN "name" ELSE "address"
      BY <2>1, <1>t DEF AuditTypes
    <2>6. c \notin byName \cup heard
      BY <1>t, <1>2 DEF RulesAsked
    <2>7. RulesAsked'
      <3>1. poll' = poll
        BY DEF listVars
      <3>2. live' = live \cup {c}
        BY <1>p DEF live
      <3>7. \A d \in Conns : met'[d] = IF d = c THEN ruled ELSE met[d]
        BY <2>1, <1>t DEF AuditTypes
      <3>3. RulesMet'
        <4>1. ASSUME NEW d \in live' \ (old' \cup passing')
              PROVE  /\ met'[d] \in States \ {"removed"}
                     /\ met'[d] = "set" => ruled' = "set"
                     /\ met'[d] = "same" => setting'.ruleETag
          <5>1. CASE d = c
            BY <5>1, <4>1, <2>1, <2>r, <3>7 DEF RulesMet
          <5>2. CASE d # c
            <6>1. d \in live \ (old \cup passing)
              BY <5>2, <4>1, <2>1, <3>2
            <6>2. d \in Conns
              BY <6>1 DEF live
            <6> QED BY <5>2, <6>1, <6>2, <2>1, <2>r, <3>7 DEF RulesMet
          <5> QED BY <5>1, <5>2
        <4>2. UNCHANGED <<told, ruled, poll, setting>>
          BY <2>1, <3>1
        <4> QED BY <4>1, <4>2, <2>r DEF RulesMet
      <3>4. EscapeHasCause'
        BY <2>1, <2>4, <3>7, <1>p, <1>t, <1>2 DEF RulesAsked, EscapeHasCause
      <3>5. \A d \in Conns : pc'[d] = "idle" => d \notin byName' \cup heard'
        BY <2>1, <1>p, <1>t, <1>2 DEF RulesAsked
      <3>6. \A d \in byName' \cap Conns : judged'[d] = "name"
        BY <2>1, <2>4, <2>5, <2>6, <1>t, <1>2 DEF RulesAsked
      <3>8. \A d \in heard' \cap Conns :
               pc'[d] = "judge" /\ setting.sniffs => judged'[d] = "name"
        BY <2>1, <2>4, <1>p, <1>t, <1>2 DEF RulesAsked
      <3> QED BY <3>3, <3>4, <3>5, <3>6, <3>8 DEF RulesAsked
    <2> QED BY <2>2, <2>3, <2>7 DEF AuditInv
  <1> QED BY <1>1, <1>2

LEMMA CloseInv == ASSUME AuditInv, NEW c \in Conns, Close(c) PROVE AuditInv'
  <1>t. AuditTypes /\ HitsWait /\ RulesAsked
    BY DEF AuditInv
  <1>1. /\ pc[c] \in {"dispatched", "refused"} /\ pc' = [pc EXCEPT ![c] = "idle"]
        /\ site' = [site EXCEPT ![c] = None] /\ judged' = [judged EXCEPT ![c] = None]
        /\ byName' = byName \ {c} /\ heard' = heard \ {c}
        /\ old' = old \ {c} /\ passing' = passing \ {c}
        /\ met' = [met EXCEPT ![c] = "set"]
        /\ UNCHANGED <<ruled, told, results, content, mine, taken, batch, owed, setting,
                       poll, push>>
    BY DEF Close, Forget, Release, Goto, Unchanged, ruleVars, hitVars, listVars
  <1>p. \A d \in Conns : pc'[d] = IF d = c THEN "idle" ELSE pc[d]
    BY <1>1, <1>t DEF AuditTypes
  <1>o. \A d \in Conns \ {c} : /\ site'[d] = site[d] /\ judged'[d] = judged[d]
                               /\ met'[d] = met[d]
    BY <1>1, <1>t DEF AuditTypes
  <1>2. AuditTypes'
    BY <1>1, <1>t DEF AuditTypes, Places, States
  <1>3. HitsWait'
    BY <1>1, <1>p, <1>o, <1>t DEF HitsWait, HitAccounted, Hit
  <1>4. RulesAsked'
    <2>1. live' = live \ {c} /\ live \subseteq Conns
      BY <1>p DEF live
    <2>2. setting.rules => RulesMet'
      BY <1>1, <1>o, <1>t, <2>1 DEF RulesAsked, RulesMet
    <2> QED BY <1>1, <1>p, <1>o, <1>t, <2>2 DEF RulesAsked, EscapeHasCause
  <1> QED BY <1>2, <1>3, <1>4 DEF AuditInv

\* Where the destination has been judged, the rules have been asked.
LEMMA JudgedInv ==
    ASSUME AuditInv, NEW c \in Conns, Judge(c) \/ Route(c) PROVE AuditInv'
  <1>t. AuditTypes /\ HitsWait /\ RulesAsked
    BY DEF AuditInv
  <1>1. CASE Judge(c)
    <2>1. /\ pc[c] = "linked" /\ pc' = [pc EXCEPT ![c] = "judge"]
          /\ judged' = IF setting.sniffs /\ c \in heard
                       THEN [judged EXCEPT ![c] = "name"] ELSE judged
          /\ UNCHANGED <<site, byName, heard, old, passing, ruled, told, met, results,
                         content, mine, taken, batch, owed, setting, poll, push>>
      BY <1>1 DEF Judge, Sniff, Goto, Unchanged, hitVars, tagVars, ruleVars, speedVars,
            listVars
    <2>p. \A d \in Conns : pc'[d] = IF d = c THEN "judge" ELSE pc[d]
      BY <2>1, <1>t DEF AuditTypes
    <2>2. AuditTypes'
      BY <2>1, <1>t DEF AuditTypes, Places
    <2>3. HitsWait'
      BY <2>1, <2>p, <1>t DEF HitsWait, HitAccounted, Hit
    <2>4. \A d \in Conns : judged'[d] = IF d = c /\ setting.sniffs /\ c \in heard
                                        THEN "name" ELSE judged[d]
      BY <2>1, <1>t DEF AuditTypes
    <2>5. RulesAsked'
      <3>1. live' = live
        BY <2>1, <2>p DEF live
      <3>2. RulesMet' = RulesMet
        BY <2>1, <3>1 DEF RulesMet
      <3> QED BY <2>1, <2>p, <2>4, <3>2, <1>t DEF RulesAsked, EscapeHasCause
    <2> QED BY <2>2, <2>3, <2>5 DEF AuditInv
  <1>2. CASE Route(c)
    <2> DEFINE place == IF MatchesRule(c) THEN "record" ELSE "dispatched"
    <2>1. /\ pc[c] = "judge" /\ pc' = [pc EXCEPT ![c] = place]
          /\ UNCHANGED <<site, byName, heard, judged, old, passing, ruled, told, met,
                         results, content, mine, taken, batch, owed, setting, poll, push>>
      BY <1>2 DEF Route, Goto, Unchanged, auditVars, destVars, tagVars, ruleVars, hitVars,
            speedVars, listVars
    <2>p. \A d \in Conns : pc'[d] = IF d = c THEN place ELSE pc[d]
      BY <2>1, <1>t DEF AuditTypes
    <2>2. AuditTypes'
      BY <2>1, <1>t DEF AuditTypes, Places
    <2>3. HitsWait'
      BY <2>1, <2>p, <1>t DEF HitsWait, HitAccounted, Hit
    <2>4. RulesAsked'
      <3>1. live' = live
        BY <2>1, <2>p DEF live
      <3>2. ASSUME setting.rules, pc'[c] = "dispatched", site[c] \in Forbidden
            PROVE  \/ c \notin byName /\ (~setting.sniffs \/ c \notin heard)
                   \/ c \in old \cup passing
                   \/ met[c] \in {"unasked", "missed"}
                   \/ met[c] = "same" /\ setting.ruleETag
        <4>1. ~MatchesRule(c)
          BY <2>p, <3>2
        <4>2. CASE ruled = "set" /\ c \notin old
          BY <4>1, <4>2, <3>2, <2>1, <1>t DEF MatchesRule, HasRules, RulesAsked
        <4>3. CASE ruled # "set" /\ c \notin old \cup passing
          <5>1. c \in live
            BY <2>1 DEF live
          <5>2. RulesMet
            BY <2>1, <3>2, <1>t DEF RulesAsked
          <5> QED BY <4>3, <5>1, <5>2 DEF RulesMet, States
        <4> QED BY <4>2, <4>3
      <3>3. EscapeHasCause'
        BY <2>1, <2>p, <3>2, <1>t DEF EscapeHasCause, RulesAsked
      <3>4. RulesMet' = RulesMet
        BY <2>1, <3>1 DEF RulesMet
      <3> QED BY <2>1, <2>p, <3>3, <3>4, <1>t DEF RulesAsked
    <2> QED BY <2>2, <2>3, <2>4 DEF AuditInv
  <1> QED BY <1>1, <1>2

\* The steps of Detect leave everything but the maps alone.
LEMMA RecordInv ==
    ASSUME AuditInv, NEW c \in Conns, Record(c), HitsWait',
           mine' \in [Conns -> Maps \cup {None}],
           content' = [m \in Maps |-> content'[m]],
           results' \in Maps \cup {None}, taken' \in Maps \cup {None}
    PROVE  AuditInv'
  <1>t. AuditTypes /\ RulesAsked
    BY DEF AuditInv
  <1>1. /\ UNCHANGED <<site, byName, heard, judged, old, passing, ruled, told, met,
                       setting, poll, push>>
        /\ pc[c] \in {"record", "write", "store"}
        /\ \E place \in {"refused", "write", "store"} : pc' = [pc EXCEPT ![c] = place]
    BY DEF Record, RecordFirst, LoadMap, AlreadyThere, WriteMap, StoreMap, LeakHit,
          Goto, Unchanged, destVars, tagVars, ruleVars, speedVars, listVars
  <1>2. PICK place \in {"refused", "write", "store"} : pc' = [pc EXCEPT ![c] = place]
    BY <1>1
  <1>p. \A d \in Conns : pc'[d] = IF d = c THEN place ELSE pc[d]
    BY <1>2, <1>t DEF AuditTypes
  <1>3. AuditTypes'
    BY <1>1, <1>2, <1>t DEF AuditTypes, Places
  <1>4. RulesAsked'
    <2>1. live' = live
      BY <1>1, <1>p DEF live
    <2>2. RulesMet' = RulesMet
      BY <1>1, <2>1 DEF RulesMet
    <2> QED BY <1>1, <1>p, <2>2, <1>t DEF RulesAsked, EscapeHasCause
  <1> QED BY <1>3, <1>4 DEF AuditInv

LEMMA RecordHits ==
    ASSUME AuditInv, NEW c \in Conns, Record(c)
    PROVE  /\ HitsWait'
           /\ mine' \in [Conns -> Maps \cup {None}]
           /\ content' = [m \in Maps |-> content'[m]]
           /\ results' \in Maps \cup {None} /\ taken' \in Maps \cup {None}
  <1> DEFINE Goal == /\ HitsWait'
                     /\ mine' \in [Conns -> Maps \cup {None}]
                     /\ content' = [m \in Maps |-> content'[m]]
                     /\ results' \in Maps \cup {None} /\ taken' \in Maps \cup {None}
  <1> SUFFICES Goal
    OBVIOUS
  <1>t. AuditTypes /\ HitsWait
    BY DEF AuditInv
  <1>n. None \notin Maps
    BY AuditAssumption
  <1>h. UNCHANGED <<site, push, taken, batch>> /\ \A d \in Conns : Hit(d)' = Hit(d)
    BY DEF Record, RecordFirst, LoadMap, AlreadyThere, WriteMap, StoreMap, LeakHit,
          destVars, speedVars, Hit
  <1>p. ASSUME NEW place \in Places, Goto(c, place)
        PROVE  \A d \in Conns : pc'[d] = IF d = c THEN place ELSE pc[d]
    BY <1>p, <1>t DEF Goto, AuditTypes
  <1>k. ASSUME NEW refs, NEW m \in refs \cap Maps PROVE Keep(content, refs)[m] = content[m]
    BY DEF Keep
  <1>1. CASE RecordFirst(c) /\ Goto(c, "refused")
    <2>1. PICK m \in Maps \ MapsInUse :
             /\ results' = m
             /\ content' = [content EXCEPT ![m] = {Hit(c)}]
      BY <1>1 DEF RecordFirst
    <2>2. \A n \in Maps : content'[n] = IF n = m THEN {Hit(c)} ELSE content[n]
      BY <2>1, <1>t DEF AuditTypes
    <2>3. /\ results = None /\ mine' = mine /\ owed' = owed \cup {Hit(c)}
          /\ taken # m /\ \A d \in Conns : mine[d] # m
      BY <1>1, <2>1 DEF RecordFirst, MapsInUse
    <2>4. HitAccounted'
      BY <2>1, <2>2, <2>3, <1>t, <1>n, <1>h DEF HitAccounted, HitsWait, AuditTypes
    <2>5. \A d \in Conns : pc'[d] = IF d = c THEN "refused" ELSE pc[d]
      BY <1>1, <1>p DEF Places
    <2>6. HitsWait'
      BY <2>2, <2>3, <2>4, <2>5, <1>t, <1>h DEF HitsWait, AuditTypes
    <2> QED BY <2>1, <2>3, <2>6, <1>t, <1>h DEF AuditTypes
  <1>2. CASE LoadMap(c) /\ Goto(c, "write")
    <2>1. \A d \in Conns : pc'[d] = IF d = c THEN "write" ELSE pc[d]
      BY <1>2, <1>p DEF Places
    <2>2. results # None /\ mine' = [mine EXCEPT ![c] = results]
             /\ UNCHANGED <<results, content, owed>>
      BY <1>2 DEF LoadMap
    <2>3. HitAccounted'
      BY <2>2, <1>t, <1>h DEF HitAccounted, HitsWait
    <2> QED BY <2>1, <2>2, <2>3, <1>t, <1>h DEF HitsWait, AuditTypes
  <1>3. CASE pc[c] = "write" /\ WriteMap(c) /\ Goto(c, "store")
    <2>1. \A d \in Conns : pc'[d] = IF d = c THEN "store" ELSE pc[d]
      BY <1>3, <1>p DEF Places
    <2>2. mine[c] \in Maps
      BY <1>3, <1>t DEF HitsWait
    <2>3. /\ content' = [content EXCEPT ![mine[c]] = content[mine[c]] \cup {Hit(c)}]
          /\ UNCHANGED <<results, mine, owed>>
      BY <1>3 DEF WriteMap
    <2>4. \A n \in Maps : /\ content[n] \subseteq content'[n]
                          /\ n = mine[c] => Hit(c) \in content'[n]
      BY <2>2, <2>3, <1>t DEF AuditTypes
    <2>5. HitAccounted'
      BY <2>3, <2>4, <1>t, <1>h DEF HitAccounted, HitsWait, AuditTypes
    <2>6. HitsWait'
      BY <2>1, <2>2, <2>3, <2>4, <2>5, <1>t, <1>h DEF HitsWait
    <2> QED BY <2>3, <2>6, <1>t, <1>h DEF AuditTypes
  <1>4. ASSUME NEW m \in Maps \cup {None},
               NEW refs, {m, taken} \cup {mine[d] : d \in Conns \ {c}} \subseteq refs,
               results' = m, mine' = [mine EXCEPT ![c] = None],
               content' = Keep(content, refs),
               owed' \subseteq batch \cup UNION {content[n] : n \in {m, taken} \ {None}},
               Goto(c, "refused")
        PROVE  Goal
    <2>1. \A d \in Conns : pc'[d] = IF d = c THEN "refused" ELSE pc[d]
      BY <1>4, <1>p DEF Places
    <2>2. /\ m # None => content'[m] = content[m]
          /\ taken # None => content'[taken] = content[taken]
          /\ \A d \in Conns \ {c} : mine[d] \in Maps => content'[mine[d]] = content[mine[d]]
      BY <1>4, <1>k, <1>t DEF AuditTypes
    <2>3. HitAccounted'
      BY <2>2, <1>4, <1>h DEF HitAccounted
    <2>4. \A d \in Conns : mine'[d] = IF d = c THEN None ELSE mine[d]
      BY <1>4, <1>t DEF AuditTypes
    <2>5. HitsWait'
      BY <2>1, <2>2, <2>3, <2>4, <1>t, <1>h DEF HitsWait
    <2>6. mine' \in [Conns -> Maps \cup {None}]
      BY <1>4, <1>t DEF AuditTypes
    <2> QED BY <2>5, <2>6, <1>4, <1>t, <1>h DEF AuditTypes, Keep
  <1>5. CASE pc[c] = "write" /\ AlreadyThere(c) /\ Goto(c, "refused")
    <2> DEFINE refs == {results, taken} \cup {mine[d] : d \in Conns \ {c}}
    <2>1. /\ mine[c] \in Maps /\ Hit(c) \in content[mine[c]]
          /\ mine' = [mine EXCEPT ![c] = None]
          /\ content' = Keep(content, refs)
          /\ owed' = IF mine[c] = results THEN owed \cup {Hit(c)} ELSE owed
          /\ results' = results
      BY <1>5, <1>t DEF AlreadyThere, HitsWait
    <2>2. owed' \subseteq batch \cup UNION {content[n] : n \in {results, taken} \ {None}}
      BY <2>1, <1>t, <1>n DEF HitsWait, HitAccounted
    <2>3. results \in Maps \cup {None}
      BY <1>t DEF AuditTypes
    <2> QED BY <1>4, <1>5, <2>1, <2>2, <2>3
  <1>6. CASE pc[c] = "store" /\ StoreMap(c) /\ Goto(c, "refused")
    <2> DEFINE refs == {mine[c], taken} \cup {mine[d] : d \in Conns \ {c}}
    <2>1. /\ mine[c] \in Maps /\ Hit(c) \in content[mine[c]]
          /\ mine' = [mine EXCEPT ![c] = None]
          /\ content' = Keep(content, refs)
          /\ owed' = {Hit(c)} \cup
               (owed \ (IF results = None THEN {} ELSE content[results] \ content[mine[c]]))
          /\ results' = mine[c]
      BY <1>6, <1>t DEF StoreMap, HitsWait
    <2>2. owed' \subseteq batch \cup UNION {content[n] : n \in {mine[c], taken} \ {None}}
      BY <2>1, <1>t, <1>n DEF HitsWait, HitAccounted
    <2> QED BY <1>4, <1>6, <2>1, <2>2
  <1>7. CASE LeakHit(c) /\ Goto(c, "refused")
    <2> DEFINE refs == {results, taken} \cup {mine[d] : d \in Conns \ {c}}
    <2>1. /\ mine' = [mine EXCEPT ![c] = None]
          /\ content' = Keep(content, refs)
          /\ owed' = owed /\ results' = results
      BY <1>7 DEF LeakHit
    <2>2. owed' \subseteq batch \cup UNION {content[n] : n \in {results, taken} \ {None}}
      BY <2>1, <1>t DEF HitsWait, HitAccounted
    <2>3. results \in Maps \cup {None}
      BY <1>t DEF AuditTypes
    <2> QED BY <1>4, <1>7, <2>1, <2>2, <2>3
  <1> QED BY <1>1, <1>2, <1>3, <1>5, <1>6, <1>7 DEF Record

\* The node is replaced, its rules are asked for, and its hits are collected.
LEMMA MonitorInv ==
    ASSUME AuditInv, Replace \/ Serve \/ StartRules \/ AskRules \/ Collect
    PROVE  AuditInv'
  <1>t. AuditTypes /\ HitsWait /\ RulesAsked
    BY DEF AuditInv
  <1>o. UNCHANGED <<setting, pc>>
    BY DEF Replace, Serve, StartRules, AskRules, Collect, others
  <1>k. ASSUME NEW refs, NEW m \in refs \cap Maps PROVE Keep(content, refs)[m] = content[m]
    BY DEF Keep
  <1>1. CASE Replace
    <2>1. poll' = "gone" /\ push' = push
      BY <1>1 DEF Replace, DropLimiter
    <2>2. CASE ~setting.rules /\ UNCHANGED auditVars
      <3>1. UNCHANGED <<site, judged, met, mine, content, results, taken, batch, owed>>
        BY <2>2 DEF auditVars, destVars, tagVars, hitVars
      <3>2. HitAccounted' /\ \A c \in Conns : Hit(c)' = Hit(c)
        BY <3>1, <1>t DEF HitsWait, HitAccounted, Hit
      <3>3. AuditTypes'
        BY <2>1, <3>1, <1>o, <1>t DEF AuditTypes
      <3>4. HitsWait'
        BY <2>1, <3>1, <3>2, <1>o, <1>t DEF HitsWait
      <3> QED BY <2>2, <3>3, <3>4, <1>o DEF AuditInv, RulesAsked
    <2>3. ASSUME NEW same \in BOOLEAN, RemoveInbound(live, same) PROVE AuditInv'
      <3> DEFINE refs == {taken} \cup {mine[c] : c \in Conns}
      <3>1. /\ ruled' = "removed" /\ passing' = passing \cup live
            /\ old' = IF same THEN old ELSE old \cup live
            /\ results' = None /\ content' = Keep(content, refs)
            /\ owed' = owed \ (IF results = None THEN {} ELSE content[results])
            /\ UNCHANGED <<site, byName, heard, judged, told, met, mine, taken, batch>>
        BY <2>3 DEF RemoveInbound, destVars
      <3>2. AuditTypes'
        BY <2>1, <3>1, <1>o, <1>t DEF AuditTypes, Keep
      <3>3. /\ taken # None => content'[taken] = content[taken]
            /\ \A c \in Conns : mine[c] \in Maps => content'[mine[c]] = content[mine[c]]
        BY <3>1, <1>k, <1>t DEF AuditTypes
      <3>4. HitsWait'
        <4>1. ASSUME NEW x \in owed'
              PROVE  x \in batch' \/ (taken' # None /\ x \in content'[taken'])
          BY <4>1, <3>1, <3>3, <1>t DEF HitsWait, HitAccounted
        <4>2. HitAccounted'
          BY <4>1 DEF HitAccounted
        <4>3. \A c \in Conns : Hit(c)' = Hit(c)
          BY <3>1 DEF Hit
        <4> QED BY <2>1, <3>1, <3>3, <4>2, <4>3, <1>o, <1>t DEF HitsWait
      <3>5. live' = live
        BY <1>o DEF live
      <3>6. RulesAsked'
        BY <2>1, <3>1, <3>5, <1>o, <1>t DEF RulesAsked, RulesMet, States, EscapeHasCause
      <3> QED BY <3>2, <3>4, <3>6 DEF AuditInv
    <2> QED BY <1>1, <2>2, <2>3 DEF Replace
  <1>2. CASE Serve \/ StartRules \/ AskRules
    <2>1. poll' # "gone" /\ push' = push /\ Rules
      BY <1>2 DEF Serve, ServeUsers, StartRules, StartEnds, AskRules, speedVars, listVars
    <2>2. /\ setting.rules => \E outcome \in {"set", "missed", "same"} :
                               UpdateRule(outcome, setting.ruleETag)
          /\ UNCHANGED <<site, byName, heard, judged, old, passing, met, mine, content,
                         results, taken, batch, owed>>
      BY <2>1 DEF Rules, UpdateRule, auditVars, destVars, tagVars, hitVars
    <2>3. AuditTypes' /\ HitsWait'
      BY <2>1, <2>2, <1>o, <1>t DEF AuditTypes, HitsWait, HitAccounted, Hit
    <2>4. ASSUME setting.rules PROVE RulesMet'
      <3>1. PICK outcome \in {"set", "missed", "same"} :
                    UpdateRule(outcome, setting.ruleETag)
        BY <2>2, <2>4
      <3>2. RulesMet
        BY <2>4, <1>t DEF RulesAsked
      <3>3. /\ ruled' = IF ruled = "set" THEN "set" ELSE outcome
            /\ outcome = "same" => told
            /\ told' \in {told, setting.ruleETag}
        BY <3>1, Zenon DEF UpdateRule
      <3>4. told' \in BOOLEAN /\ (told' => setting.ruleETag)
        <4>1. setting.ruleETag \in BOOLEAN
          BY SettingsAssumption, <1>t DEF AuditTypes
        <4> QED BY <3>2, <3>3, <4>1 DEF RulesMet
      <3>5. live' = live
        BY <1>o DEF live
      <3>6. \A c \in live \ (old \cup passing) : met[c] = "set" => ruled' = "set"
        BY <3>2, <3>3 DEF RulesMet
      <3> QED BY <2>1, <2>2, <3>2, <3>3, <3>4, <3>5, <3>6, <1>o DEF RulesMet, States
    <2>5. RulesAsked'
      BY <2>2, <2>4, <1>o, <1>t DEF RulesAsked, EscapeHasCause
    <2> QED BY <2>3, <2>5 DEF AuditInv
  <1>3. CASE Collect
    <2>1. UNCHANGED poll
      BY <1>3 DEF Collect, quiet, listVars
    <2>2. ASSUME UNCHANGED <<site, byName, heard, judged, ruled, told, old, passing,
                             met, mine>>,
                 content' = [m \in Maps |-> content'[m]],
                 results' \in Maps \cup {None}, taken' \in Maps \cup {None},
                 \A c \in Conns : pc[c] = "store" => content'[mine[c]] = content[mine[c]],
                 push'.pc # "read" => taken' = None,
                 push'.pc # "report" => batch' = {},
                 HitAccounted'
          PROVE  AuditInv'
      <3>1. AuditTypes' /\ HitsWait'
        BY <2>1, <2>2, <1>o, <1>t DEF AuditTypes, HitsWait, Hit
      <3>2. RulesAsked'
        BY <2>1, <2>2, <1>o, <1>t DEF RulesAsked, RulesMet, live, EscapeHasCause
      <3> QED BY <3>1, <3>2 DEF AuditInv
    <2>3. CASE push.pc = "results" /\ results = None /\ push' = NoPush /\ UNCHANGED auditVars
      <3>1. /\ push'.pc = "idle" /\ taken = None /\ batch = {}
            /\ UNCHANGED <<site, byName, heard, judged, ruled, told, old, passing, met,
                           mine, content, results, taken, batch, owed>>
        BY <2>3, <1>t DEF NoPush, At, HitsWait, auditVars, destVars, tagVars, ruleVars,
              hitVars
      <3> QED BY <2>2, <3>1, <1>t DEF AuditTypes, HitsWait, HitAccounted
    <2>4. CASE push.pc = "results" /\ TakeResults /\ push' = At("read", None, {}, None)
      <3>1. /\ push'.pc = "read" /\ taken = None /\ batch = {}
            /\ taken' = results /\ results' = None
            /\ UNCHANGED <<site, byName, heard, judged, ruled, told, old, passing, met,
                           mine, content, batch, owed>>
        BY <2>4, <1>t DEF TakeResults, At, HitsWait, destVars, tagVars, ruleVars
      <3> QED BY <2>2, <3>1, <1>t DEF AuditTypes, HitsWait, HitAccounted
    <2>5. CASE push.pc = "read" /\ ReadResults /\ push' = At("report", None, {}, None)
      <3> DEFINE refs == {results} \cup {mine[c] : c \in Conns}
      <3>1. /\ push'.pc = "report" /\ batch = {}
            /\ batch' = content[taken] /\ taken' = None
            /\ content' = Keep(content, refs)
            /\ UNCHANGED <<site, byName, heard, judged, ruled, told, old, passing, met,
                           mine, results, owed>>
        BY <2>5, <1>t DEF ReadResults, At, HitsWait, destVars, tagVars, ruleVars
      <3>2. /\ results # None => content'[results] = content[results]
            /\ \A c \in Conns : pc[c] = "store" => content'[mine[c]] = content[mine[c]]
        BY <3>1, <1>k, <1>t DEF AuditTypes, HitsWait
      <3>3. HitAccounted'
        <4>1. ASSUME NEW x \in owed'
              PROVE  x \in batch' \/ (results' # None /\ x \in content'[results'])
          BY <4>1, <3>1, <3>2, <1>t DEF HitsWait, HitAccounted
        <4> QED BY <4>1 DEF HitAccounted
      <3> QED BY <2>2, <3>1, <3>2, <3>3, <1>t DEF AuditTypes, Keep
    <2>6. CASE push.pc = "report" /\ ReportIllegal /\ push' = NoPush
      <3>1. /\ push'.pc = "idle" /\ taken = None /\ batch' = {} /\ owed' = owed \ batch
            /\ UNCHANGED <<site, byName, heard, judged, ruled, told, old, passing, met,
                           mine, content, results, taken>>
        BY <2>6, <1>t DEF ReportIllegal, NoPush, At, HitsWait, destVars, tagVars, ruleVars
      <3> QED BY <2>2, <3>1, <1>t DEF AuditTypes, HitsWait, HitAccounted
    <2> QED BY <1>3, <2>3, <2>4, <2>5, <2>6 DEF Collect
  <1> QED BY <1>1, <1>2, <1>3

LEMMA AuditInvHolds == AuditInv /\ [Next]_vars => AuditInv'
  <1> SUFFICES ASSUME AuditInv, [Next]_vars PROVE AuditInv'
    OBVIOUS
  <1>1. CASE UNCHANGED vars
    <2>1. Quiet
      BY <1>1 DEF vars, speedVars, limiterVars, listVars, Quiet
    <2> QED BY <2>1, QuietInv
  <1>2. ASSUME NEW c \in Conns, Step(c) PROVE AuditInv'
    <2>1. CASE \E late \in BOOLEAN : Dispatch(c, late) \/ DispatchLink(c, late)
      <3>1. /\ UNCHANGED <<listVars, push, setting>>
            /\ pc[c] = "idle"
            /\ pc' = [pc EXCEPT ![c] = First] \/ (setting.rules /\ pc' = [pc EXCEPT ![c] = AfterLink])
            /\ \/ setting.rules /\
                  \E s \in Sites, name, known, late \in BOOLEAN :
                     /\ ~(name /\ known)
                     /\ Ask(c, s, name, known, late, poll = "gone")
               \/ ~setting.rules /\ UNCHANGED auditVars
        BY <2>1 DEF Dispatch, DispatchLink, AsksFor, LoadRecord, Goto, Unchanged
      <3>2. /\ First \in {"arrived", "gate", "linked"}
            /\ setting.rules => AfterLink = "linked"
        BY DEF First, AfterLink
      <3> QED BY <3>1, <3>2, AskInv DEF Places
    <2>2. CASE Count(c) \/ Gate(c) \/ Link(c) \/ Transfer(c)
      BY <2>2, QuietSteps, QuietInv
    <2>3. CASE Close(c)
      BY <2>3, CloseInv
    <2>4. CASE Judge(c) \/ Route(c)
      BY <2>4, JudgedInv
    <2>5. CASE Record(c)
      BY <2>5, RecordHits, RecordInv
    <2> QED BY <1>2, <2>1, <2>2, <2>3, <2>4, <2>5 DEF Step
  <1>3. CASE MapFault \/ Caches
    BY <1>3, QuietSteps, QuietInv
  <1>4. CASE Monitors
    BY <1>4, QuietSteps, QuietInv, MonitorInv DEF Monitors
  <1> QED BY <1>1, <1>2, <1>3, <1>4 DEF Next

LEMMA AuditInvInit == Init => AuditInv
  <1> SUFFICES ASSUME Init PROVE AuditInv
    OBVIOUS
  <1>1. AuditTypes
    BY DEF Init, AuditInit, SpeedInit, AuditTypes, Places, States
  <1>2. HitsWait
    BY DEF Init, AuditInit, SpeedInit, NoPush, At, HitsWait, HitAccounted
  <1>3. RulesAsked
    BY DEF Init, AuditInit, SpeedInit, RulesAsked, RulesMet, States, live, EscapeHasCause
  <1> QED BY <1>1, <1>2, <1>3 DEF AuditInv

\* HitAccounted for any connections, users, sites and rules: a hit that was
\* put into the table of the tag stays there or with the push until it has
\* been reported, however the connections that record hits and the push that
\* collects them meet (Detect and GetDetectResult of rule.go).
THEOREM HitAccountedHolds == Spec => []HitAccounted
  <1>1. AuditInv => HitAccounted
    BY DEF AuditInv, HitsWait
  <1> QED BY <1>1, AuditInvInit, AuditInvHolds, PTL DEF Spec

\* EscapeHasCause for any connections, sites and rules, and any outcomes of
\* GetNodeRule: what the rules forbid gets out only where the dispatcher cannot
\* know the domain, across a replacement of the node, or if it came while the
\* tag had no rules, for Start had not asked, the panel had not given them, or
\* they were not modified (routedDispatch of default.go, Start and
\* nodeInfoMonitor of controller.go).
THEOREM EscapeHasCauseHolds == Spec => []EscapeHasCause
  <1>1. ASSUME AuditInv, NEW c \in Conns, setting.rules, pc[c] = "dispatched",
               site[c] \in Forbidden
        PROVE  \/ c \notin byName /\ (~setting.sniffs \/ c \notin heard)
               \/ c \in old \cup passing
               \/ met[c] \in {"unasked", "missed"}
               \/ met[c] = "same" /\ setting.ruleETag
    BY <1>1 DEF AuditInv, RulesAsked, EscapeHasCause
  <1>2. AuditInv => EscapeHasCause
    BY <1>1 DEF EscapeHasCause
  <1> QED BY <1>2, AuditInvInit, AuditInvHolds, PTL DEF Spec

-----------------------------------------------------------------------------
(* The limiter's record of a user, as the poll and the pull update it.       *)

RecordNext == \/ PollUsers \/ AddInboundLimiter \/ StartEnds \/ PollEnds
              \/ DropLimiter \/ ServeUsers
              \/ PullStart \/ PullRead \/ PullDecide \/ PullEnds
              \/ \E t \in Tasks : UpdateRecord(t) \/ UpdateBucket(t)

recordVars == <<record, current, renewed, todo, aim, listVars, limited, over,
                pull, disturbed>>

LEMMA RecordSteps == [Next]_vars => RecordNext \/ UNCHANGED recordVars
  <1> DEFINE kept == UNCHANGED recordVars
  <1> SUFFICES ASSUME [Next]_vars PROVE RecordNext \/ kept
    OBVIOUS
  <1> USE DEF recordVars
  <1>1. CASE UNCHANGED vars
    BY <1>1 DEF vars, speedVars, limiterVars, updateVars, autoVars, ghostVars
  <1>2. ASSUME NEW c \in Conns, Step(c) PROVE kept
    <2>1. CASE Transfer(c)
      BY <2>1 DEF Transfer, Carry, limiterVars, updateVars, autoVars, ghostVars
    <2>2. CASE \E late \in BOOLEAN : Dispatch(c, late) \/ DispatchLink(c, late)
      BY <2>2 DEF Dispatch, DispatchLink, LoadRecord, limiterVars, updateVars,
            autoVars, ghostVars
    <2>3. CASE Count(c)
      BY <2>3 DEF Count, CountOnline, speedVars, limiterVars, updateVars, autoVars,
            ghostVars
    <2>4. CASE Link(c) \/ Close(c)
      BY <2>4 DEF Link, Close, TakeBucket, Release, updateVars, autoVars
    <2>5. CASE Gate(c) \/ Judge(c) \/ Route(c) \/ Record(c)
      BY <2>5 DEF Gate, Judge, Route, Record, speedVars, limiterVars, updateVars,
            autoVars, ghostVars
    <2> QED BY <1>2, <2>1, <2>2, <2>3, <2>4, <2>5 DEF Step
  <1>3. CASE MapFault \/ Caches
    BY <1>3 DEF MapFault, Caches, speedVars, limiterVars, updateVars, autoVars, ghostVars
  <1>4. CASE Monitors
    <2>1. CASE Poll \/ AddInboundLimiter \/ PollEnds \/ Update \/ Pull
      BY <2>1 DEF Poll, Update, Pull, RecordNext
    <2>2. CASE Replace \/ Serve \/ StartRules
      BY <2>2 DEF Replace, Serve, StartRules, RecordNext
    <2>3. CASE AskRules \/ Collect
      BY <2>3 DEF AskRules, Collect, quiet, speedVars, limiterVars, updateVars, autoVars,
            ghostVars
    <2>4. ASSUME NEW accepted \in BOOLEAN, NEW next, PushReport(accepted, next)
          PROVE  kept
      BY <2>4 DEF PushReport, limiterVars, updateVars, autoVars, ghostVars
    <2>5. CASE SweepDrop \/ SweepCollect \/ \E u \in Users : SweepLook(u)
      BY <2>5 DEF SweepDrop, SweepCollect, SweepLook, limiterVars, updateVars,
            autoVars, ghostVars
    <2> QED BY <1>4, <2>1, <2>2, <2>3, <2>4, <2>5 DEF Monitors, Push
  <1> QED BY <1>1, <1>2, <1>3, <1>4 DEF Next

RecordTypes ==
    /\ record \in [Infos -> [Users -> Nat]]
    /\ listed \in [Users -> Speeds] /\ fetched \in [Users -> Speeds]
    /\ limited \subseteq Records /\ over \subseteq Records
    /\ todo \in [Tasks -> SUBSET (Users \X Nat)]
    /\ aim \in [Tasks -> Infos \cup {None}]
    /\ current \in Infos \cup {None} /\ renewed \in 0..MaxRetags
    /\ poll \in {"start", "rules", "idle", "gone", "served", "update"}

\* What the record of a user has to become.
Due(u) == IF <<u, fetched[u]>> \in limited THEN LimitSpeed ELSE fetched[u]

Pending(u) == \E t \in Tasks : \E x \in todo[t] : x[1] = u

\* A user whom no poll has touched while the pull was at work, nor while it
\* was limited: the limit is the one the pull has read, an update on its way
\* sets what is due, in the limiter of now, and without one it has been set.
Settled(u) ==
    /\ \A s \in Speeds : <<u, s>> \in over \cup limited => s = fetched[u] /\ s = listed[u]
    /\ pull # "idle" => /\ fetched[u] = listed[u]
                         /\ ~\E x \in todo["poll"] : x[1] = u
    /\ poll \in {"start", "gone", "served"} =>
          pull = "idle" /\ \A s \in Speeds : <<u, s>> \notin limited
    /\ \A t \in Tasks : \A x \in todo[t] : x[1] = u => x[2] = Due(u) /\ aim[t] = current
    /\ poll \in {"rules", "idle", "update"} /\ ~Pending(u) => record[current][u] = Due(u)

RecordInvariant ==
    /\ RecordTypes
    /\ poll \in {"rules", "idle", "update"} <=> current # None
    /\ poll \in {"start", "rules", "idle"} => fetched = listed
    /\ poll # "update" => todo["poll"] = {}
    /\ pull \in {"idle", "decide"} => todo["pull"] = {}
    /\ pull # "decide" => over = {}
    /\ \A u \in Users \ disturbed : Settled(u)

LEMMA RecordInvariantHolds == RecordInvariant /\ [Next]_vars => RecordInvariant'
  <1> SUFFICES ASSUME RecordInvariant, [Next]_vars PROVE RecordInvariant'
    OBVIOUS
  <1> USE SpeedAssumption
  <1>t. RecordTypes
    BY DEF RecordInvariant
  <1>n. /\ None \notin Infos /\ Tasks = {"poll", "pull"}
    BY SpeedAssumption DEF Tasks
  <1>1. CASE PollUsers
    <2>1. PICK users \in [Users -> Speeds] :
             LET added == {u \in Users : users[u] # listed[u]}
             IN  /\ fetched' = users
                 /\ Begins("poll", {<<u, users[u]>> : u \in added})
                 /\ Disturbs(added)
      BY <1>1 DEF PollUsers
    <2> DEFINE added == {u \in Users : users[u] # listed[u]}
               updates == {<<u, users[u]>> : u \in added}
    <2>2. /\ poll = "idle" /\ poll' = "update" /\ current # None /\ fetched = listed
          /\ UNCHANGED <<record, current, renewed, listed, limited, over, pull>>
      BY <1>1 DEF PollUsers, RecordInvariant, limiterVars, autoVars
    <2>3. /\ todo' = [todo EXCEPT !["poll"] = updates]
          /\ aim' = [aim EXCEPT !["poll"] = IF updates = {} THEN None ELSE current]
      BY <2>1, <2>2 DEF Begins
    <2>4. updates \in SUBSET (Users \X Nat)
      <3>1. ASSUME NEW u \in added PROVE <<u, users[u]>> \in Users \X Nat
        BY SpeedAssumption
      <3> QED BY <3>1
    <2> HIDE DEF updates
    <2>5. RecordTypes'
      BY <2>1, <2>2, <2>3, <2>4, <1>t, <1>n DEF RecordTypes
    <2>6. ASSUME NEW u \in Users \ disturbed' PROVE Settled(u)'
      <3>1. /\ u \notin disturbed /\ Settled(u)
            /\ u \in added => pull = "idle" /\ \A s \in Speeds : <<u, s>> \notin limited
        BY <2>1, <2>6 DEF Disturbs, IsLimited, RecordInvariant
      <3>2. /\ todo["poll"] = {}
            /\ todo'["poll"] = updates /\ todo'["pull"] = todo["pull"]
            /\ aim'["pull"] = aim["pull"]
            /\ updates # {} => aim'["poll"] = current
        BY <2>2, <2>3, <1>t, <1>n DEF RecordTypes, RecordInvariant
      <3>3. CASE u \in added
        <4>1. todo'["pull"] = {} /\ over = {}
          BY <3>1, <3>2, <3>3 DEF RecordInvariant
        <4>2. Due(u)' = users[u]
          BY <2>1, <2>2, <3>1, <3>3 DEF Due
        <4>3. \A x \in updates : x[1] = u => x[2] = users[u]
          BY DEF updates
        <4>4. Pending(u)'
          <5>1. <<u, users[u]>> \in updates
            BY <3>3 DEF updates
          <5> QED BY <5>1, <3>2, <1>n DEF Pending
        <4> QED BY <2>2, <3>1, <3>2, <3>3, <4>1, <4>2, <4>3, <4>4, <1>n DEF Settled
      <3>4. CASE u \notin added
        <4>1. fetched'[u] = fetched[u] /\ Due(u)' = Due(u)
          BY <2>1, <2>2, <3>4 DEF Due
        <4>2. \A x \in updates : x[1] # u
          BY <3>4 DEF updates
        <4>3. Pending(u)' <=> Pending(u)
          BY <3>2, <4>2, <1>n DEF Pending
        <4> QED BY <2>2, <3>1, <3>2, <4>1, <4>2, <4>3, <1>n DEF Settled
      <3> QED BY <3>3, <3>4
    <2>7. todo'["pull"] = todo["pull"]
      BY <2>3, <1>t, <1>n DEF RecordTypes
    <2> QED BY <2>2, <2>5, <2>6, <2>7 DEF RecordInvariant
  <1>2. CASE AddInboundLimiter
    <2>1. /\ poll \in {"served", "start"} /\ current' = renewed + 1
          /\ poll' = IF poll = "start" THEN "rules" ELSE "update"
          /\ record' = [record EXCEPT ![renewed + 1] = fetched]
          /\ UNCHANGED <<renewed, listed, fetched, limited, over, pull, todo, aim,
                         disturbed>>
      BY <1>2 DEF AddInboundLimiter, autoVars, updateVars, ghostVars
    <2>2. renewed + 1 \in Infos
      BY <1>t DEF RecordTypes, Infos
    <2>3. RecordTypes'
      <3>1. fetched \in [Users -> Nat]
        BY <1>t DEF RecordTypes
      <3> QED BY <2>1, <2>2, <3>1, <1>t DEF RecordTypes
    <2>4. ASSUME NEW u \in Users \ disturbed' PROVE Settled(u)'
      <3>1. Settled(u) /\ todo["poll"] = {} /\ todo["pull"] = {}
        BY <2>1, <2>4 DEF RecordInvariant, Settled
      <3>2. record'[current'] = fetched
        BY <2>1, <2>2, <1>t DEF RecordTypes
      <3>3. fetched[u] \in Speeds
        BY <1>t DEF RecordTypes
      <3>4. Due(u)' = fetched[u]
        BY <2>1, <3>1, <3>3 DEF Settled, Due
      <3> QED BY <2>1, <3>1, <3>2, <3>4, <1>n DEF Settled
    <2> QED BY <2>1, <2>2, <2>3, <2>4, <1>n DEF RecordInvariant
  <1>3. CASE PollEnds
    <2>1. /\ poll = "update" /\ poll' = "idle" /\ listed' = fetched
          /\ todo["poll"] = {}
          /\ UNCHANGED <<record, current, renewed, fetched, limited, over, pull, todo,
                         aim, disturbed>>
      BY <1>3 DEF PollEnds, Updated, limiterVars, autoVars, updateVars, ghostVars
    <2>2. RecordTypes'
      BY <2>1, <1>t DEF RecordTypes
    <2>3. ASSUME NEW u \in Users \ disturbed' PROVE Settled(u)'
      <3>1. Settled(u)
        BY <2>1, <2>3 DEF RecordInvariant
      <3> QED BY <2>1, <3>1 DEF Settled, Due, Pending
    <2> QED BY <2>1, <2>2, <2>3 DEF RecordInvariant
  <1>4. CASE DropLimiter
    <2>1. /\ poll = "idle" /\ poll' = "gone" /\ current' = None
          /\ renewed < MaxRetags /\ renewed' = renewed + 1
          /\ fetched' \in [Users -> Speeds] /\ Disturbs(Users)
          /\ UNCHANGED <<record, listed, limited, over, pull, todo, aim>>
      BY <1>4 DEF DropLimiter, autoVars, updateVars
    <2>2. RecordTypes'
      BY <2>1, <1>t DEF RecordTypes
    <2>3. ASSUME NEW u \in Users \ disturbed' PROVE Settled(u)'
      <3>1. pull = "idle" /\ \A s \in Speeds : <<u, s>> \notin limited
        BY <2>1, <2>3 DEF Disturbs, IsLimited
      <3>2. todo["poll"] = {} /\ todo["pull"] = {} /\ over = {}
        BY <2>1, <3>1 DEF RecordInvariant
      <3> QED BY <2>1, <3>1, <3>2, <1>n DEF Settled
    <2> QED BY <2>1, <2>2, <2>3 DEF RecordInvariant
  <1>5. CASE ServeUsers
    <2>1. /\ poll = "gone" /\ poll' = "served"
          /\ UNCHANGED <<record, current, renewed, listed, fetched, limited, over, pull,
                         todo, aim, disturbed>>
      BY <1>5 DEF ServeUsers, limiterVars, autoVars, updateVars, ghostVars
    <2>2. RecordTypes'
      BY <2>1, <1>t DEF RecordTypes
    <2>3. ASSUME NEW u \in Users \ disturbed' PROVE Settled(u)'
      <3>1. Settled(u)
        BY <2>1, <2>3 DEF RecordInvariant
      <3> QED BY <2>1, <3>1 DEF Settled, Due
    <2> QED BY <2>1, <2>2, <2>3 DEF RecordInvariant
  <1>6. CASE PullStart
    <2>1. PICK expired \in SUBSET limited :
             limited' = limited \ expired /\ Begins("pull", expired)
      BY <1>6 DEF PullStart
    <2>2. /\ pull = "idle" /\ pull' = "release"
          /\ disturbed' = IF poll # "idle" THEN Users ELSE disturbed
          /\ UNCHANGED <<record, current, renewed, listed, fetched, poll, over>>
      BY <1>6 DEF PullStart, limiterVars, listVars
    <2>3. expired \in SUBSET (Users \X Nat)
      <3>1. limited \subseteq Users \X Speeds
        BY <1>t DEF RecordTypes, Records
      <3>2. Users \X Speeds \subseteq Users \X Nat
        BY SpeedAssumption
      <3> QED BY <3>1, <3>2
    <2>4. /\ todo' = [todo EXCEPT !["pull"] = IF current = None THEN {} ELSE expired]
          /\ aim' = [aim EXCEPT !["pull"] = IF expired = {} THEN None ELSE current]
      BY <2>1 DEF Begins
    <2>5. RecordTypes'
      BY <2>1, <2>2, <2>3, <2>4, <1>t, <1>n DEF RecordTypes
    <2>6. todo'["poll"] = todo["poll"]
      BY <2>4, <1>t, <1>n DEF RecordTypes
    <2>7. ASSUME NEW u \in Users \ disturbed' PROVE Settled(u)'
      <3>1. /\ poll = "idle" /\ Settled(u) /\ current # None /\ fetched = listed
            /\ todo["poll"] = {} /\ todo["pull"] = {}
        BY <2>2, <2>7 DEF RecordInvariant
      <3>2. todo'["pull"] = expired /\ (expired # {} => aim'["pull"] = current)
        BY <2>4, <3>1, <1>t, <1>n DEF RecordTypes
      <3>3. ~Pending(u) /\ record[current][u] = Due(u)
        BY <3>1, <1>n DEF Settled, Pending
      <3>4. \A x \in expired : x \in limited /\ x = <<x[1], x[2]>> /\ x[2] \in Speeds
        BY <1>t DEF RecordTypes, Records
      <3>5. \A x \in expired : x[1] = u => x = <<u, fetched[u]>>
        BY <3>1, <3>4 DEF Settled
      <3>6. CASE <<u, fetched[u]>> \in expired
        <4>1. Due(u)' = fetched[u] /\ Pending(u)'
          BY <2>1, <2>2, <3>2, <3>6, <1>n DEF Due, Pending
        <4> QED BY <2>1, <2>2, <2>6, <3>1, <3>2, <3>5, <4>1, <1>n DEF Settled
      <3>7. CASE <<u, fetched[u]>> \notin expired
        <4>1. Due(u)' = Due(u)
          BY <2>1, <2>2, <3>7 DEF Due
        <4> QED BY <2>1, <2>2, <2>6, <3>1, <3>2, <3>3, <3>5, <3>7, <4>1, <1>n DEF Settled
      <3> QED BY <3>6, <3>7
    <2> QED BY <2>2, <2>5, <2>6, <2>7 DEF RecordInvariant
  <1>7. CASE PullRead
    <2>1. /\ pull = "release" /\ pull' = "decide" /\ todo["pull"] = {}
          /\ over' = {<<u, listed[u]>> : u \in {v \in Users : counter[v] = 2}}
          /\ UNCHANGED <<record, current, renewed, listed, fetched, poll, limited, todo,
                         aim, disturbed>>
      BY <1>7 DEF PullRead, Updated, limiterVars, listVars, updateVars, ghostVars
    <2>2. RecordTypes'
      BY <2>1, <1>t DEF RecordTypes, Records
    <2>3. ASSUME NEW u \in Users \ disturbed' PROVE Settled(u)'
      <3>1. Settled(u) /\ fetched[u] = listed[u]
        BY <2>1, <2>3 DEF RecordInvariant, Settled
      <3>2. \A s \in Speeds : <<u, s>> \in over' => s = listed[u]
        BY <2>1
      <3> QED BY <2>1, <3>1, <3>2 DEF Settled, Due, Pending
    <2> QED BY <2>1, <2>2, <2>3 DEF RecordInvariant
  <1>8. CASE PullDecide
    <2> DEFINE new == {r \in over \ limited : warned[r] >= WarnTimes}
               updates == {<<r[1], LimitSpeed>> : r \in new}
    <2>1. /\ pull = "decide" /\ pull' = "limit" /\ over' = {}
          /\ limited' = limited \cup new /\ Begins("pull", updates)
          /\ UNCHANGED <<record, current, renewed, listed, fetched, poll, disturbed>>
      BY <1>8 DEF PullDecide, limiterVars, listVars, ghostVars
    <2>2. /\ todo' = [todo EXCEPT !["pull"] = IF current = None THEN {} ELSE updates]
          /\ aim' = [aim EXCEPT !["pull"] = IF updates = {} THEN None ELSE current]
      BY <2>1 DEF Begins
    <2>3. new \subseteq Records /\ updates \in SUBSET (Users \X Nat)
      BY <1>t DEF RecordTypes, Records
    <2>4. RecordTypes'
      <3> HIDE DEF new, updates
      <3> QED BY <2>1, <2>2, <2>3, <1>t, <1>n DEF RecordTypes
    <2>5. todo'["poll"] = todo["poll"] /\ aim'["poll"] = aim["poll"]
      BY <2>2, <1>t, <1>n DEF RecordTypes
    <2>6. ASSUME NEW u \in Users \ disturbed' PROVE Settled(u)'
      <3>1. /\ Settled(u) /\ todo["pull"] = {} /\ fetched[u] = listed[u]
            /\ poll \in {"rules", "idle", "update"} /\ current # None
        BY <2>1, <2>6, <1>t DEF RecordInvariant, Settled, RecordTypes
      <3>2. todo'["pull"] = updates /\ (updates # {} => aim'["pull"] = current)
        BY <2>2, <3>1, <1>t, <1>n DEF RecordTypes
      <3>3. \A r \in new : r = <<r[1], r[2]>> /\ r[2] \in Speeds /\ r \in over
        BY <1>t DEF RecordTypes, Records
      <3>4. \A r \in new : r[1] = u => r = <<u, fetched[u]>>
        BY <3>1, <3>3 DEF Settled
      <3>5. CASE <<u, fetched[u]>> \in new
        <4>1. Due(u)' = LimitSpeed
          BY <2>1, <3>5 DEF Due
        <4>2. <<u, LimitSpeed>> \in updates
          BY <3>5
        <4>3. Pending(u)'
          BY <3>2, <4>2, <1>n DEF Pending
        <4>4. \A x \in updates : x[2] = LimitSpeed
          OBVIOUS
        <4>5. ~\E x \in todo["poll"] : x[1] = u
          BY <2>1, <3>1 DEF Settled
        <4> HIDE DEF new, updates
        <4> QED BY <2>1, <2>5, <3>1, <3>2, <3>4, <4>1, <4>3, <4>4, <4>5, <1>n DEF Settled
      <3>6. CASE <<u, fetched[u]>> \notin new
        <4>1. Due(u)' = Due(u)
          BY <2>1, <3>6 DEF Due
        <4>2. \A x \in updates : x[1] # u
          BY <3>4, <3>6
        <4> HIDE DEF new, updates
        <4>3. Pending(u)' <=> Pending(u)
          BY <2>5, <3>1, <3>2, <4>2, <1>n DEF Pending
        <4> QED BY <2>1, <2>5, <3>1, <3>2, <3>4, <3>6, <4>1, <4>2, <4>3, <1>n DEF Settled
      <3> QED BY <3>5, <3>6
    <2> QED BY <2>1, <2>4, <2>5, <2>6 DEF RecordInvariant
  <1>9. CASE PullEnds
    <2>1. /\ pull = "limit" /\ pull' = "idle" /\ todo["pull"] = {}
          /\ UNCHANGED <<record, current, renewed, listed, fetched, poll, limited, over,
                         todo, aim, disturbed>>
      BY <1>9 DEF PullEnds, Updated, limiterVars, listVars, updateVars, ghostVars
    <2>2. RecordTypes'
      BY <2>1, <1>t DEF RecordTypes
    <2>3. ASSUME NEW u \in Users \ disturbed' PROVE Settled(u)'
      <3>1. Settled(u)
        BY <2>1, <2>3 DEF RecordInvariant
      <3> QED BY <2>1, <3>1 DEF Settled, Due, Pending
    <2> QED BY <2>1, <2>2, <2>3 DEF RecordInvariant
  <1>10. ASSUME NEW t \in Tasks, UpdateRecord(t) PROVE RecordInvariant'
    <2>1. PICK x \in todo[t] :
             /\ todo' = [todo EXCEPT ![t] = todo[t] \ {x}]
             /\ record' = [record EXCEPT ![aim[t]] = [record[aim[t]] EXCEPT ![x[1]] = x[2]]]
      BY <1>10 DEF UpdateRecord
    <2>2. UNCHANGED <<current, renewed, listed, fetched, poll, limited, over, pull, aim,
                      disturbed>>
      BY <1>10 DEF UpdateRecord, listVars, autoVars
    <2>3. x[1] \in Users /\ x[2] \in Nat
      BY <2>1, <1>t DEF RecordTypes
    <2>4. \A s \in Tasks : todo'[s] = IF s = t THEN todo[t] \ {x} ELSE todo[s]
      BY <2>1, <1>t DEF RecordTypes
    <2>5. \A g \in Infos, u \in Users :
             record'[g][u] = IF g = aim[t] /\ u = x[1] THEN x[2] ELSE record[g][u]
      BY <2>1, <2>3, <1>t DEF RecordTypes
    <2>6. RecordTypes'
      <3>1. todo' \in [Tasks -> SUBSET (Users \X Nat)]
        BY <2>1, <1>t DEF RecordTypes
      <3>2. record' \in [Infos -> [Users -> Nat]]
        BY <2>1, <2>3, <1>t DEF RecordTypes
      <3> QED BY <2>2, <3>1, <3>2, <1>t DEF RecordTypes
    <2>7. ASSUME NEW u \in Users \ disturbed' PROVE Settled(u)'
      <3>1. Settled(u) /\ Due(u)' = Due(u)
        BY <2>2, <2>7 DEF RecordInvariant, Due
      <3>2. ASSUME poll \in {"rules", "idle", "update"}, ~Pending(u)'
            PROVE  record'[current][u] = Due(u)
        <4>1. current \in Infos
          BY <3>2, <1>t DEF RecordInvariant, RecordTypes
        <4>2. CASE x[1] = u
          BY <4>1, <4>2, <2>1, <2>5, <3>1 DEF Settled
        <4>3. CASE x[1] # u
          <5>1. ~Pending(u)
            BY <2>4, <3>2, <4>3 DEF Pending
          <5> QED BY <4>1, <4>3, <5>1, <2>5, <3>1, <3>2 DEF Settled
        <4> QED BY <4>2, <4>3
      <3>3. \A s \in Tasks : todo'[s] \subseteq todo[s]
        BY <2>4
      <3>4. "poll" \in Tasks
        BY <1>n
      <3>5. \A s \in Tasks : \A y \in todo'[s] :
               y[1] = u => y[2] = Due(u)' /\ aim'[s] = current'
        BY <2>2, <3>1, <3>3 DEF Settled
      <3> QED BY <2>2, <3>1, <3>2, <3>3, <3>4, <3>5 DEF Settled
    <2> QED BY <2>2, <2>4, <2>6, <2>7, <1>n DEF RecordInvariant
  <1>11. ASSUME NEW t \in Tasks, UpdateBucket(t) PROVE RecordInvariant'
    <2>1. /\ aim' = [aim EXCEPT ![t] = IF todo[t] = {} THEN None ELSE aim[t]]
          /\ UNCHANGED <<record, current, renewed, listed, fetched, poll, limited, over,
                         pull, todo, disturbed>>
      BY <1>11 DEF UpdateBucket, listVars, autoVars
    <2>2. \A s \in Tasks : todo[s] # {} => aim'[s] = aim[s]
      BY <2>1, <1>t DEF RecordTypes
    <2>3. RecordTypes'
      BY <2>1, <1>t DEF RecordTypes
    <2>4. ASSUME NEW u \in Users \ disturbed' PROVE Settled(u)'
      <3>1. Settled(u)
        BY <2>1, <2>4 DEF RecordInvariant
      <3> QED BY <2>1, <2>2, <3>1 DEF Settled, Due, Pending
    <2> QED BY <2>1, <2>3, <2>4 DEF RecordInvariant
  <1>13. CASE StartEnds
    <2>1. /\ poll = "rules" /\ poll' = "idle"
          /\ UNCHANGED <<record, current, renewed, listed, fetched, limited, over, pull,
                         todo, aim, disturbed>>
      BY <1>13 DEF StartEnds, limiterVars, autoVars, updateVars, ghostVars
    <2>2. RecordTypes'
      BY <2>1, <1>t DEF RecordTypes
    <2>3. ASSUME NEW u \in Users \ disturbed' PROVE Settled(u)'
      <3>1. Settled(u)
        BY <2>1, <2>3 DEF RecordInvariant
      <3> QED BY <2>1, <3>1 DEF Settled, Due, Pending
    <2> QED BY <2>1, <2>2, <2>3 DEF RecordInvariant
  <1>12. CASE UNCHANGED recordVars
    BY <1>12 DEF recordVars, listVars, RecordInvariant, RecordTypes, Settled, Due, Pending
  <1> QED BY <1>1, <1>2, <1>3, <1>4, <1>5, <1>6, <1>7, <1>8, <1>9, <1>10, <1>11,
             <1>12, <1>13, RecordSteps DEF RecordNext

LEMMA RecordInvariantInit == Init => RecordInvariant
  <1> SUFFICES ASSUME Init PROVE RecordInvariant
    OBVIOUS
  <1> USE SpeedAssumption DEF Init, SpeedInit
  <1>1. RecordTypes
    <2>1. record \in [Infos -> [Users -> Nat]]
      OBVIOUS
    <2> QED BY <2>1 DEF RecordTypes, Tasks
  <1>2. \A u \in Users : Settled(u)
    BY DEF Settled, Due, Pending
  <1> QED BY <1>1, <1>2 DEF RecordInvariant, Tasks

\* RecordExplained for any users, limits and warnings: the auto speed limit
\* and the panel's changes leave a user with the limit that is due, once both
\* monitors are done, unless they met (nodeInfoMonitor and userInfoMonitor of
\* controller.go, UpdateInboundLimiter of limiter.go).
THEOREM RecordExplainedHolds == Spec => []RecordExplained
  <1>1. RecordInvariant => RecordExplained
    <2> SUFFICES ASSUME RecordInvariant, current # None, poll = "idle", pull = "idle",
                        NEW u \in Users \ disturbed
                 PROVE  record[current][u] = IF <<u, listed[u]>> \in limited
                                             THEN LimitSpeed ELSE listed[u]
      BY DEF RecordExplained
    <2>1. ~Pending(u)
      BY DEF Pending, RecordInvariant, Tasks
    <2> QED BY <2>1 DEF RecordInvariant, Settled, Due
  <1> QED BY <1>1, RecordInvariantInit, RecordInvariantHolds, PTL DEF Spec

-----------------------------------------------------------------------------
(* The speed limit buckets, for any users, connections, limits and re-tags:  *)
(* the connections by which a user is online share one, at the user's rate.  *)

Halves == [user : Users, rate : Nat]

BucketTypes ==
    /\ pc \in [Conns -> Places]
    /\ renewed \in 0..MaxRetags
    /\ record \in [Infos -> [Users -> Nat]]
    /\ fetched \in [Users -> Speeds] /\ listed \in [Users -> Speeds]
    /\ limited \subseteq Records /\ over \subseteq Records
    /\ hub \in [Infos -> [Users -> Buckets \cup {None}]]
    /\ online \in [Infos -> SUBSET Users]
    /\ rate \in [Buckets -> Nat]
    /\ todo \in [Tasks -> SUBSET (Users \X Nat)]
    /\ half \in [Tasks -> Halves \cup {None}]
    /\ aim \in [Tasks -> Infos \cup {None}]
    /\ info \in [Conns -> Infos \cup {None}]
    /\ limit \in [Conns -> Nat]
    /\ bucket \in [Conns -> Buckets \cup {None}]
    /\ counted \subseteq Conns
    /\ push.pc \in {"look", "drop"} => push.info \in Infos
    /\ push.pc = "drop" => push.user \in Users

\* The InboundInfos that have been made: the next one is not in use.
Made(g) == g <= renewed \/ (g = renewed + 1 /\ poll \notin {"start", "gone", "served"})

Using ==
    /\ current # None => current \in Infos /\ Made(current)
    /\ \A c \in Conns : info[c] # None => Made(info[c])
    /\ \A t \in Tasks : todo[t] # {} \/ half[t] # None =>
          aim[t] # None /\ Made(aim[t])
    /\ \A g \in Infos : \A u \in Users : hub[g][u] # None => Made(g)

\* An update is over when its task goes on.
Resting ==
    /\ poll # "update" => Updated("poll")
    /\ pull \in {"idle", "decide"} => Updated("pull")

\* A connection is counted before it has a bucket, and keeps its user online
\* until the sweep collects it; a sweep that is about to delete the bucket has
\* found nobody, or the connection came after.
Counting ==
    /\ \A c \in Conns : pc[c] \in {"idle", "arrived"} =>
          c \notin counted /\ bucket[c] = None
    /\ \A c \in counted : info[c] # None /\ UserOf[c] \in online[info[c]]
    /\ \A c \in counted : push.pc = "drop" /\ push.user = UserOf[c]
                             /\ push.info = info[c] => c \in detached

Sharing ==
    \A c \in counted \ detached :
       bucket[c] # None => bucket[c] = hub[info[c]][UserOf[c]]

\* Two users never have the same bucket.  It has the rate of the record, or
\* an update is about to set it, unless two updates, or an update and the
\* making of the bucket, have crossed.
Rated ==
    /\ \A g, h \in Infos : \A u, v \in Users :
          hub[g][u] # None /\ hub[g][u] = hub[h][v] => g = h /\ u = v
    /\ \A g \in Infos : \A u \in Users :
          \/ hub[g][u] = None \/ rate[hub[g][u]] = RateOf(g, u)
          \/ <<g, u>> \in raced
          \/ \E t \in Tasks : aim[t] = g /\ half[t] # None /\ half[t].user = u
    /\ \A t \in Tasks : half[t] # None =>
          \/ half[t].rate = RateOf(aim[t], half[t].user)
          \/ <<aim[t], half[t].user>> \in raced

BucketInv == BucketTypes /\ Using /\ Resting /\ Counting /\ Sharing /\ Rated

bookVars == <<current, renewed, record, hub, rate, listed, fetched, poll, limited,
              over, pull, todo, half, aim, raced>>
useVars  == <<info, limit, bucket, counted, detached, online>>

-----------------------------------------------------------------------------
LEMMA RateIsNat ==
    ASSUME NEW n \in Nat, NEW s \in Nat PROVE determineRate(n, s) \in Nat
  BY DEF determineRate

LEMMA Numbers ==
    /\ Infos \subseteq Nat /\ None \notin Infos
    /\ Tasks = {"poll", "pull"}
    /\ UserOf \in [Conns -> Users]
    /\ Speeds \subseteq Nat /\ NodeSpeed \in Nat /\ LimitSpeed \in Nat
    /\ MaxRetags \in Nat
  BY SpeedAssumption, UserAssumption DEF Infos, Tasks

LEMMA BucketInvInit == Init => BucketInv
  <1> SUFFICES ASSUME Init PROVE BucketInv
    OBVIOUS
  <1> USE Numbers DEF Init, SpeedInit
  <1>2. BucketTypes
    <2>1. record \in [Infos -> [Users -> Nat]]
      OBVIOUS
    <2>2. pc \in [Conns -> Places]
      BY DEF Places
    <2>3. push.pc = "idle"
      BY DEF NoPush, At
    <2>4. /\ half \in [Tasks -> Halves \cup {None}]
          /\ todo \in [Tasks -> SUBSET (Users \X Nat)]
          /\ aim \in [Tasks -> Infos \cup {None}]
          /\ info \in [Conns -> Infos \cup {None}]
          /\ limit \in [Conns -> Nat]
          /\ bucket \in [Conns -> Buckets \cup {None}]
          /\ hub \in [Infos -> [Users -> Buckets \cup {None}]]
          /\ online \in [Infos -> SUBSET Users]
          /\ rate \in [Buckets -> Nat]
      OBVIOUS
    <2>5. /\ renewed \in 0..MaxRetags
          /\ fetched \in [Users -> Speeds] /\ listed \in [Users -> Speeds]
          /\ limited \subseteq Records /\ over \subseteq Records
          /\ counted \subseteq Conns
      OBVIOUS
    <2> QED BY <2>1, <2>2, <2>3, <2>4, <2>5 DEF BucketTypes
  <1>3. Using
    BY DEF Using
  <1>4. Resting
    BY DEF Resting, Updated
  <1>5. Counting /\ Sharing /\ Rated
    BY DEF Counting, Sharing, Rated, NoPush, At
  <1> QED BY <1>2, <1>3, <1>4, <1>5 DEF BucketInv

-----------------------------------------------------------------------------
(* What a part of the invariant is about.                                   *)

LEMMA UsingStays ==
    ASSUME Using, UNCHANGED <<current, renewed, poll, info, todo, half, aim, hub>>
    PROVE  Using'
  BY DEF Using, Made

LEMMA RestingStays ==
    ASSUME Resting, UNCHANGED <<poll, pull, todo, half>>
    PROVE  Resting'
  BY DEF Resting, Updated

LEMMA CountingStays ==
    ASSUME Counting, UNCHANGED <<counted, detached, bucket, info, online, push>>,
           \A c \in Conns : pc'[c] \in {"idle", "arrived"} =>
              pc[c] \in {"idle", "arrived"}
    PROVE  Counting'
  BY DEF Counting

LEMMA SharingStays ==
    ASSUME Sharing, UNCHANGED <<counted, detached, bucket, info, hub>>
    PROVE  Sharing'
  BY DEF Sharing

LEMMA RatedStays ==
    ASSUME Rated, UNCHANGED <<record, hub, rate, raced, aim, half>>
    PROVE  Rated'
  <1>1. \A g, u : RateOf(g, u)' = RateOf(g, u)
    BY DEF RateOf
  <1> QED BY <1>1 DEF Rated

LEMMA RateOfIsNat ==
    ASSUME BucketTypes, NEW g \in Infos, NEW u \in Users
    PROVE  RateOf(g, u) \in Nat
  <1>1. record[g][u] \in Nat
    BY DEF BucketTypes
  <1>2. NodeSpeed \in Nat
    BY Numbers
  <1> QED BY <1>1, <1>2, RateIsNat DEF RateOf

-----------------------------------------------------------------------------
(* Steps that leave buckets alone.                                          *)

LEMMA StillInv ==
    ASSUME BucketInv, UNCHANGED <<bookVars, useVars>>,
           pc' \in [Conns -> Places],
           \A c \in Conns : pc'[c] \in {"idle", "arrived"} =>
              pc[c] \in {"idle", "arrived"},
           push' = push \/ push'.pc \notin {"look", "drop"}
              \/ (push'.pc = "look" /\ push'.info \in Infos)
    PROVE  BucketInv'
  <1> USE DEF BucketInv, bookVars, useVars
  <1>1. BucketTypes'
    BY DEF BucketTypes
  <1>2. Using'
    BY DEF Using, Made
  <1>3. Resting' /\ Sharing' /\ Rated'
    BY DEF Resting, Updated, Sharing, Rated, RateOf
  <1>4. Counting'
    BY DEF Counting
  <1> QED BY <1>1, <1>2, <1>3, <1>4

\* Goto keeps the places, and goes to idle or arrived from idle only.
LEMMA Places1 ==
    ASSUME BucketInv, NEW c \in Conns, NEW place \in Places \ {"idle", "arrived"},
           Goto(c, place)
    PROVE  /\ pc' \in [Conns -> Places]
           /\ \A d \in Conns : pc'[d] \in {"idle", "arrived"} =>
                 d # c /\ pc'[d] = pc[d]
  BY DEF Goto, BucketInv, BucketTypes

-----------------------------------------------------------------------------
(* A connection.                                                            *)

LEMMA DispatchInv ==
    ASSUME BucketInv, NEW c \in Conns, NEW g,
           g = None \/ g = current, pc[c] = "idle", LoadRecord(c, g),
           NEW place \in Places \ {"idle"}, Goto(c, place)
    PROVE  BucketInv'
  <1> USE Numbers DEF BucketInv
  <1>1. /\ UNCHANGED <<bookVars, bucket, counted, detached, online, push>>
        /\ info' = [info EXCEPT ![c] = g]
        /\ limit' = [limit EXCEPT ![c] = IF g = None THEN 0 ELSE RateOf(g, UserOf[c])]
    BY DEF LoadRecord, bookVars, limiterVars, listVars, autoVars, updateVars, ghostVars
  <1>2. /\ pc' \in [Conns -> Places]
        /\ \A d \in Conns : pc'[d] \in {"idle", "arrived"} =>
              pc[d] \in {"idle", "arrived"}
    BY DEF Goto, BucketTypes
  <1> USE DEF bookVars
  <1>3. g # None => g \in Infos /\ Made(g)
    BY DEF Using
  <1>4. g # None => RateOf(g, UserOf[c]) \in Nat
    BY <1>3, RateOfIsNat
  <1>5. BucketTypes'
    BY <1>1, <1>2, <1>3, <1>4 DEF BucketTypes
  <1>6. Using'
    BY <1>1, <1>3 DEF Using, Made, BucketTypes
  <1>7. c \notin counted /\ bucket[c] = None
    BY DEF Counting
  <1>8. Counting'
    BY <1>1, <1>2, <1>7 DEF Counting, BucketTypes
  <1>9. Resting' /\ Rated'
    BY <1>1, RestingStays, RatedStays
  <1>10. Sharing'
    BY <1>1, <1>7 DEF Sharing, BucketTypes
  <1> QED BY <1>5, <1>6, <1>8, <1>9, <1>10

LEMMA CountInv ==
    ASSUME BucketInv, NEW c \in Conns, Count(c)
    PROVE  BucketInv'
  <1> USE Numbers DEF BucketInv
  <1>1. PICK place \in {"gate", "bucket"} : Goto(c, place)
    BY DEF Count
  <1>2. pc[c] = "arrived"
    BY DEF Count
  <1>3. /\ pc' \in [Conns -> Places]
        /\ \A d \in Conns : pc'[d] \in {"idle", "arrived"} =>
              d # c /\ pc'[d] = pc[d]
    BY <1>1, Places1 DEF Places
  <1>4. CASE UNCHANGED speedVars
    <2>1. UNCHANGED <<bookVars, useVars>> /\ push' = push
      BY <1>4 DEF speedVars, bookVars, useVars, limiterVars, listVars, autoVars,
            updateVars, connVars, ghostVars
    <2> QED BY <2>1, <1>3, StillInv
  <1>5. CASE info[c] # None /\ CountOnline(c)
    <2>1. /\ UNCHANGED <<bookVars, info, limit, bucket, push>>
          /\ online' = [online EXCEPT ![info[c]] = @ \cup {UserOf[c]}]
          /\ counted' = counted \cup {c}
          /\ detached' = IF push.user = UserOf[c] /\ push.info = info[c]
                         THEN detached \cup {c} ELSE detached
      BY <1>5 DEF CountOnline, bookVars, limiterVars, listVars, autoVars, updateVars
    <2> USE DEF bookVars
    <2>2. info[c] \in Infos /\ UserOf[c] \in Users
      BY <1>5 DEF BucketTypes
    <2>3. BucketTypes'
      BY <2>1, <2>2, <1>3 DEF BucketTypes
    <2>4. Using' /\ Resting' /\ Rated'
      BY <2>1, UsingStays, RestingStays, RatedStays
    <2>5. bucket[c] = None
      BY <1>2 DEF Counting
    <2>6. Counting'
      BY <2>1, <2>2, <1>3, <1>5 DEF Counting, BucketTypes
    <2>7. Sharing'
      BY <2>1, <2>5 DEF Sharing
    <2> QED BY <2>3, <2>4, <2>6, <2>7
  <1> QED BY <1>4, <1>5 DEF Count

LEMMA LinkInv ==
    ASSUME BucketInv, NEW c \in Conns, Link(c)
    PROVE  BucketInv'
  <1> USE Numbers DEF BucketInv
  <1> DEFINE g == info[c]
             u == UserOf[c]
  <1>1. Goto(c, AfterLink) /\ TakeBucket(c) /\ pc[c] = "bucket"
    BY DEF Link
  <1>2. /\ pc' \in [Conns -> Places]
        /\ \A d \in Conns : pc'[d] \in {"idle", "arrived"} =>
              d # c /\ pc'[d] = pc[d]
    BY <1>1, Places1 DEF Places, AfterLink
  <1>3. /\ UNCHANGED <<current, renewed, record, listed, fetched, poll, limited,
                       over, pull, todo, half, aim, info, counted, detached,
                       online, push>>
        /\ limit' = [limit EXCEPT ![c] = 0]
    BY <1>1 DEF TakeBucket, listVars, autoVars, updateVars
  <1>4. CASE UNCHANGED <<hub, rate, bucket, raced>>
    <2>1. BucketTypes'
      BY <1>2, <1>3, <1>4 DEF BucketTypes
    <2>2. Using' /\ Resting' /\ Sharing' /\ Rated'
      BY <1>3, <1>4, UsingStays, RestingStays, SharingStays, RatedStays
    <2>3. Counting'
      BY <1>2, <1>3, <1>4, CountingStays
    <2> QED BY <2>1, <2>2, <2>3
  <1>5. CASE /\ g # None /\ hub[g][u] # None
             /\ bucket' = [bucket EXCEPT ![c] = hub[g][u]]
             /\ UNCHANGED <<hub, rate, raced>>
    <2>1. g \in Infos /\ u \in Users
      BY <1>5 DEF BucketTypes
    <2>2. BucketTypes'
      <3>1. bucket' \in [Conns -> Buckets \cup {None}]
        <4>0. hub[g] \in [Users -> Buckets \cup {None}]
          BY <2>1 DEF BucketTypes
        <4>1. hub[g][u] \in Buckets \cup {None}
          BY <2>1, <4>0
        <4> QED BY <1>5, <4>1 DEF BucketTypes
      <3> QED BY <1>2, <1>3, <1>5, <3>1 DEF BucketTypes
    <2>3. Using' /\ Resting' /\ Rated'
      BY <1>3, <1>5, UsingStays, RestingStays, RatedStays
    <2>4. Counting'
      BY <1>2, <1>3, <1>5 DEF Counting, BucketTypes
    <2>5. Sharing'
      BY <1>3, <1>5 DEF Sharing, BucketTypes
    <2> QED BY <2>2, <2>3, <2>4, <2>5
  <1>6. CASE g # None /\ hub[g][u] = None /\ NewBucket(c, g, u)
    <2>1. g \in Infos /\ u \in Users /\ Made(g)
      BY <1>6 DEF BucketTypes, Using
    <2>2. PICK b \in Buckets \ InUse :
             /\ hub' = [hub EXCEPT ![g] = [hub[g] EXCEPT ![u] = b]]
             /\ rate' = [rate EXCEPT ![b] = limit[c]]
             /\ bucket' = [bucket EXCEPT ![c] = b]
             /\ raced' = IF limit[c] # RateOf(g, u) THEN raced \cup {<<g, u>>}
                                                    ELSE raced
      BY <1>6 DEF NewBucket
    <2>3. \A h \in Infos : \A v \in Users :
             /\ hub[h][v] # b
             /\ hub'[h][v] = IF h = g /\ v = u THEN b ELSE hub[h][v]
      <3>1. \A h \in Infos : \A v \in Users : hub[h][v] \in InUse
        <4> SUFFICES ASSUME NEW h \in Infos, NEW v \in Users
                     PROVE  hub[h][v] \in InUse
          OBVIOUS
        <4>1. hub[h][v] \in {hub[h][w] : w \in Users}
          OBVIOUS
        <4>2. {hub[h][w] : w \in Users} \in {{hub[k][w] : w \in Users} : k \in Infos}
          OBVIOUS
        <4> QED BY <4>1, <4>2 DEF InUse
      <3>2. \A h \in Infos : \A v \in Users : hub[h][v] # b
        BY <2>2, <3>1
      <3> QED BY <2>1, <2>2, <3>2 DEF BucketTypes
    <2>4. BucketTypes'
      <3>1. hub' \in [Infos -> [Users -> Buckets \cup {None}]]
        <4>1. hub[g] \in [Users -> Buckets \cup {None}]
          BY <2>1 DEF BucketTypes
        <4>2. [hub[g] EXCEPT ![u] = b] \in [Users -> Buckets \cup {None}]
          BY <4>1
        <4> QED BY <2>1, <2>2, <4>2 DEF BucketTypes
      <3>2. rate' \in [Buckets -> Nat]
        BY <2>2 DEF BucketTypes
      <3> QED BY <1>2, <1>3, <2>2, <3>1, <3>2 DEF BucketTypes
    <2>5. Using' /\ Resting'
      <3>1. Using'
        BY <1>3, <2>1, <2>3 DEF Using, Made
      <3> QED BY <1>3, <3>1, RestingStays
    <2>6. Counting'
      BY <1>2, <1>3, <2>2 DEF Counting, BucketTypes
    <2>7. Sharing'
      <3> SUFFICES ASSUME NEW d \in counted \ detached, bucket'[d] # None
                   PROVE  bucket'[d] = hub'[info[d]][UserOf[d]]
        BY <1>3 DEF Sharing
      <3>1. d \in Conns /\ info[d] \in Infos /\ UserOf[d] \in Users
        BY DEF Counting, BucketTypes
      <3>2. CASE d = c
        BY <3>1, <3>2, <2>2, <2>3 DEF BucketTypes
      <3>3. CASE d # c
        <4>1. bucket'[d] = bucket[d]
          BY <3>1, <3>3, <2>2 DEF BucketTypes
        <4>2. bucket[d] = hub[info[d]][UserOf[d]]
          BY <4>1 DEF Sharing
        <4> QED BY <1>6, <2>3, <3>1, <4>1, <4>2
      <3> QED BY <3>2, <3>3
    <2>8. Rated'
      <3>1. \A h, k \in Infos : \A v, w \in Users :
               hub'[h][v] # None /\ hub'[h][v] = hub'[k][w] => h = k /\ v = w
        BY <2>3 DEF Rated
      <3>2. \A h \in Infos : \A v \in Users :
               \/ hub'[h][v] = None \/ rate'[hub'[h][v]] = RateOf(h, v)
               \/ <<h, v>> \in raced'
               \/ \E t \in Tasks : aim[t] = h /\ half[t] # None /\ half[t].user = v
        <4> SUFFICES ASSUME NEW h \in Infos, NEW v \in Users, hub'[h][v] # None,
                            <<h, v>> \notin raced',
                            ~\E t \in Tasks : aim[t] = h /\ half[t] # None
                                                 /\ half[t].user = v
                     PROVE  rate'[hub'[h][v]] = RateOf(h, v)
          OBVIOUS
        <4>1. CASE h = g /\ v = u
          <5>1. hub'[h][v] = b
            BY <4>1, <2>3
          <5>2. <<g, u>> \notin raced' /\ rate \in [Buckets -> Nat]
            BY <4>1 DEF BucketTypes
          <5>3. limit[c] = RateOf(g, u)
            BY <5>2, <2>2
          <5> QED BY <4>1, <5>1, <5>2, <5>3, <2>2
        <4>2. CASE ~(h = g /\ v = u)
          <5>1. hub'[h][v] = hub[h][v] /\ hub[h][v] # b
            <6>1. /\ hub[h][v] # b
                  /\ hub'[h][v] = IF h = g /\ v = u THEN b ELSE hub[h][v]
              BY <2>3
            <6> QED BY <6>1, <4>2
          <5>2. hub[h][v] \in Buckets \cup {None}
            <6>1. hub \in [Infos -> [Users -> Buckets \cup {None}]]
              BY DEF BucketTypes
            <6>2. hub[h] \in [Users -> Buckets \cup {None}]
              BY <6>1
            <6> QED BY <6>2
          <5>3. hub[h][v] \in Buckets /\ hub[h][v] # None
            BY <5>1, <5>2
          <5>4. rate[hub[h][v]] = RateOf(h, v)
            BY <5>3, <2>2 DEF Rated
          <5> QED BY <5>1, <5>3, <5>4, <2>2 DEF BucketTypes
        <4> QED BY <4>1, <4>2
      <3>3. raced \subseteq raced'
        <4>1. raced' = raced \/ raced' = raced \cup {<<g, u>>}
          BY <2>2
        <4> QED BY <4>1
      <3>4. \A t \in Tasks : half[t] # None =>
               \/ half[t].rate = RateOf(aim[t], half[t].user)
               \/ <<aim[t], half[t].user>> \in raced'
        BY <3>3 DEF Rated
      <3>5. record' = record /\ aim' = aim /\ half' = half
        BY <1>3
      <3>6. \A h \in Infos : \A v \in Users :
               \/ hub'[h][v] = None \/ rate'[hub'[h][v]] = RateOf(h, v)'
               \/ <<h, v>> \in raced'
               \/ \E t \in Tasks : aim'[t] = h /\ half'[t] # None /\ half'[t].user = v
        <4>1. \A h, v : RateOf(h, v)' = RateOf(h, v)
          BY <3>5 DEF RateOf
        <4> QED BY <3>2, <3>5, <4>1
      <3>7. \A t \in Tasks : half'[t] # None =>
               \/ half'[t].rate = RateOf(aim[t], half[t].user)'
               \/ <<aim'[t], half'[t].user>> \in raced'
        BY <3>4, <3>5 DEF RateOf
      <3> QED BY <3>1, <3>6, <3>7 DEF Rated
    <2> QED BY <2>4, <2>5, <2>6, <2>7, <2>8
  <1> QED
    BY <1>1, <1>4, <1>5, <1>6 DEF TakeBucket

LEMMA CloseBucketInv ==
    ASSUME BucketInv, NEW c \in Conns, Close(c)
    PROVE  BucketInv'
  <1> USE Numbers DEF BucketInv
  <1>1. /\ UNCHANGED <<current, renewed, record, hub, listed, fetched, poll, limited,
                       over, pull, todo, half, aim, online, raced, push>>
        /\ info' = [info EXCEPT ![c] = None]
        /\ limit' = [limit EXCEPT ![c] = 0]
        /\ bucket' = [bucket EXCEPT ![c] = None]
        /\ counted' = counted \ {c} /\ detached' = detached \ {c}
        /\ rate' = [b \in Buckets |->
                      IF \/ \E d \in Conns \ {c} : bucket[d] = b
                         \/ \E g \in Infos, u \in Users : hub[g][u] = b
                      THEN rate[b] ELSE 0]
        /\ pc' = [pc EXCEPT ![c] = "idle"]
    BY DEF Close, Release, Goto, listVars, autoVars, updateVars
  <1>2. BucketTypes'
    BY <1>1 DEF BucketTypes, Places
  <1>3. Using'
    BY <1>1 DEF Using, Made, BucketTypes
  <1>4. Resting'
    BY <1>1 DEF Resting, Updated
  <1>5. Counting'
    BY <1>1 DEF Counting, BucketTypes
  <1>6. Sharing'
    BY <1>1 DEF Sharing, BucketTypes
  <1>7. \A g \in Infos : \A u \in Users :
           hub[g][u] # None => rate'[hub[g][u]] = rate[hub[g][u]]
    BY <1>1 DEF BucketTypes
  <1>8. Rated'
    BY <1>1, <1>7 DEF Rated, RateOf
  <1> QED BY <1>2, <1>3, <1>4, <1>5, <1>6, <1>8

-----------------------------------------------------------------------------
(* The two monitors that update the limiter.                                *)

LEMMA PhaseInv ==
    ASSUME BucketInv,
           UNCHANGED <<current, renewed, record, hub, rate, todo, half, aim, raced,
                       useVars, push, pc>>,
           listed' \in [Users -> Speeds], fetched' = fetched,
           limited' = limited, over' \subseteq Records,
           poll' \in {"start", "gone", "served"} <=> poll \in {"start", "gone", "served"},
           poll' # "update" => Updated("poll"),
           pull' \in {"idle", "decide"} => Updated("pull")
    PROVE  BucketInv'
  <1> USE DEF BucketInv, useVars
  <1>1. BucketTypes'
    BY DEF BucketTypes
  <1>2. Using' /\ Resting'
    BY DEF Using, Made, Resting, Updated
  <1>3. Counting' /\ Sharing' /\ Rated'
    BY CountingStays, SharingStays, RatedStays
  <1> QED BY <1>1, <1>2, <1>3

LEMMA BeginInv ==
    ASSUME BucketInv, NEW t \in Tasks, NEW users \in SUBSET (Users \X Nat),
           Updated(t), Begins(t, users),
           UNCHANGED <<current, renewed, record, hub, rate, half, raced, useVars,
                       push, pc>>,
           listed' = listed, fetched' \in [Users -> Speeds],
           limited' \subseteq Records, over' \subseteq Records,
           poll' \in {"start", "gone", "served"} <=> poll \in {"start", "gone", "served"},
           \/ t = "poll" /\ poll' = "update" /\ pull' = pull
           \/ t = "pull" /\ pull' \in {"release", "limit"} /\ poll' = poll
    PROVE  BucketInv'
  <1> USE Numbers DEF BucketInv, useVars
  <1>1. /\ todo' = [todo EXCEPT ![t] = IF current = None THEN {} ELSE users]
        /\ aim' = [aim EXCEPT ![t] = IF users = {} THEN None ELSE current]
        /\ half[t] = None /\ half' = half
    BY DEF Begins, Updated
  <1>2. current \in Infos \cup {None}
    BY DEF Using
  <1>3. BucketTypes'
    <2>1. todo' \in [Tasks -> SUBSET (Users \X Nat)]
      BY <1>1 DEF BucketTypes
    <2>2. aim' \in [Tasks -> Infos \cup {None}]
      BY <1>1, <1>2 DEF BucketTypes
    <2> QED BY <2>1, <2>2 DEF BucketTypes
  <1>4. \A s \in Tasks : half[s] # None => s # t /\ aim'[s] = aim[s]
    BY <1>1 DEF BucketTypes
  <1>5. Using'
    <2> SUFFICES ASSUME NEW s \in Tasks, todo'[s] # {} \/ half[s] # None
                 PROVE  aim'[s] # None /\ Made(aim'[s])
      BY <1>1 DEF Using, Made
    <2>1. CASE s = t
      <3>1. current # None /\ users # {} /\ aim'[s] = current
        BY <1>1, <2>1 DEF BucketTypes
      <3> QED BY <3>1 DEF Using
    <2>2. CASE s # t
      BY <1>1, <2>2 DEF Using, BucketTypes
    <2> QED BY <2>1, <2>2
  <1>6. Resting'
    BY <1>1 DEF Resting, Updated, BucketTypes
  <1>7. Counting' /\ Sharing'
    BY CountingStays, SharingStays
  <1>8. Rated'
    BY <1>1, <1>4 DEF Rated, RateOf
  <1> QED BY <1>3, <1>5, <1>6, <1>7, <1>8

LEMMA PollInv ==
    ASSUME BucketInv, PollUsers, UNCHANGED pc
    PROVE  BucketInv'
  <1>1. PICK users \in [Users -> Speeds] :
           /\ fetched' = users
           /\ Begins("poll", {<<u, users[u]>> : u \in {v \in Users : users[v] # listed[v]}})
    BY DEF PollUsers
  <1> DEFINE new == {<<u, users[u]>> : u \in {v \in Users : users[v] # listed[v]}}
  <1>2. new \in SUBSET (Users \X Nat)
    <2>1. \A u \in Users : users[u] \in Nat
      BY Numbers
    <2> QED BY <2>1
  <1>3. "poll" \in Tasks /\ Updated("poll")
    BY DEF Tasks, BucketInv, Resting, PollUsers
  <1>4. /\ UNCHANGED <<current, renewed, record, hub, rate, half, raced, useVars,
                       push, pc, listed, pull>>
        /\ limited' \subseteq Records /\ over' \subseteq Records
        /\ poll = "idle" /\ poll' = "update"
    BY DEF PollUsers, limiterVars, autoVars, connVars, useVars, BucketInv, BucketTypes
  <1>5. Begins("poll", new) /\ fetched' \in [Users -> Speeds]
    BY <1>1
  <1> HIDE DEF new
  <1> QED BY <1>2, <1>3, <1>4, <1>5, BeginInv

LEMMA PullInv ==
    ASSUME BucketInv, UNCHANGED pc,
           PullStart \/ PullRead \/ PullDecide \/ PullEnds
    PROVE  BucketInv'
  <1>n. "pull" \in Tasks /\ Speeds \subseteq Nat /\ LimitSpeed \in Nat
    BY Numbers
  <1>t. /\ limited \subseteq Users \X Speeds /\ over \subseteq Users \X Speeds
        /\ listed \in [Users -> Speeds] /\ fetched \in [Users -> Speeds]
    BY DEF BucketInv, BucketTypes, Records
  <1>1. CASE PullStart
    <2>1. PICK expired \in SUBSET limited :
             limited' = limited \ expired /\ Begins("pull", expired)
      BY <1>1 DEF PullStart
    <2>2. expired \in SUBSET (Users \X Nat) /\ limited' \subseteq Records
      BY <1>n, <1>t, <2>1 DEF Records
    <2>3. Updated("pull")
      BY <1>1 DEF PullStart, BucketInv, Resting
    <2>4. /\ UNCHANGED <<current, renewed, record, hub, rate, half, raced, useVars,
                         push, pc, listed, poll, fetched>>
          /\ over' \subseteq Records /\ pull' = "release"
      BY <1>1, <1>t DEF PullStart, limiterVars, listVars, connVars, useVars, Records
    <2> QED BY <1>n, <1>t, <2>1, <2>2, <2>3, <2>4, BeginInv
  <1>2. CASE PullRead
    <2>1. /\ UNCHANGED <<current, renewed, record, hub, rate, todo, half, aim, raced,
                         useVars, push, pc, listed, fetched, limited, poll>>
          /\ pull' = "decide" /\ Updated("pull")
      BY <1>2 DEF PullRead, limiterVars, listVars, updateVars, connVars, ghostVars,
            useVars
    <2>2. over' \subseteq Records
      BY <1>2, <1>t DEF PullRead, Records
    <2>3. poll' # "update" => Updated("poll")
      BY <2>1 DEF BucketInv, Resting
    <2> QED BY <1>t, <2>1, <2>2, <2>3, PhaseInv
  <1>3. CASE PullDecide
    <2> DEFINE new == {r \in over \ limited : warned[r] >= WarnTimes}
               users == {<<r[1], LimitSpeed>> : r \in new}
    <2>1. limited' = limited \cup new /\ Begins("pull", users)
      BY <1>3 DEF PullDecide
    <2>2. \A r \in new : r \in Users \X Speeds
      BY <1>t
    <2>3. users \in SUBSET (Users \X Nat)
      BY <2>2, <1>n
    <2>4. limited' \subseteq Records
      BY <2>1, <2>2, <1>t DEF Records
    <2>5. Updated("pull")
      BY <1>3 DEF PullDecide, BucketInv, Resting
    <2>6. /\ UNCHANGED <<current, renewed, record, hub, rate, half, raced, useVars,
                         push, pc, listed, poll, fetched>>
          /\ over' = {} /\ pull' = "limit"
      BY <1>3 DEF PullDecide, limiterVars, listVars, connVars, ghostVars, useVars
    <2> HIDE DEF users
    <2> QED BY <1>n, <1>t, <2>1, <2>3, <2>4, <2>5, <2>6, BeginInv
  <1>4. CASE PullEnds
    <2>1. /\ UNCHANGED <<current, renewed, record, hub, rate, todo, half, aim, raced,
                         useVars, push, pc, listed, fetched, limited, over, poll>>
          /\ pull' = "idle" /\ Updated("pull")
      BY <1>4 DEF PullEnds, limiterVars, listVars, updateVars, connVars, ghostVars,
            useVars
    <2>2. poll' # "update" => Updated("poll")
      BY <2>1 DEF BucketInv, Resting
    <2> QED BY <1>t, <2>1, <2>2, PhaseInv DEF Records
  <1> QED BY <1>1, <1>2, <1>3, <1>4

\* The node is replaced: the new InboundInfo is made under the next number.
LEMMA ReplaceInv ==
    ASSUME BucketInv, UNCHANGED pc,
           DropLimiter \/ ServeUsers \/ AddInboundLimiter \/ StartEnds \/ PollEnds
    PROVE  BucketInv'
  <1> USE Numbers DEF BucketInv
  <1>1. CASE DropLimiter
    <2>1. /\ UNCHANGED <<record, hub, rate, listed, limited, over, pull, todo, half,
                         aim, raced, useVars, push, pc>>
          /\ poll = "idle" /\ poll' = "gone" /\ current' = None
          /\ renewed' = renewed + 1 /\ renewed < MaxRetags
          /\ fetched' \in [Users -> Speeds]
      BY <1>1 DEF DropLimiter, autoVars, updateVars, connVars, useVars
    <2> USE DEF useVars
    <2>2. renewed \in Nat /\ \A g \in Infos : Made(g) => Made(g)'
      BY <2>1 DEF Made, BucketTypes
    <2>3. BucketTypes'
      BY <2>1, <2>2 DEF BucketTypes
    <2>4. Using'
      BY <2>1, <2>2 DEF Using, Made, BucketTypes
    <2>5. Resting'
      BY <2>1 DEF Resting, Updated
    <2>6. Counting' /\ Sharing' /\ Rated'
      BY <2>1, CountingStays, SharingStays, RatedStays
    <2> QED BY <2>3, <2>4, <2>5, <2>6
  <1>2. CASE ServeUsers
    <2>1. /\ UNCHANGED <<current, renewed, record, hub, rate, todo, half, aim, raced,
                         useVars, push, pc, listed, fetched, limited, over, pull>>
          /\ poll = "gone" /\ poll' = "served"
      BY <1>2 DEF ServeUsers, limiterVars, autoVars, updateVars, connVars, ghostVars,
            useVars
    <2> QED BY <2>1, PhaseInv DEF Resting, BucketTypes
  <1>3. CASE AddInboundLimiter
    <2> DEFINE new == renewed + 1
    <2>1. /\ UNCHANGED <<renewed, hub, rate, listed, fetched, limited, over, pull,
                         todo, half, aim, raced, useVars, push, pc>>
          /\ poll \in {"served", "start"} /\ current' = new
          /\ poll' = IF poll = "start" THEN "rules" ELSE "update"
          /\ record' = [record EXCEPT ![new] = fetched]
      BY <1>3 DEF AddInboundLimiter, autoVars, updateVars, connVars, ghostVars, useVars
    <2> USE DEF useVars
    <2>2. renewed \in 0..MaxRetags /\ new \in Infos
      BY DEF BucketTypes, Infos
    <2>3. \A g \in Infos : Made(g) => g # new
      BY <2>1, <2>2 DEF Made
    <2>4. BucketTypes'
      <3>1. fetched \in [Users -> Nat]
        BY DEF BucketTypes
      <3>2. record' \in [Infos -> [Users -> Nat]]
        BY <2>1, <3>1 DEF BucketTypes
      <3> QED BY <2>1, <3>2 DEF BucketTypes
    <2>5. Using'
      BY <2>1, <2>2 DEF Using, Made
    <2>6. Resting'
      BY <2>1 DEF Resting, Updated
    <2>7. Counting' /\ Sharing'
      BY <2>1, CountingStays, SharingStays
    <2>8. Rated'
      <3>1. \A g \in Infos : \A u \in Users :
               hub[g][u] # None => g # new /\ record'[g] = record[g]
        BY <2>1, <2>3 DEF Using, BucketTypes
      <3>2. \A t \in Tasks : half[t] # None =>
               aim[t] \in Infos /\ record'[aim[t]] = record[aim[t]]
        BY <2>1, <2>3 DEF Using, BucketTypes
      <3> QED BY <2>1, <3>1, <3>2 DEF Rated, RateOf
    <2> QED BY <2>4, <2>5, <2>6, <2>7, <2>8
  <1>4. CASE PollEnds
    <2>1. /\ UNCHANGED <<current, renewed, record, hub, rate, todo, half, aim, raced,
                         useVars, push, pc, fetched, limited, over, pull>>
          /\ poll = "update" /\ poll' = "idle" /\ Updated("poll")
          /\ listed' = fetched
      BY <1>4 DEF PollEnds, limiterVars, autoVars, updateVars, connVars, ghostVars,
            useVars
    <2> QED BY <2>1, PhaseInv DEF Resting, BucketTypes
  <1>5. CASE StartEnds
    <2>1. /\ UNCHANGED <<current, renewed, record, hub, rate, todo, half, aim, raced,
                         useVars, push, pc, listed, fetched, limited, over, pull>>
          /\ poll = "rules" /\ poll' = "idle"
      BY <1>5 DEF StartEnds, limiterVars, autoVars, updateVars, connVars, ghostVars,
            useVars
    <2> QED BY <2>1, PhaseInv DEF Resting, BucketTypes
  <1> QED BY <1>1, <1>2, <1>3, <1>4, <1>5

-----------------------------------------------------------------------------
(* An update: the record first, then the bucket.                            *)

LEMMA UpdateRecordInv ==
    ASSUME BucketInv, NEW t \in Tasks, UpdateRecord(t), UNCHANGED pc
    PROVE  BucketInv'
  <1> USE Numbers DEF BucketInv
  <1>1. PICK x \in todo[t] :
           /\ todo' = [todo EXCEPT ![t] = @ \ {x}]
           /\ record' = [record EXCEPT ![aim[t]] = [record[aim[t]] EXCEPT ![x[1]] = x[2]]]
           /\ half' = [half EXCEPT ![t] =
                         [user |-> x[1], rate |-> determineRate(NodeSpeed, x[2])]]
           /\ raced' = IF \E s \in Tasks \ {t} : half[s] # None /\ half[s].user = x[1]
                       THEN raced \cup {<<aim[t], x[1]>>} ELSE raced
    BY DEF UpdateRecord
  <1>2. /\ UNCHANGED <<current, renewed, hub, rate, listed, fetched, poll, limited,
                       over, pull, aim, useVars, push, pc>>
        /\ half[t] = None
    BY DEF UpdateRecord, listVars, autoVars, connVars, useVars
  <1> DEFINE g == aim[t]
             u == x[1]
             r == determineRate(NodeSpeed, x[2])
             h == [user |-> u, rate |-> r]
  <1>3. todo[t] \subseteq Users \X Nat /\ todo[t] # {}
    BY DEF BucketTypes
  <1>4. u \in Users /\ x[2] \in Nat
    BY <1>3
  <1>5. r \in Nat
    BY <1>4, RateIsNat
  <1>6. g \in Infos /\ Made(g)
    BY <1>3 DEF Using, BucketTypes
  <1>7. h \in Halves /\ h # None /\ h.user = u /\ h.rate = r
    <2>1. h \in Halves
      BY <1>4, <1>5 DEF Halves
    <2>2. None \notin Halves
      BY SpeedAssumption DEF Halves
    <2> QED BY <2>1, <2>2
  <1>8. half' = [half EXCEPT ![t] = h]
    BY <1>1
  <1>9. record'[g][u] = x[2]
    <2>1. record[g] \in [Users -> Nat] /\ record \in [Infos -> [Users -> Nat]]
      BY <1>6 DEF BucketTypes
    <2> QED BY <2>1, <1>1, <1>4, <1>6
  <1>10. \A k \in Infos : \A v \in Users :
            k # g \/ v # u => record'[k][v] = record[k][v]
    BY <1>1, <1>4, <1>6 DEF BucketTypes
  <1> HIDE DEF h, r
  <1>11. BucketTypes'
    <2>1. todo' \in [Tasks -> SUBSET (Users \X Nat)]
      BY <1>1 DEF BucketTypes
    <2>2. half' \in [Tasks -> Halves \cup {None}]
      BY <1>7, <1>8 DEF BucketTypes
    <2>3. record' \in [Infos -> [Users -> Nat]]
      <3>1. record[g] \in [Users -> Nat]
        BY <1>6 DEF BucketTypes
      <3>2. [record[g] EXCEPT ![u] = x[2]] \in [Users -> Nat]
        BY <3>1, <1>4
      <3> QED BY <1>1, <3>2 DEF BucketTypes
    <2> QED BY <1>2, <2>1, <2>2, <2>3 DEF BucketTypes, useVars
  <1>12. Using'
    BY <1>1, <1>2, <1>3, <1>6, <1>8 DEF Using, Made, BucketTypes, useVars
  <1>13. Resting'
    BY <1>1, <1>2, <1>3, <1>8 DEF Resting, Updated, BucketTypes
  <1>14. Counting' /\ Sharing'
    BY <1>2, CountingStays, SharingStays DEF useVars
  <1>15. Rated'
    <2>1. ASSUME NEW k \in Infos, NEW v \in Users, hub[k][v] # None,
                 <<k, v>> \notin raced',
                 ~\E s \in Tasks : aim[s] = k /\ half'[s] # None /\ half'[s].user = v
          PROVE  rate[hub[k][v]] = determineRate(NodeSpeed, record'[k][v])
      <3>1. k # g \/ v # u
        BY <2>1, <1>7, <1>8 DEF BucketTypes
      <3>2. ~\E s \in Tasks : aim[s] = k /\ half[s] # None /\ half[s].user = v
        BY <2>1, <1>2, <1>8 DEF BucketTypes
      <3>3. <<k, v>> \notin raced
        BY <2>1, <1>1
      <3>4. rate[hub[k][v]] = RateOf(k, v)
        BY <2>1, <3>2, <3>3 DEF Rated
      <3> QED BY <3>1, <3>4, <1>10 DEF RateOf
    <2>2. ASSUME NEW s \in Tasks, half'[s] # None,
                 <<aim[s], half'[s].user>> \notin raced'
          PROVE  half'[s].rate = determineRate(NodeSpeed, record'[aim[s]][half'[s].user])
      <3>1. CASE s = t
        <4>1. half'[t] = h
          BY <1>8 DEF BucketTypes
        <4> QED BY <3>1, <4>1, <1>7, <1>9 DEF r
      <3>2. CASE s # t
        <4>1. half'[s] = half[s] /\ half[s] # None
          BY <3>2, <2>2, <1>8 DEF BucketTypes
        <4>2. half[s].user \in Users /\ aim[s] \in Infos
          BY <4>1 DEF BucketTypes, Halves, Using
        <4>3. <<aim[s], half[s].user>> \notin raced
          BY <4>1, <2>2, <1>1
        <4>4. aim[s] # g \/ half[s].user # u
          BY <4>1, <3>2, <2>2, <1>1
        <4>5. half[s].rate = RateOf(aim[s], half[s].user)
          BY <4>1, <4>3 DEF Rated
        <4> QED BY <4>1, <4>2, <4>4, <4>5, <1>10 DEF RateOf
      <3> QED BY <3>1, <3>2
    <2> QED BY <1>2, <2>1, <2>2 DEF Rated, RateOf
  <1> QED BY <1>11, <1>12, <1>13, <1>14, <1>15

LEMMA UpdateBucketInv ==
    ASSUME BucketInv, NEW t \in Tasks, UpdateBucket(t), UNCHANGED pc
    PROVE  BucketInv'
  <1> USE Numbers DEF BucketInv
  <1> DEFINE g == aim[t]
             u == half[t].user
             r == half[t].rate
  <1>1. /\ UNCHANGED <<current, renewed, record, online, listed, fetched, poll,
                       limited, over, pull, todo, info, limit, bucket, counted,
                       raced, push, pc>>
        /\ half[t] # None
        /\ half' = [half EXCEPT ![t] = None]
        /\ aim' = [aim EXCEPT ![t] = IF todo[t] = {} THEN None ELSE g]
    BY DEF UpdateBucket, listVars, autoVars, connVars
  <1>2. g \in Infos /\ Made(g) /\ u \in Users /\ r \in Nat
    BY <1>1 DEF Using, BucketTypes, Halves
  <1>3. r = RateOf(g, u) \/ <<g, u>> \in raced
    BY <1>1 DEF Rated
  <1>4. hub \in [Infos -> [Users -> Buckets \cup {None}]] /\ rate \in [Buckets -> Nat]
    BY DEF BucketTypes
  <1>5. \A k \in Infos : \A v \in Users : hub[k][v] \in Buckets \cup {None}
    BY <1>4
  <1>6. /\ half' \in [Tasks -> Halves \cup {None}]
        /\ aim' \in [Tasks -> Infos \cup {None}]
        /\ \A s \in Tasks \ {t} : half'[s] = half[s] /\ aim'[s] = aim[s]
        /\ half'[t] = None /\ (todo[t] # {} => aim'[t] = g)
    BY <1>1, <1>2 DEF BucketTypes
  <1>7. Resting'
    BY <1>1, <1>6 DEF Resting, Updated, BucketTypes
  <1>8. \A s \in Tasks : todo[s] # {} \/ half'[s] # None =>
           aim'[s] # None /\ Made(aim'[s])
    BY <1>2, <1>6 DEF Using
  <1>9. \A s \in Tasks : half'[s] # None =>
           \/ half'[s].rate = RateOf(aim'[s], half'[s].user)
           \/ <<aim'[s], half'[s].user>> \in raced
    BY <1>6 DEF Rated
  <1>10. \A k \in Infos : \A v \in Users :
           (\E s \in Tasks : aim[s] = k /\ half[s] # None /\ half[s].user = v) =>
              \/ k = g /\ v = u
              \/ \E s \in Tasks : aim'[s] = k /\ half'[s] # None /\ half'[s].user = v
    BY <1>6
  <1>11. CASE /\ rate' = IF hub[g][u] = None THEN rate
                         ELSE [rate EXCEPT ![hub[g][u]] = r]
              /\ UNCHANGED <<hub, detached>>
    <2>1. BucketTypes'
      <3>1. rate' \in [Buckets -> Nat]
        BY <1>2, <1>4, <1>5, <1>11
      <3> QED BY <1>1, <1>6, <1>11, <3>1 DEF BucketTypes
    <2>2. Using'
      BY <1>1, <1>8, <1>11 DEF Using, Made
    <2>3. Counting' /\ Sharing'
      BY <1>1, <1>11, CountingStays, SharingStays
    <2>4. ASSUME NEW k \in Infos, NEW v \in Users, hub[k][v] # None,
                 <<k, v>> \notin raced,
                 ~\E s \in Tasks : aim'[s] = k /\ half'[s] # None /\ half'[s].user = v
          PROVE  rate'[hub[k][v]] = RateOf(k, v)
      <3>1. hub[k][v] \in Buckets
        BY <2>4, <1>5
      <3>2. CASE k = g /\ v = u
        BY <3>1, <3>2, <2>4, <1>3, <1>4, <1>11
      <3>3. CASE ~(k = g /\ v = u)
        <4>0. ~\E s \in Tasks : aim[s] = k /\ half[s] # None /\ half[s].user = v
          BY <3>3, <2>4, <1>10
        <4>1. rate[hub[k][v]] = RateOf(k, v)
          BY <4>0, <2>4 DEF Rated
        <4>2. hub[g][u] # hub[k][v]
          <5>1. \A i, j \in Infos : \A w, x \in Users :
                   hub[i][w] # None /\ hub[i][w] = hub[j][x] => i = j /\ w = x
            BY DEF Rated
          <5> HIDE DEF g, u
          <5>2. hub[k][v] # None /\ hub[k][v] = hub[g][u] => k = g /\ v = u
            BY <5>1, <1>2
          <5> QED BY <5>2, <3>3, <2>4
        <4> QED BY <4>1, <4>2, <3>1, <1>4, <1>5, <1>2, <1>11
      <3> QED BY <3>2, <3>3
    <2>5. Rated'
      BY <1>1, <1>9, <1>11, <2>4 DEF Rated, RateOf
    <2> QED BY <1>7, <2>1, <2>2, <2>3, <2>5
  <1>12. CASE /\ hub' = [hub EXCEPT ![g] = [hub[g] EXCEPT ![u] = None]]
              /\ detached' = detached \cup {c \in Conns : info[c] = g /\ UserOf[c] = u}
              /\ UNCHANGED rate
    <2>1. \A k \in Infos : \A v \in Users :
             hub'[k][v] = IF k = g /\ v = u THEN None ELSE hub[k][v]
      BY <1>2, <1>4, <1>12
    <2>2. BucketTypes'
      <3>1. hub[g] \in [Users -> Buckets \cup {None}]
        BY <1>2, <1>4
      <3>2. [hub[g] EXCEPT ![u] = None] \in [Users -> Buckets \cup {None}]
        BY <3>1
      <3>3. hub' \in [Infos -> [Users -> Buckets \cup {None}]]
        BY <1>4, <1>12, <3>2
      <3> QED BY <1>1, <1>6, <1>12, <3>3 DEF BucketTypes
    <2>3. Using'
      BY <1>1, <1>8, <2>1 DEF Using, Made
    <2>4. Counting'
      BY <1>1, <1>12 DEF Counting
    <2>5. Sharing'
      <3> SUFFICES ASSUME NEW c \in counted \ detached', bucket[c] # None
                   PROVE  bucket[c] = hub'[info[c]][UserOf[c]]
        BY <1>1 DEF Sharing
      <3>1. c \in Conns /\ info[c] \in Infos /\ UserOf[c] \in Users
        BY DEF Counting, BucketTypes
      <3>2. c \notin detached /\ ~(info[c] = g /\ UserOf[c] = u)
        BY <3>1, <1>12
      <3>3. bucket[c] = hub[info[c]][UserOf[c]]
        BY <3>2 DEF Sharing
      <3> QED BY <2>1, <3>1, <3>2, <3>3
    <2>6. Rated'
      <3>1. \A k, l \in Infos : \A v, w \in Users :
               hub'[k][v] # None /\ hub'[k][v] = hub'[l][w] => k = l /\ v = w
        BY <2>1 DEF Rated
      <3>2. ASSUME NEW k \in Infos, NEW v \in Users, hub'[k][v] # None,
                   <<k, v>> \notin raced,
                   ~\E s \in Tasks : aim'[s] = k /\ half'[s] # None /\ half'[s].user = v
            PROVE  rate[hub'[k][v]] = RateOf(k, v)
        BY <3>2, <2>1, <1>10 DEF Rated
      <3> QED BY <1>1, <1>9, <1>12, <3>1, <3>2 DEF Rated, RateOf
    <2> QED BY <1>7, <2>2, <2>3, <2>4, <2>5, <2>6
  <1> QED BY <1>11, <1>12 DEF UpdateBucket

-----------------------------------------------------------------------------
(* The push and its sweep.                                                  *)

LEMMA SweepInv ==
    ASSUME BucketInv, UNCHANGED pc,
           (\E u \in Users : SweepLook(u)) \/ SweepDrop \/ SweepCollect
    PROVE  BucketInv'
  <1> USE Numbers DEF BucketInv, At
  <1>1. ASSUME NEW u \in Users, SweepLook(u) PROVE BucketInv'
    <2>1. /\ UNCHANGED <<bookVars, useVars>> /\ push.pc = "look"
          /\ push' = IF hub[push.info][u] # None /\ u \notin online[push.info]
                     THEN At("drop", push.info, push.left \ {u}, u)
                     ELSE At("look", push.info, push.left \ {u}, None)
      BY <1>1 DEF SweepLook, limiterVars, listVars, autoVars, updateVars, connVars,
            ghostVars, bookVars, useVars
    <2> USE DEF bookVars, useVars
    <2>2. push.info \in Infos
      BY <2>1 DEF BucketTypes
    <2>3. BucketTypes'
      BY <2>1, <2>2 DEF BucketTypes
    <2>4. Using' /\ Resting' /\ Sharing' /\ Rated'
      BY <2>1, UsingStays, RestingStays, SharingStays, RatedStays
    <2>5. Counting'
      BY <2>1 DEF Counting
    <2> QED BY <2>3, <2>4, <2>5
  <1>2. CASE SweepDrop
    <2> DEFINE g == push.info
               u == push.user
    <2>1. /\ UNCHANGED <<current, renewed, record, rate, listed, fetched, poll, limited,
                         over, pull, todo, half, aim, raced, useVars>>
          /\ push.pc = "drop"
          /\ hub' = [hub EXCEPT ![g] = [hub[g] EXCEPT ![u] = None]]
          /\ push' = At("look", g, push.left, None)
      BY <1>2 DEF SweepDrop, listVars, autoVars, updateVars, connVars, ghostVars, useVars
    <2> USE DEF useVars
    <2>2. g \in Infos /\ u \in Users
      BY <2>1 DEF BucketTypes
    <2>3. hub \in [Infos -> [Users -> Buckets \cup {None}]]
      BY DEF BucketTypes
    <2>4. \A k \in Infos : \A v \in Users :
             hub'[k][v] = IF k = g /\ v = u THEN None ELSE hub[k][v]
      BY <2>1, <2>2, <2>3
    <2>5. BucketTypes'
      <3>1. hub[g] \in [Users -> Buckets \cup {None}]
        BY <2>2, <2>3
      <3>2. [hub[g] EXCEPT ![u] = None] \in [Users -> Buckets \cup {None}]
        BY <3>1
      <3>3. hub' \in [Infos -> [Users -> Buckets \cup {None}]]
        BY <2>1, <2>3, <3>2
      <3> QED BY <2>1, <2>2, <3>3 DEF BucketTypes
    <2>6. Using'
      BY <2>1, <2>4 DEF Using, Made
    <2>7. Resting'
      BY <2>1, RestingStays
    <2>8. Counting'
      BY <2>1 DEF Counting
    <2>9. Sharing'
      <3> SUFFICES ASSUME NEW c \in counted \ detached, bucket[c] # None
                   PROVE  bucket[c] = hub'[info[c]][UserOf[c]]
        BY <2>1 DEF Sharing
      <3>1. c \in Conns /\ info[c] \in Infos /\ UserOf[c] \in Users
        BY DEF Counting, BucketTypes
      <3>2. ~(info[c] = g /\ UserOf[c] = u)
        BY <2>1 DEF Counting
      <3> QED BY <2>4, <3>1, <3>2 DEF Sharing
    <2>10. Rated'
      <3>1. \A k, l \in Infos : \A v, w \in Users :
               hub'[k][v] # None /\ hub'[k][v] = hub'[l][w] => k = l /\ v = w
        BY <2>4 DEF Rated
      <3>2. ASSUME NEW k \in Infos, NEW v \in Users, hub'[k][v] # None,
                   <<k, v>> \notin raced,
                   ~\E s \in Tasks : aim[s] = k /\ half[s] # None /\ half[s].user = v
            PROVE  rate[hub'[k][v]] = RateOf(k, v)
        BY <3>2, <2>4 DEF Rated
      <3>3. \A s \in Tasks : half[s] # None =>
               \/ half[s].rate = RateOf(aim[s], half[s].user)
               \/ <<aim[s], half[s].user>> \in raced
        BY DEF Rated
      <3> QED BY <2>1, <3>1, <3>2, <3>3 DEF Rated, RateOf
    <2> QED BY <2>5, <2>6, <2>7, <2>8, <2>9, <2>10
  <1>3. CASE SweepCollect
    <2>1. /\ UNCHANGED <<bookVars, info, limit, bucket, detached>>
          /\ push.pc = "look" /\ push'.pc = "results"
          /\ online' = [online EXCEPT ![push.info] = {}]
          /\ counted' = {c \in counted : info[c] # push.info}
      BY <1>3 DEF SweepCollect, listVars, autoVars, updateVars, ghostVars, bookVars
    <2> USE DEF bookVars
    <2>2. BucketTypes'
      BY <2>1 DEF BucketTypes
    <2>3. Using' /\ Resting' /\ Rated'
      BY <2>1, UsingStays, RestingStays, RatedStays
    <2>4. Counting'
      BY <2>1 DEF Counting, BucketTypes
    <2>5. Sharing'
      BY <2>1 DEF Sharing
    <2> QED BY <2>2, <2>3, <2>4, <2>5
  <1> QED BY <1>1, <1>2, <1>3

-----------------------------------------------------------------------------
(* Every step, and the theorem.                                             *)

\* A connection's steps that change nothing but its place.
LEMMA WalkInv ==
    ASSUME BucketInv, NEW c \in Conns, NEW place \in Places \ {"idle", "arrived"},
           Goto(c, place), UNCHANGED <<bookVars, useVars, push>>
    PROVE  BucketInv'
  BY Places1, StillInv

LEMMA StepInv ==
    ASSUME BucketInv, NEW c \in Conns, Step(c)
    PROVE  BucketInv'
  <1> DEFINE far == Places \ {"idle", "arrived"}
             still == UNCHANGED <<bookVars, useVars, push>>
  <1>s. UNCHANGED speedVars => still
    BY DEF speedVars, bookVars, useVars, limiterVars, listVars, autoVars, updateVars,
           connVars, ghostVars
  <1>p. /\ First \in Places \ {"idle"} /\ AfterGate \in far /\ AfterLink \in far
        /\ "refused" \in far /\ "dispatched" \in far /\ "record" \in far
        /\ "write" \in far /\ "store" \in far /\ "judge" \in far
    BY DEF First, AfterGate, AfterLink, Places
  <1>w. ASSUME NEW place \in far, Goto(c, place), still PROVE BucketInv'
    BY <1>w, WalkInv
  <1> HIDE DEF far, still
  <1>1. ASSUME NEW late \in BOOLEAN, Dispatch(c, late) PROVE BucketInv'
    <2>1. PICK g : (g = None \/ g = current) /\ LoadRecord(c, g)
      BY <1>1 DEF Dispatch
    <2>2. pc[c] = "idle" /\ Goto(c, First)
      BY <1>1 DEF Dispatch
    <2> QED BY <1>p, <2>1, <2>2, DispatchInv
  <1>2. ASSUME NEW late \in BOOLEAN, DispatchLink(c, late) PROVE BucketInv'
    <2>1. LoadRecord(c, None) /\ pc[c] = "idle" /\ Goto(c, AfterLink)
      BY <1>2 DEF DispatchLink
    <2>2. AfterLink \in Places \ {"idle"}
      BY DEF AfterLink, Places
    <2> QED BY <2>1, <2>2, DispatchInv
  <1>3. CASE Count(c)
    BY <1>3, CountInv
  <1>4. CASE Gate(c)
    BY <1>4, <1>s, <1>p, <1>w DEF Gate
  <1>5. CASE Link(c)
    BY <1>5, LinkInv
  <1>6. CASE Transfer(c)
    <2>1. UNCHANGED <<bookVars, useVars, push, pc>>
      BY <1>6 DEF Transfer, Carry, bookVars, useVars, limiterVars, listVars, autoVars,
            updateVars, connVars, ghostVars
    <2>2. pc \in [Conns -> Places]
      BY DEF BucketInv, BucketTypes
    <2> QED BY <2>1, <2>2, StillInv
  <1>7. CASE Close(c)
    BY <1>7, CloseBucketInv
  <1>8. CASE Judge(c)
    BY <1>8, <1>s, <1>p, <1>w DEF Judge
  <1>9. CASE Route(c)
    BY <1>9, <1>s, <1>p, <1>w DEF Route
  <1>10. CASE Record(c)
    BY <1>10, <1>s, <1>p, <1>w DEF Record
  <1> QED BY <1>1, <1>2, <1>3, <1>4, <1>5, <1>6, <1>7, <1>8, <1>9, <1>10 DEF Step

LEMMA MonitorsInv ==
    ASSUME BucketInv, Monitors
    PROVE  BucketInv'
  <1>p. pc \in [Conns -> Places]
    BY DEF BucketInv, BucketTypes
  <1>pc. UNCHANGED pc
    BY DEF Monitors, Replace, Serve, StartRules, AskRules, Collect, others
  <1>q. ASSUME UNCHANGED <<bookVars, useVars>>,
               push'.pc \notin {"look", "drop"}
                  \/ (push'.pc = "look" /\ push'.info \in Infos)
        PROVE  BucketInv'
    BY <1>p, <1>pc, <1>q, StillInv
  <1>1. CASE Poll
    BY <1>1, <1>pc, PollInv DEF Poll
  <1>2. CASE AddInboundLimiter \/ PollEnds
    BY <1>2, <1>pc, ReplaceInv
  <1>3. CASE Update
    BY <1>3, <1>pc, UpdateRecordInv, UpdateBucketInv DEF Update
  <1>4. CASE Pull
    BY <1>4, <1>pc, PullInv DEF Pull
  <1>5. CASE Push
    <2>1. ASSUME NEW accepted \in BOOLEAN, NEW next, PushReport(accepted, next),
                 next.pc \notin {"look", "drop"}
                    \/ (next.pc = "look" /\ next.info \in Infos)
          PROVE  BucketInv'
      <3>1. UNCHANGED <<bookVars, useVars>> /\ push' = next
        BY <2>1 DEF PushReport, bookVars, useVars, limiterVars, listVars, autoVars,
              updateVars, connVars, ghostVars
      <3> QED BY <2>1, <3>1, <1>q
    <2>2. ASSUME NEW accepted \in BOOLEAN, PushReport(accepted, NoPush)
          PROVE  BucketInv'
      BY <2>2, <2>1 DEF NoPush, At
    <2>3. ASSUME NEW accepted \in BOOLEAN, current # None,
                 PushReport(accepted, At("look", current, Users, None))
          PROVE  BucketInv'
      <3>1. current \in Infos
        BY <2>3 DEF BucketInv, Using
      <3> QED BY <2>3, <3>1, <2>1 DEF At
    <2>4. CASE PushReport(FALSE, At("results", None, {}, None))
      BY <2>4, <2>1 DEF At
    <2>5. CASE (\E u \in Users : SweepLook(u)) \/ SweepDrop \/ SweepCollect
      BY <2>5, <1>pc, SweepInv
    <2> QED BY <1>5, <2>2, <2>3, <2>4, <2>5 DEF Push
  <1>6. CASE Replace
    BY <1>6, <1>pc, ReplaceInv DEF Replace
  <1>7. CASE Serve \/ StartRules
    BY <1>7, <1>pc, ReplaceInv DEF Serve, StartRules
  <1>9. CASE AskRules
    <2>1. UNCHANGED <<bookVars, useVars, push>>
      BY <1>9 DEF AskRules, speedVars, bookVars, useVars, limiterVars, listVars, autoVars,
            updateVars, connVars, ghostVars
    <2> QED BY <2>1, <1>p, <1>pc, StillInv
  <1>8. CASE Collect
    <2>1. UNCHANGED <<bookVars, useVars>>
      BY <1>8 DEF Collect, quiet, bookVars, useVars, limiterVars, listVars, autoVars,
            updateVars, connVars, ghostVars
    <2>2. push'.pc \notin {"look", "drop"}
      BY <1>8 DEF Collect, NoPush, At
    <2> QED BY <2>1, <2>2, <1>q
  <1> QED BY <1>1, <1>2, <1>3, <1>4, <1>5, <1>6, <1>7, <1>8, <1>9 DEF Monitors

LEMMA BucketInvNext ==
    ASSUME BucketInv, [Next]_vars
    PROVE  BucketInv'
  <1>p. pc \in [Conns -> Places]
    BY DEF BucketInv, BucketTypes
  <1>s. UNCHANGED speedVars /\ UNCHANGED pc => BucketInv'
    <2> SUFFICES ASSUME UNCHANGED speedVars, UNCHANGED pc PROVE BucketInv'
      OBVIOUS
    <2>1. UNCHANGED <<bookVars, useVars, push>>
      BY DEF speedVars, bookVars, useVars, limiterVars, listVars, autoVars, updateVars,
             connVars, ghostVars
    <2> QED BY <1>p, <2>1, StillInv
  <1>1. CASE \E c \in Conns : Step(c)
    BY <1>1, StepInv
  <1>2. CASE MapFault
    BY <1>2, <1>s DEF MapFault
  <1>3. CASE Monitors
    BY <1>3, MonitorsInv
  <1>4. CASE Caches
    BY <1>4, <1>s DEF Caches
  <1>5. CASE UNCHANGED vars
    BY <1>5, <1>s DEF vars
  <1> QED BY <1>1, <1>2, <1>3, <1>4, <1>5 DEF Next

\* GetUserBucket, UpdateInboundLimiter, GetOnlineDevice: the connections by
\* which a user is online share the bucket of the BucketHub, for any number of
\* users and connections, and it has the rate of the record, or is about to;
\* unless an update lifted the limit or a sweep had looked before, the bucket
\* was made from an older record, or two updates crossed.
THEOREM OnlineShareBucketHolds == Spec => []OnlineShareBucket
  <1>1. BucketInv => OnlineShareBucket
    <2> SUFFICES ASSUME BucketInv,
                        NEW c \in (counted \cap Linked) \ detached, bucket[c] # None
                 PROVE  /\ bucket[c] = hub[info[c]][UserOf[c]]
                        /\ \/ rate[bucket[c]] = RateOf(info[c], UserOf[c])
                           \/ <<info[c], UserOf[c]>> \in raced
                           \/ \E t \in Tasks : /\ aim[t] = info[c] /\ half[t] # None
                                               /\ half[t].user = UserOf[c]
      BY DEF OnlineShareBucket
    <2>1. bucket[c] = hub[info[c]][UserOf[c]]
      BY DEF BucketInv, Sharing
    <2>2. info[c] \in Infos /\ UserOf[c] \in Users
      BY Numbers DEF BucketInv, BucketTypes, Counting, Linked
    <2> QED BY <2>1, <2>2 DEF BucketInv, Rated
  <1> QED BY <1>1, BucketInvInit, BucketInvNext, PTL DEF Spec
-----------------------------------------------------------------------------
(* The other types.                                                          *)

LEMMA FailuresHold ==
    failures \in 0..MaxFailures /\ [GlobalNext]_globalVars => failures' \in 0..MaxFailures
  <1> SUFFICES ASSUME failures \in 0..MaxFailures, [GlobalNext]_globalVars
               PROVE  failures' \in 0..MaxFailures
    OBVIOUS
  <1>1. failures' = failures \/ (failures < MaxFailures /\ failures' = failures + 1)
    BY DEF GlobalNext, globalVars, Admit, AdmitUnchecked, Refuse, Cache, Fill, ExpireLocal,
           ExpireRemote, OtherNode, PushLocal, PushRemote, PushFails
  <1> QED BY <1>1, GlobalAssumption

Limits == Speeds \cup {LimitSpeed}
Caps   == Speeds \cup {0, LimitSpeed}
SpeedRest ==
    /\ record \in [Infos -> [Users -> Caps]]
    /\ todo \in [Tasks -> SUBSET (Users \X Limits)]
    /\ warned \in [Records -> 0..WarnTimes]
    /\ sample \subseteq Users /\ pending \subseteq Users /\ read \subseteq Users
    /\ suspect \subseteq Users /\ disturbed \subseteq Users
    /\ pull \in {"idle", "release", "decide", "limit"}
    /\ push.pc \in {"idle", "look", "drop", "results", "read", "report"}
    /\ raced \subseteq Infos \X Users /\ detached \subseteq Conns

restVars == <<record, todo, warned, sample, pending, read, suspect, disturbed, pull,
              raced, detached>>

\* The steps of a connection.
LEMMA StepRest ==
    ASSUME BucketInv, SpeedRest, NEW c \in Conns, Step(c)
    PROVE  SpeedRest'
  <1>k. UNCHANGED <<restVars, push>> => SpeedRest'
    BY DEF restVars, SpeedRest
  <1>t. BucketTypes
    BY DEF BucketInv
  <1>1. CASE \E late \in BOOLEAN : Dispatch(c, late) \/ DispatchLink(c, late)
    BY <1>1, <1>k DEF Dispatch, DispatchLink, LoadRecord, restVars, limiterVars, autoVars,
          trafficVars, updateVars, ghostVars
  <1>2. CASE Count(c)
    <2>1. \/ CountOnline(c)
          \/ UNCHANGED speedVars
      BY <1>2 DEF Count
    <2>2. CASE CountOnline(c)
      BY <2>2 DEF CountOnline, SpeedRest, autoVars, trafficVars, updateVars
    <2>3. CASE UNCHANGED speedVars
      BY <2>3, <1>k DEF speedVars, restVars, limiterVars, autoVars, trafficVars, updateVars,
            ghostVars
    <2> QED BY <2>1, <2>2, <2>3
  <1>3. CASE Link(c)
    <2>1. /\ raced' = raced \/ (info[c] # None /\ raced' = raced \cup {<<info[c], UserOf[c]>>})
          /\ UNCHANGED <<record, todo, warned, sample, pending, read, suspect, disturbed,
                         pull, detached, push>>
      BY <1>3 DEF Link, TakeBucket, NewBucket, autoVars, trafficVars, updateVars
    <2>2. UserOf[c] \in Users /\ (info[c] = None \/ info[c] \in Infos)
      BY <1>t, Numbers DEF BucketTypes
    <2> QED BY <2>1, <2>2 DEF SpeedRest
  <1>4. CASE Transfer(c)
    <2>1. /\ read' \subseteq read /\ suspect' \subseteq suspect \cup {UserOf[c]}
          /\ UNCHANGED <<record, todo, warned, sample, pending, disturbed,
                         pull, raced, detached, push>>
      BY <1>4 DEF Transfer, Carry, limiterVars, autoVars, updateVars, ghostVars
    <2>2. UserOf[c] \in Users
      BY Numbers
    <2> QED BY <2>1, <2>2 DEF SpeedRest
  <1>5. CASE Close(c)
    BY <1>5 DEF Close, Release, SpeedRest, autoVars, trafficVars, updateVars
  <1>6. CASE Gate(c) \/ Judge(c) \/ Route(c) \/ Record(c)
    BY <1>6, <1>k DEF Gate, Judge, Route, Record, speedVars, restVars, limiterVars, autoVars,
          trafficVars, updateVars, ghostVars
  <1> QED BY <1>1, <1>2, <1>3, <1>4, <1>5, <1>6 DEF Step

\* An update of the limiter: users with a limit that is due.
LEMMA BeginsRest ==
    ASSUME SpeedRest, NEW t, NEW users \in SUBSET (Users \X Limits), Begins(t, users)
    PROVE  todo' \in [Tasks -> SUBSET (Users \X Limits)]
  BY DEF Begins, SpeedRest

\* The poll and the replacement of the node.
LEMMA PollRest ==
    ASSUME BucketInv, SpeedRest,
           \/ PollUsers \/ AddInboundLimiter \/ StartEnds \/ PollEnds
           \/ DropLimiter \/ ServeUsers
    PROVE  SpeedRest'
  <1>t. BucketTypes
    BY DEF BucketInv
  <1>1. CASE PollUsers
    <2>1. PICK users \in [Users -> Speeds] :
             LET added == {u \in Users : users[u] # listed[u]}
             IN  Begins("poll", {<<u, users[u]>> : u \in added}) /\ Disturbs(added)
      BY <1>1 DEF PollUsers
    <2> DEFINE added == {u \in Users : users[u] # listed[u]}
               news  == {<<u, users[u]>> : u \in added}
    <2>2. news \in SUBSET (Users \X Limits)
      BY DEF Limits
    <2> HIDE DEF news
    <2>3. todo' \in [Tasks -> SUBSET (Users \X Limits)]
      BY <2>1, <2>2, BeginsRest DEF news
    <2>4. disturbed' \subseteq Users
      BY <2>1 DEF Disturbs, SpeedRest
    <2> QED BY <1>1, <2>3, <2>4 DEF PollUsers, SpeedRest, limiterVars, autoVars, trafficVars
  <1>2. CASE AddInboundLimiter
    <2>1. fetched \in [Users -> Caps]
      BY <1>t DEF BucketTypes, Caps
    <2>2. record' \in [Infos -> [Users -> Caps]]
      BY <1>2, <2>1 DEF AddInboundLimiter, SpeedRest
    <2> QED BY <1>2, <2>2 DEF AddInboundLimiter, SpeedRest, autoVars, trafficVars,
                updateVars, ghostVars
  <1>3. CASE StartEnds \/ PollEnds \/ ServeUsers
    BY <1>3 DEF StartEnds, PollEnds, ServeUsers, SpeedRest, limiterVars, autoVars, trafficVars,
          updateVars, ghostVars
  <1>4. CASE DropLimiter
    BY <1>4 DEF DropLimiter, Disturbs, SpeedRest, autoVars, trafficVars, updateVars
  <1> QED BY <1>1, <1>2, <1>3, <1>4

\* The pull of the auto speed limit.
LEMMA PullRest ==
    ASSUME BucketInv, TrafficInv, SpeedRest, Pull
    PROVE  SpeedRest'
  <1>t. limited \subseteq Records /\ over \subseteq Records /\ Records = Users \X Speeds
    BY DEF BucketInv, BucketTypes, Records
  <1>1. CASE PullStart
    <2>1. PICK expired \in SUBSET limited : Begins("pull", expired)
      BY <1>1 DEF PullStart
    <2>2. expired \in SUBSET (Users \X Limits)
      BY <1>t DEF Limits
    <2>3. todo' \in [Tasks -> SUBSET (Users \X Limits)]
      BY <2>1, <2>2, BeginsRest
    <2> QED BY <1>1, <2>3 DEF PullStart, SpeedRest, limiterVars, trafficVars
  <1>2. CASE PullRead
    BY <1>2 DEF PullRead, SpeedRest, limiterVars, updateVars, ghostVars
  <1>3. CASE PullDecide
    <2> DEFINE fast == over \ limited
               new  == {r \in fast : warned[r] >= WarnTimes}
               slow == {<<r[1], LimitSpeed>> : r \in new}
    <2>1. /\ warned' = [r \in Records |-> CASE r \in new        -> 0
                                            [] r \in fast \ new -> warned[r] + 1
                                            [] OTHER            -> warned[r]]
          /\ Begins("pull", slow)
      BY <1>3 DEF PullDecide
    <2>2. slow \in SUBSET (Users \X Limits)
      BY <1>t DEF Limits
    <2> HIDE DEF slow
    <2>3. todo' \in [Tasks -> SUBSET (Users \X Limits)]
      BY <2>1, <2>2, BeginsRest
    <2>4. warned' \in [Records -> 0..WarnTimes]
      <3>1. ASSUME NEW r \in Records
            PROVE  (CASE r \in new        -> 0
                      [] r \in fast \ new -> warned[r] + 1
                      [] OTHER            -> warned[r]) \in 0..WarnTimes
        BY SpeedAssumption DEF SpeedRest
      <3> QED BY <2>1, <3>1
    <2> QED BY <1>3, <2>3, <2>4 DEF PullDecide, SpeedRest, limiterVars, ghostVars
  <1>4. CASE PullEnds
    BY <1>4 DEF PullEnds, SpeedRest, limiterVars, trafficVars, updateVars, ghostVars
  <1> QED BY <1>1, <1>2, <1>3, <1>4 DEF Pull

LEMMA UpdateRest ==
    ASSUME BucketInv, SpeedRest, NEW t \in Tasks, UpdateRecord(t) \/ UpdateBucket(t)
    PROVE  SpeedRest'
  <1>1. CASE UpdateRecord(t)
    <2>1. PICK x \in todo[t] :
             /\ todo' = [todo EXCEPT ![t] = @ \ {x}]
             /\ record' = [record EXCEPT ![aim[t]] = [record[aim[t]] EXCEPT ![x[1]] = x[2]]]
             /\ raced' \in {raced, raced \cup {<<aim[t], x[1]>>}}
      BY <1>1 DEF UpdateRecord
    <2>2. x \in Users \X Limits
      BY DEF SpeedRest
    <2>3. aim[t] \in Infos
      BY <2>1 DEF BucketInv, BucketTypes, Using
    <2>4. /\ todo' \in [Tasks -> SUBSET (Users \X Limits)]
          /\ record' \in [Infos -> [Users -> Caps]]
          /\ raced' \subseteq Infos \X Users
      BY <2>1, <2>2, <2>3 DEF SpeedRest, Limits, Caps
    <2> QED BY <1>1, <2>4 DEF UpdateRecord, SpeedRest, autoVars, trafficVars
  <1>2. CASE UpdateBucket(t)
    <2>1. detached' \subseteq Conns
      BY <1>2 DEF UpdateBucket, SpeedRest
    <2> QED BY <1>2, <2>1 DEF UpdateBucket, SpeedRest, autoVars, trafficVars
  <1> QED BY <1>1, <1>2

LEMMA PushRest ==
    ASSUME SpeedRest, Push \/ Collect
    PROVE  SpeedRest'
  <1>p. ASSUME NEW pc0, NEW g, NEW left, NEW u PROVE At(pc0, g, left, u).pc = pc0
    BY DEF At
  <1>k. UNCHANGED restVars
        /\ push'.pc \in {"idle", "look", "drop", "results", "read", "report"} => SpeedRest'
    BY DEF restVars, SpeedRest
  <1>1. ASSUME NEW accepted \in BOOLEAN, NEW next, PushReport(accepted, next),
               next.pc \in {"idle", "look", "results"}
        PROVE  SpeedRest'
    BY <1>1 DEF PushReport, SpeedRest, limiterVars, autoVars, updateVars, ghostVars
  <1>2. CASE SweepDrop \/ SweepCollect \/ \E u \in Users : SweepLook(u)
    <2>1. UNCHANGED restVars
      BY <1>2 DEF SweepDrop, SweepCollect, SweepLook, restVars, limiterVars,
            autoVars, trafficVars, updateVars, ghostVars
    <2>2. push'.pc \in {"look", "drop", "results"}
      BY <1>2 DEF SweepDrop, SweepCollect, SweepLook, At
    <2> QED BY <1>k, <2>1, <2>2
  <1>3. CASE Collect
    BY <1>3, <1>k, <1>p DEF Collect, NoPush, quiet, restVars, limiterVars,
          autoVars, trafficVars, updateVars, ghostVars
  <1>4. /\ NoPush.pc = "idle" /\ At("look", current, Users, None).pc = "look"
        /\ At("results", None, {}, None).pc = "results"
    BY DEF NoPush, At
  <1> QED BY <1>1, <1>2, <1>3, <1>4 DEF Push

LEMMA SpeedRestHolds == BucketInv /\ TrafficInv /\ SpeedRest /\ [Next]_vars => SpeedRest'
  <1> SUFFICES ASSUME BucketInv, TrafficInv, SpeedRest, [Next]_vars PROVE SpeedRest'
    OBVIOUS
  <1>k. UNCHANGED speedVars => SpeedRest'
    BY DEF speedVars, SpeedRest, limiterVars, autoVars, trafficVars, updateVars, ghostVars
  <1>1. CASE \E c \in Conns : Step(c)
    BY <1>1, StepRest
  <1>2. CASE MapFault \/ Caches \/ UNCHANGED vars
    BY <1>2, <1>k DEF MapFault, Caches, vars
  <1>3. CASE Monitors
    <2>1. CASE AskRules
      BY <2>1, <1>k DEF AskRules
    <2> QED BY <1>3, <2>1, PollRest, PullRest, UpdateRest, PushRest
            DEF Monitors, Poll, Update, Replace, Serve, StartRules
  <1> QED BY <1>1, <1>2, <1>3 DEF Next

AuditRest ==
    /\ ruled \in States
    /\ told \in BOOLEAN /\ sameTag \in BOOLEAN /\ leftTag \in BOOLEAN
    /\ old \subseteq Conns /\ passing \subseteq Conns
    /\ byName \subseteq Conns /\ heard \subseteq Conns
    /\ content \in [Maps -> SUBSET Hits]
    /\ batch \subseteq Hits /\ owed \subseteq Hits
    /\ setting \in Settings
    /\ \A c \in Conns : pc[c] \in {"write", "store"} <=> mine[c] # None
    /\ \A c \in Conns : pc[c] \in {"record", "write", "store"} => site[c] \in Sites
    /\ push.pc = "read" => taken \in Maps

LEMMA QuietRest == AuditInv /\ AuditRest /\ Quiet => AuditRest'
  <1> SUFFICES ASSUME AuditInv, AuditRest, Quiet PROVE AuditRest'
    OBVIOUS
  <1>1. UNCHANGED <<ruled, told, sameTag, leftTag, old, passing, byName, heard,
                    content, batch, owed, setting, mine, site>>
    BY DEF Quiet, auditVars, destVars, tagVars, ruleVars, hitVars
  <1>p. push'.pc = "read" => taken' \in Maps
    BY DEF Quiet, auditVars, hitVars, AuditRest
  <1>2. CASE pc' = pc
    BY <1>1, <1>p, <1>2 DEF AuditRest
  <1>3. CASE Moves
    <2>1. PICK c \in Conns, place \in Places \ {"idle", "judge", "record", "write", "store"} :
             /\ pc[c] \notin {"idle", "write", "store"}
             /\ pc' = [pc EXCEPT ![c] = place]
      BY <1>3 DEF Moves
    <2>2. \A d \in Conns : pc'[d] = IF d = c THEN place ELSE pc[d]
      BY <2>1 DEF AuditInv, AuditTypes
    <2> QED BY <1>1, <1>p, <2>1, <2>2 DEF AuditRest
  <1> QED BY <1>2, <1>3 DEF Quiet

\* A connection arrives, and one that is over is forgotten.
LEMMA AskRest ==
    ASSUME AuditInv, AuditRest, NEW c \in Conns,
           \E late \in BOOLEAN : Dispatch(c, late) \/ DispatchLink(c, late)
    PROVE  AuditRest'
  <1>1. PICK place \in {"arrived", "gate", "linked", "dispatched"} :
           pc' = [pc EXCEPT ![c] = place]
    BY DEF Dispatch, DispatchLink, Goto, First, AfterLink
  <1>2. pc[c] = "idle" /\ setting' = setting /\ push' = push
    BY DEF Dispatch, DispatchLink, LoadRecord, Goto, Unchanged
  <1>3. \/ \E s \in Sites, name, known, late, between \in BOOLEAN :
              Ask(c, s, name, known, late, between)
        \/ UNCHANGED auditVars
    BY DEF Dispatch, DispatchLink, AsksFor
  <1>4. \A d \in Conns : pc'[d] = IF d = c THEN place ELSE pc[d]
    BY <1>1 DEF AuditInv, AuditTypes
  <1>5. CASE UNCHANGED auditVars
    BY <1>2, <1>4, <1>5 DEF AuditRest, auditVars, destVars, tagVars, ruleVars, hitVars
  <1>6. ASSUME NEW s \in Sites, NEW name \in BOOLEAN, NEW known \in BOOLEAN,
               NEW late \in BOOLEAN, NEW between \in BOOLEAN,
               Ask(c, s, name, known, late, between)
        PROVE  AuditRest'
    <2>1. /\ site' = [site EXCEPT ![c] = s]
          /\ byName' \subseteq byName \cup {c} /\ heard' \subseteq heard \cup {c}
          /\ old' \subseteq old \cup {c} /\ passing' \subseteq passing \cup {c}
          /\ UNCHANGED <<ruled, told, sameTag, leftTag, mine, content, taken, batch, owed>>
      BY <1>6 DEF Ask, ruleVars, hitVars
    <2>2. \A d \in Conns : d # c => site'[d] = site[d]
      BY <2>1 DEF AuditInv, AuditTypes
    <2> QED BY <1>2, <1>4, <2>1, <2>2 DEF AuditRest
  <1> QED BY <1>3, <1>5, <1>6

LEMMA CloseRest ==
    ASSUME AuditInv, AuditRest, NEW c \in Conns, Close(c)
    PROVE  AuditRest'
  <1>1. /\ pc[c] \in {"dispatched", "refused"} /\ pc' = [pc EXCEPT ![c] = "idle"]
        /\ site' = [site EXCEPT ![c] = None]
        /\ byName' = byName \ {c} /\ heard' = heard \ {c}
        /\ old' = old \ {c} /\ passing' = passing \ {c}
        /\ UNCHANGED <<ruled, told, sameTag, leftTag, mine, content, taken, batch, owed,
                       setting, push>>
    BY DEF Close, Release, Forget, Goto, Unchanged, ruleVars, hitVars
  <1>2. \A d \in Conns : /\ pc'[d] = IF d = c THEN "idle" ELSE pc[d]
                         /\ d # c => site'[d] = site[d]
    BY <1>1 DEF AuditInv, AuditTypes
  <1> QED BY <1>1, <1>2 DEF AuditRest

LEMMA JudgedRest ==
    ASSUME AuditInv, AuditRest, NEW c \in Conns, Judge(c) \/ Route(c)
    PROVE  AuditRest'
  <1>1. PICK place \in {"judge", "record", "dispatched"} :
           /\ pc' = [pc EXCEPT ![c] = place]
           /\ pc[c] \in {"linked", "judge"}
           /\ place = "record" => site[c] \in Forbidden
    BY DEF Judge, Route, Goto, MatchesRule
  <1>2. UNCHANGED <<ruled, told, sameTag, leftTag, old, passing, byName, heard, content,
                    batch, owed, setting, mine, site, taken, push>>
    BY DEF Judge, Route, Sniff, Goto, Unchanged, speedVars, auditVars, destVars, tagVars,
           ruleVars, hitVars
  <1>3. \A d \in Conns : pc'[d] = IF d = c THEN place ELSE pc[d]
    BY <1>1 DEF AuditInv, AuditTypes
  <1> QED BY <1>1, <1>2, <1>3, AuditAssumption DEF AuditRest

LEMMA RecordRest ==
    ASSUME AuditInv, AuditRest, NEW c \in Conns, Record(c)
    PROVE  AuditRest'
  <1>h. pc[c] \in {"record", "write", "store"} /\ Hit(c) \in Hits
    BY Numbers DEF Record, AuditRest, Hit, Hits
  <1>s. UNCHANGED <<ruled, told, sameTag, leftTag, old, passing, byName, heard, batch,
                    setting, site, taken, push>>
    BY DEF Record, speedVars, RecordFirst, LoadMap, AlreadyThere, WriteMap, StoreMap, LeakHit,
           Goto, Unchanged, destVars, tagVars, ruleVars
  <1>m. \A m \in Maps : m # None
    BY AuditAssumption
  <1>t. /\ pc \in [Conns -> Places] /\ mine \in [Conns -> Maps \cup {None}]
        /\ content \in [Maps -> SUBSET Hits] /\ owed \subseteq Hits
    BY DEF AuditInv, AuditTypes, AuditRest
  <1>o. owed' \subseteq owed \cup {Hit(c)}
    BY DEF Record, RecordFirst, LoadMap, AlreadyThere, WriteMap, StoreMap, LeakHit
  <1>p. ASSUME NEW place \in {"write", "store", "refused"}, pc' = [pc EXCEPT ![c] = place],
               mine'[c] # None <=> place # "refused",
               \A d \in Conns : d # c => mine'[d] = mine[d],
               content' \in [Maps -> SUBSET Hits]
        PROVE  AuditRest'
    <2>1. \A d \in Conns : pc'[d] = IF d = c THEN place ELSE pc[d]
      BY <1>p, <1>t
    <2> QED BY <1>p, <1>h, <1>s, <1>t, <1>o, <2>1 DEF AuditRest
  <1>k. ASSUME NEW refs PROVE Keep(content, refs) \in [Maps -> SUBSET Hits]
    BY <1>t DEF Keep
  <1>1. CASE pc[c] = "record" /\ RecordFirst(c) /\ Goto(c, "refused")
    <2>1. content' \in [Maps -> SUBSET Hits] /\ mine' = mine
      BY <1>1, <1>h, <1>t DEF RecordFirst
    <2>2. mine[c] = None
      BY <1>1 DEF AuditRest
    <2> QED BY <1>1, <1>p, <2>1, <2>2 DEF Goto
  <1>2. CASE pc[c] = "record" /\ LoadMap(c) /\ Goto(c, "write")
    <2>1. /\ mine'[c] = results /\ results # None /\ content' = content
          /\ \A d \in Conns : d # c => mine'[d] = mine[d]
      BY <1>2, <1>t DEF LoadMap
    <2> QED BY <1>2, <1>p, <1>t, <2>1 DEF Goto
  <1>3. CASE (AlreadyThere(c) \/ StoreMap(c) \/ LeakHit(c)) /\ Goto(c, "refused")
    <2>1. content' \in [Maps -> SUBSET Hits]
      BY <1>3, <1>k DEF AlreadyThere, StoreMap, LeakHit
    <2>2. mine' = [mine EXCEPT ![c] = None]
      BY <1>3 DEF AlreadyThere, StoreMap, LeakHit
    <2>3. mine'[c] = None /\ \A d \in Conns : d # c => mine'[d] = mine[d]
      BY <1>t, <2>2
    <2> QED BY <1>3, <1>p, <2>1, <2>3 DEF Goto
  <1>4. CASE pc[c] = "write" /\ WriteMap(c) /\ Goto(c, "store")
    <2>1. mine[c] # None /\ mine' = mine
      BY <1>4 DEF WriteMap, AuditRest
    <2>2. content' \in [Maps -> SUBSET Hits]
      BY <1>4, <1>h, <1>t DEF WriteMap
    <2> QED BY <1>4, <1>p, <2>1, <2>2 DEF Goto
  <1> QED BY <1>1, <1>2, <1>3, <1>4 DEF Record

LEMMA MonitorRest ==
    ASSUME AuditInv, AuditRest, Replace \/ Serve \/ StartRules \/ AskRules \/ Collect
    PROVE  AuditRest'
  <1>o. UNCHANGED <<setting, pc>>
    BY DEF Replace, Serve, StartRules, AskRules, Collect, others
  <1>k. ASSUME NEW refs PROVE Keep(content, refs) \in [Maps -> SUBSET Hits]
    BY DEF Keep, AuditRest
  <1>p. Replace \/ Serve \/ StartRules \/ AskRules => push' = push
    BY DEF Replace, Serve, StartRules, AskRules, DropLimiter, ServeUsers, StartEnds, speedVars
  <1>0. CASE UNCHANGED auditVars /\ (push' = push \/ push'.pc # "read")
    BY <1>0, <1>o DEF AuditRest, auditVars, destVars, tagVars, ruleVars, hitVars
  <1>1. ASSUME NEW same \in BOOLEAN, RemoveInbound(live, same), push' = push PROVE AuditRest'
    <2>1. live \subseteq Conns
      BY DEF live
    <2>2. content' \in [Maps -> SUBSET Hits]
      BY <1>1, <1>k DEF RemoveInbound
    <2>3. /\ ruled' = "removed" /\ sameTag' = same /\ told' = told /\ old' \subseteq old \cup live /\ passing' = passing \cup live
          /\ owed' \subseteq owed
          /\ UNCHANGED <<byName, heard, batch, mine, taken, site>>
      BY <1>1 DEF RemoveInbound, destVars
    <2>4. leftTag' \in BOOLEAN
      BY <1>1 DEF RemoveInbound, AuditRest
    <2> QED BY <1>o, <1>1, <2>1, <2>2, <2>3, <2>4 DEF AuditRest, States
  <1>3. CASE results # None /\ TakeResults
    <2>1. taken' \in Maps
      BY <1>3 DEF TakeResults, AuditInv, AuditTypes
    <2> QED BY <1>o, <1>3, <2>1 DEF TakeResults, AuditRest, destVars, tagVars, ruleVars
  <1>4. CASE push.pc = "read" /\ ReadResults /\ push'.pc # "read"
    <2>1. content' \in [Maps -> SUBSET Hits]
      BY <1>4, <1>k DEF ReadResults
    <2>2. batch' \subseteq Hits
      BY <1>4 DEF ReadResults, AuditRest
    <2> QED BY <1>o, <1>4, <2>1, <2>2 DEF ReadResults, AuditRest, destVars, tagVars, ruleVars
  <1>5. CASE ReportIllegal /\ push'.pc # "read"
    BY <1>o, <1>5 DEF ReportIllegal, AuditRest, destVars, tagVars, ruleVars
  <1>6. NoPush.pc # "read" /\ At("report", None, {}, None).pc # "read"
    BY DEF NoPush, At
  <1>7. CASE Collect
    BY <1>7, <1>0, <1>3, <1>4, <1>5, <1>6 DEF Collect
  <1>8. CASE Replace
    BY <1>8, <1>p, <1>0, <1>1 DEF Replace
  <1>9. CASE Serve \/ StartRules \/ AskRules
    <2>0. Rules
      BY <1>9 DEF Serve, StartRules, AskRules
    <2>1. CASE setting.rules
      <3>1. PICK outcome \in {"set", "missed", "same"} :
                    UpdateRule(outcome, setting.ruleETag)
        BY <2>0, <2>1 DEF Rules
      <3>2. ruled' \in States
        BY <3>1 DEF UpdateRule, States
      <3>3. told' \in BOOLEAN
        <4>1. told' \in {told, setting.ruleETag}
          BY <3>1, Zenon DEF UpdateRule
        <4>2. setting.ruleETag \in BOOLEAN /\ told \in BOOLEAN
          BY SettingsAssumption DEF AuditRest
        <4> QED BY <4>1, <4>2
      <3> QED BY <1>9, <1>p, <1>o, <3>1, <3>2, <3>3 DEF UpdateRule, AuditRest, destVars, hitVars
    <2>2. CASE ~setting.rules
      BY <1>9, <1>p, <2>0, <2>2, <1>0 DEF Rules
    <2> QED BY <2>1, <2>2
  <1> QED BY <1>7, <1>8, <1>9

LEMMA AuditRestHolds == AuditInv /\ AuditRest /\ [Next]_vars => AuditRest'
  <1> SUFFICES ASSUME AuditInv, AuditRest, [Next]_vars PROVE AuditRest'
    OBVIOUS
  <1>q. Quiet => AuditRest'
    BY QuietRest
  <1>1. CASE UNCHANGED vars
    <2>1. Quiet
      BY <1>1 DEF vars, speedVars, limiterVars, listVars, Quiet
    <2> QED BY <2>1, <1>q
  <1>2. ASSUME NEW c \in Conns, Step(c) PROVE AuditRest'
    <2>1. CASE \E late \in BOOLEAN : Dispatch(c, late) \/ DispatchLink(c, late)
      BY <2>1, AskRest
    <2>2. CASE Count(c) \/ Gate(c) \/ Link(c) \/ Transfer(c)
      BY <2>2, <1>q, QuietSteps
    <2>3. CASE Close(c)
      BY <2>3, CloseRest
    <2>4. CASE Judge(c) \/ Route(c)
      BY <2>4, JudgedRest
    <2>5. CASE Record(c)
      BY <2>5, RecordRest
    <2> QED BY <1>2, <2>1, <2>2, <2>3, <2>4, <2>5 DEF Step
  <1>3. CASE MapFault \/ Caches
    BY <1>3, <1>q, QuietSteps
  <1>4. CASE Monitors
    BY <1>4, <1>q, QuietSteps, MonitorRest DEF Monitors
  <1> QED BY <1>1, <1>2, <1>3, <1>4 DEF Next

\* The parts' invariants, and with them the rest of the types.
Others ==
    /\ SpeedRest /\ AuditRest
    /\ failures \in 0..MaxFailures
    /\ crashed \in BOOLEAN

LEMMA OthersInit == Init => Others
  <1> SUFFICES ASSUME Init PROVE Others
    OBVIOUS
  <1>1. SpeedRest
    <2>2. record \in [Infos -> [Users -> Caps]]
      BY DEF Init, SpeedInit, Caps
    <2>3. warned \in [Records -> 0..WarnTimes]
      BY SpeedAssumption DEF Init, SpeedInit
    <2> QED BY <2>2, <2>3 DEF Init, SpeedInit, SpeedRest, NoPush, At
  <1>2. AuditRest
    <2>1. push.pc = "idle" /\ \A c \in Conns : pc[c] = "idle" /\ mine[c] = None
      BY DEF Init, AuditInit, SpeedInit, NoPush, At
    <2>2. content \in [Maps -> SUBSET Hits]
      BY DEF Init, AuditInit
    <2>3. /\ ruled \in States /\ setting \in Settings
          /\ told \in BOOLEAN /\ sameTag \in BOOLEAN /\ leftTag \in BOOLEAN
          /\ old \subseteq Conns /\ passing \subseteq Conns
          /\ byName \subseteq Conns /\ heard \subseteq Conns
          /\ batch \subseteq Hits /\ owed \subseteq Hits
      BY DEF Init, AuditInit, States
    <2>4. \A c \in Conns : /\ pc[c] \in {"write", "store"} <=> mine[c] # None
                           /\ pc[c] \notin {"record", "write", "store"}
      BY <2>1
    <2> QED BY <2>1, <2>2, <2>3, <2>4 DEF AuditRest
  <1>3. failures = 0 /\ crashed = FALSE
    BY DEF Init, GlobalInit
  <1>4. failures \in 0..MaxFailures
    BY <1>3, GlobalAssumption
  <1> QED BY <1>1, <1>2, <1>3, <1>4 DEF Others

LEMMA OthersHold ==
    BucketInv /\ TrafficInv /\ AuditInv /\ Others /\ [Next]_vars => Others'
  <1> SUFFICES ASSUME BucketInv, TrafficInv, AuditInv, Others, [Next]_vars PROVE Others'
    OBVIOUS
  <1>1. SpeedRest' /\ AuditRest'
    BY SpeedRestHolds, AuditRestHolds DEF Others
  <1>2. failures' \in 0..MaxFailures
    BY GlobalSteps, FailuresHold DEF Others
  <1>3. crashed' \in BOOLEAN
    <2>1. crashed' = crashed \/ crashed' = TRUE
      <3>1. ASSUME NEW c \in Conns, Step(c) PROVE crashed' = crashed
        BY <3>1 DEF Step, Dispatch, DispatchLink, Count, Gate, Link, Transfer, Close, Judge,
              Route, Record, Goto, Unchanged
      <3>2. CASE Monitors
        BY <3>2 DEF Monitors, Replace, Serve, StartRules, AskRules, Collect, others
      <3> QED BY <3>1, <3>2 DEF Next, MapFault, Caches, vars
    <2> QED BY <2>1 DEF Others
  <1> QED BY <1>1, <1>2, <1>3 DEF Others

LEMMA TypesFollow ==
    ASSUME BucketInv, TrafficInv, AuditInv, GlobalInv, RecordInvariant, Others
    PROVE  TypeOK
  <1>1. SpeedTypeOK
    BY DEF BucketInv, BucketTypes, Using, TrafficInv, RecordInvariant, RecordTypes, Others,
           SpeedRest, Limits, Caps, SpeedTypeOK
  <1>2. GlobalTypeOK
    <2>1. GlobalTypes /\ failures \in 0..MaxFailures
      BY DEF GlobalInv, Others
    <2>2. {local, remote} \ {None} \subseteq SUBSET Addrs
      <3>1. \A ips \in {local, remote} \ {None} : ips \subseteq Addrs
        BY <2>1 DEF GlobalTypes
      <3> QED BY <3>1
    <2>5. letIn \in (SUBSET Addrs) \cup {None}
      BY <2>1 DEF GlobalTypes
    <2>3. filling \subseteq SUBSET Addrs
      BY <2>1 DEF GlobalTypes
    <2>4. pushing \in [Conns -> [to : {"nowhere", "local", "remote"}, ips : SUBSET Addrs]]
      BY <2>1 DEF GlobalTypes, Pushes
    <2> QED BY <2>1, <2>2, <2>3, <2>4, <2>5 DEF GlobalTypeOK
  <1>3. AuditTypeOK
    BY DEF AuditInv, AuditTypes, Others, AuditRest, AuditTypeOK
  <1> QED BY <1>1, <1>2, <1>3 DEF AuditInv, AuditTypes, Others, AuditRest, TypeOK

\* TypeOK for any users, connections, limits, addresses and sites: buckets,
\* counters, cache entries, push phases and the maps of hits stay what the
\* three parts take them for, and a connection has a map while it is about to
\* write or store one, and no longer (limiter.go, rule.go, default.go).
THEOREM TypeCorrect == Spec => []TypeOK
  <1>1. Init => TrafficInv
    BY DEF Init, SpeedInit, TrafficInv
  <1> QED BY <1>1, TrafficInvHolds, BucketInvInit, BucketInvNext, AuditInvInit, AuditInvHolds,
             GlobalInvInit, GlobalSteps, GlobalInvHolds, RecordInvariantInit,
             RecordInvariantHolds, OthersInit, OthersHold, TypesFollow, PTL DEF Spec
=============================================================================
