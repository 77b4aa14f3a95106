----------------------------- MODULE Connection -----------------------------
(* A connection's way through the dispatcher, Dispatch and DispatchLink of    *)
(* app/mydispatcher: the limiter's bucket (SpeedLimit), the global device     *)
(* limit (GlobalLimit), the sniffer, the rules and the record of their hits   *)
(* (Audit), while the Controller's monitors change what it meets.  The local  *)
(* device limit is DeviceLimit's.                                             *)
EXTENDS SpeedLimit, GlobalLimit, Audit

CONSTANTS Settings   \* of the node and of the instance, chosen at the start

\* A node with a global limit is not replaced here: the go-cache is its
\* limiter's, and a new one's is empty.
ASSUME SettingsAssumption ==
    \A s \in Settings : s.ruleETag \in BOOLEAN /\ ~(s.global /\ s.retags)

VARIABLES
    setting,  \* which of the parts is configured, and the connections there are
    pc,       \* where each connection is
    crashed   \* two goroutines have met in a map

vars == <<speedVars, globalVars, auditVars, setting, pc, crashed>>

live == {c \in Conns : pc[c] # "idle"}
Unchanged == UNCHANGED <<setting, crashed>>
Goto(c, place) == pc' = [pc EXCEPT ![c] = place] /\ Unchanged

Init ==
    /\ setting \in Settings
    /\ SpeedInit /\ GlobalInit /\ AuditInit
    /\ setting.speed \/ \A u \in Users : listed[u] = 0
    /\ pc = [c \in Conns |-> "idle"]
    /\ crashed = FALSE

-----------------------------------------------------------------------------
(* The connection: getLink, then Dispatch's goroutine.                      *)

\* What the connection meets is left out where it has no effect: the limiter
\* without speed limits, the rules without rules.
First == IF setting.speed THEN "arrived"
         ELSE IF setting.global THEN "gate"
         ELSE "linked"
AfterGate == IF setting.speed THEN "bucket"
             ELSE IF setting.rules THEN "linked" ELSE "dispatched"
AfterLink == IF setting.rules THEN "linked" ELSE "dispatched"

AsksFor(c, late) ==
    IF setting.rules
    THEN \E s \in Sites, name, known \in BOOLEAN :
            ~(name /\ known) /\ Ask(c, s, name, known, late, poll = "gone")
    ELSE ~late /\ UNCHANGED auditVars

\* Between an inbound and the next, only a session of before has streams.
Comes(late) == IF late THEN leftTag ELSE poll # "gone" \/ sameTag

Dispatch(c, late) ==
    /\ pc[c] = "idle" /\ Cardinality(live) < setting.most
    /\ Comes(late)
    /\ LoadRecord(c, IF ~late /\ (setting.speed \/ setting.global) THEN current ELSE None)
    /\ AsksFor(c, late)
    /\ Goto(c, First)
    /\ UNCHANGED globalVars

\* DispatchLink: the link is made elsewhere; neither limiter nor counters.
DispatchLink(c, late) ==
    /\ pc[c] = "idle" /\ Cardinality(live) < setting.most
    /\ setting.rules
    /\ Comes(late)
    /\ LoadRecord(c, None)
    /\ AsksFor(c, late)
    /\ Goto(c, AfterLink)
    /\ UNCHANGED globalVars

\* A TCP connection is counted, and with the auto speed limit there are no
\* others; without limiter nobody is.
Count(c) ==
    /\ pc[c] = "arrived"
    /\ \/ info[c] # None /\ CountOnline(c)
       \/ ~setting.auto /\ UNCHANGED speedVars
    /\ Goto(c, IF setting.global THEN "gate" ELSE "bucket")
    /\ UNCHANGED <<globalVars, auditVars>>

\* Without limiter there is no global limit either.
Gate(c) ==
    /\ pc[c] = "gate"
    /\ \/ info[c] = None /\ Goto(c, AfterGate) /\ UNCHANGED globalVars
       \/ /\ info[c] # None
          /\ \E a \in Addrs : Admit(c, a) \/ AdmitUnchecked(a)
          /\ Goto(c, AfterGate)
       \/ info[c] # None /\ Refuse /\ Goto(c, "refused")
    /\ UNCHANGED <<speedVars, auditVars>>

Link(c) ==
    /\ pc[c] = "bucket"
    /\ TakeBucket(c)
    /\ Goto(c, AfterLink)
    /\ UNCHANGED <<globalVars, auditVars>>

Transfer(c) ==
    /\ pc[c] = "dispatched" /\ setting.auto
    /\ info[c] # None
    /\ Carry(c)
    /\ UNCHANGED <<globalVars, auditVars, setting, pc, crashed>>

Close(c) ==
    /\ pc[c] \in {"dispatched", "refused"}
    /\ Release(c) /\ Forget(c)
    /\ Goto(c, "idle")
    /\ UNCHANGED globalVars

-----------------------------------------------------------------------------
(* routedDispatch.                                                          *)

Judge(c) ==
    /\ pc[c] = "linked" /\ Sniff(c, setting.sniffs) /\ Goto(c, "judge")
    /\ UNCHANGED <<speedVars, globalVars>>

\* A connection no rule names leaves by the routed outbound, its inbound's or
\* the default one.
Route(c) ==
    /\ pc[c] = "judge"
    /\ Goto(c, IF MatchesRule(c) THEN "record" ELSE "dispatched")
    /\ UNCHANGED <<speedVars, globalVars, auditVars>>

Record(c) ==
    /\ \/ pc[c] = "record" /\ c \notin old /\ RecordFirst(c) /\ Goto(c, "refused")
       \/ pc[c] = "record" /\ c \notin old /\ LoadMap(c) /\ Goto(c, "write")
       \/ pc[c] = "write" /\ AlreadyThere(c) /\ Goto(c, "refused")
       \/ pc[c] = "write" /\ WriteMap(c) /\ Goto(c, "store")
       \/ pc[c] = "store" /\ c \notin old /\ StoreMap(c) /\ Goto(c, "refused")
       \/ pc[c] \in {"record", "store"} /\ c \in old /\ LeakHit(c) /\ Goto(c, "refused")
    /\ UNCHANGED <<speedVars, globalVars>>

\* "fatal error: concurrent map writes", or iteration and write.
MapFault ==
    /\ \E c \in Conns : /\ pc[c] = "write" /\ Hit(c) \notin content[mine[c]]
                        /\ Collides(c, {d \in Conns : pc[d] = "write"})
    /\ crashed' = TRUE
    /\ UNCHANGED <<speedVars, globalVars, auditVars, setting, pc>>

-----------------------------------------------------------------------------
(* The monitors.                                                            *)

others == <<setting, pc, crashed, globalVars>>
quiet  == <<limiterVars, listVars, autoVars, trafficVars, updateVars, connVars,
            ghostVars>>

Update == \E t \in Tasks : UpdateRecord(t) \/ UpdateBucket(t)

\* nodeInfoMonitor replaces the node: limiter and rules go together, and come
\* back with the users in between.
Replace ==
    /\ setting.retags
    /\ DropLimiter
    /\ setting.speed \/ fetched' = listed
    /\ IF setting.rules THEN \E same \in BOOLEAN : RemoveInbound(live, same)
                        ELSE UNCHANGED auditVars
    /\ UNCHANGED others

Rules == IF setting.rules
         THEN \E outcome \in {"set", "missed", "same"} : UpdateRule(outcome, setting.ruleETag)
         ELSE UNCHANGED auditVars

Serve == ServeUsers /\ Rules /\ UNCHANGED others

\* Start has served the users and made the limiter before it has the rules.
Started == poll \notin {"start", "rules"}
StartRules == StartEnds /\ Rules /\ UNCHANGED others

\* A poll that finds node and users as they are.
AskRules ==
    /\ poll = "idle" /\ setting.rules
    /\ Rules
    /\ UNCHANGED <<speedVars, others>>

Collect ==
    /\ \/ push.pc = "results" /\ results = None /\ push' = NoPush
          /\ UNCHANGED auditVars
       \/ /\ push.pc = "results" /\ results # None
          /\ TakeResults
          /\ push' = At("read", None, {}, None)
       \/ push.pc = "read" /\ ReadResults /\ push' = At("report", None, {}, None)
       \/ push.pc = "report" /\ ReportIllegal /\ push' = NoPush
    /\ UNCHANGED <<quiet, others>>

Poll == setting.speed /\ PollUsers
Pull == Started /\ setting.auto /\ (PullStart \/ PullRead \/ PullDecide \/ PullEnds)
\* The report matters to the auto speed limit; without limiter there is
\* nothing to sweep.
Push == \/ /\ Started /\ setting.speed
           /\ \E accepted \in IF setting.auto THEN BOOLEAN ELSE {FALSE} :
                 PushReport(accepted, IF current = None THEN NoPush
                                      ELSE At("look", current, Users, None))
        \/ /\ Started /\ setting.rules
           /\ PushReport(FALSE, At("results", None, {}, None))
        \/ \E u \in Users : SweepLook(u)
        \/ SweepDrop \/ SweepCollect

Monitors == \/ (Poll \/ AddInboundLimiter \/ PollEnds \/ Update \/ Pull \/ Push)
                 /\ UNCHANGED <<auditVars, others>>
            \/ Replace \/ Serve \/ StartRules \/ AskRules \/ Collect

Caches == setting.global /\ Cache
          /\ UNCHANGED <<speedVars, auditVars, setting, pc, crashed>>

Step(c) == \/ \E late \in BOOLEAN : Dispatch(c, late) \/ DispatchLink(c, late)
           \/ Count(c) \/ Gate(c) \/ Link(c)
           \/ Transfer(c) \/ Close(c) \/ Judge(c) \/ Route(c) \/ Record(c)

Next == /\ ~crashed
        /\ \/ \E c \in Conns : Step(c)
           \/ MapFault \/ Monitors \/ Caches

Spec == Init /\ [][Next]_vars

-----------------------------------------------------------------------------
(* Properties; RecordExplained, InnocentNotLimited and GlobalBound are those *)
(* of the parts.                                                             *)

Places == {"idle", "arrived", "gate", "bucket", "linked", "judge", "record",
           "write", "store", "refused", "dispatched"}

TypeOK ==
    /\ SpeedTypeOK /\ GlobalTypeOK /\ AuditTypeOK
    /\ setting \in Settings
    /\ pc \in [Conns -> Places]
    /\ crashed \in BOOLEAN
    /\ \A c \in Conns : pc[c] \in {"write", "store"} <=> mine[c] # None

Linked == {c \in Conns : pc[c] \notin {"idle", "arrived", "gate", "bucket"}}

\* The connections by which a user is online share the user's bucket, and it
\* has the rate of the user's record: not one per connection, nor an old rate.
\* Unless an update lifted the limit or a sweep had looked before the user
\* came online; a bucket was made from the record of before an update; or two
\* updates crossed.
OnlineShareBucket ==
    \A c \in (counted \cap Linked) \ detached :
       LET g == info[c]
           u == UserOf[c]
       IN  bucket[c] # None =>
             /\ bucket[c] = hub[g][u]
             /\ \/ rate[bucket[c]] = RateOf(g, u)
                \/ <<g, u>> \in raced
                \/ \E t \in Tasks : aim[t] = g /\ half[t] # None /\ half[t].user = u

\* A hit waits in the table of the tag, or is being collected, until it has
\* been in a report; a table that is removed with the node or replaced by an
\* older one is lost.
HitAccounted ==
    owed \subseteq batch \cup UNION {content[m] : m \in {results, taken} \ {None}}

\* A connection to a domain that a rule forbids gets out only if it asks for
\* an address and its domain is not sniffed; it was under way while the node
\* was replaced, or is of a session that outlived its inbound; or, when it
\* came, Start had not asked for the rules yet, the panel had not given them,
\* or they had not been set again for they are not modified.  So they are
\* asked for before users come back, and no failure takes them away.
EscapeHasCause ==
    \A c \in Conns : setting.rules /\ pc[c] = "dispatched" /\ site[c] \in Forbidden =>
        \/ c \notin byName /\ (~setting.sniffs \/ c \notin heard)
        \/ c \in old \cup passing
        \/ met[c] \in {"unasked", "missed"}
        \/ met[c] = "same" /\ setting.ruleETag
=============================================================================
