----------------------------- MODULE SpeedLimit -----------------------------
(* The speed limits of a node's users: UserInfo and BucketHub of the        *)
(* limiter, as connections, the three monitors and the auto speed limit     *)
(* change them.  A connection's own steps are put in order in Connection;   *)
(* its address is DeviceLimit's matter, only that it counts the user online *)
(* is kept here.  An InboundInfo is known by its number: a replaced node    *)
(* gets the next, and connections keep the one they looked up.              *)
EXTENDS NodeUsers

CONSTANTS
    Speeds,       \* speed limits the panel sets, 0 for none
    NodeSpeed,    \* the node's, 0 for none
    LimitSpeed,   \* AutoSpeedLimitConfig.LimitSpeed
    WarnTimes,    \* AutoSpeedLimitConfig.WarnTimes
    MaxRetags     \* bound on replacements of the node

Infos   == 1..(MaxRetags + 1)

ASSUME SpeedAssumption ==
    /\ Speeds \subseteq Nat /\ NodeSpeed \in Nat
    /\ LimitSpeed \in Nat \ {0}
    /\ WarnTimes \in Nat /\ MaxRetags \in Nat
    /\ \A g \in Infos : g # None
    /\ None \notin [user : Users, rate : Nat]

Buckets == 1..(2 * Cardinality(Conns) + 1)
Tasks   == {"poll", "pull"}      \* those that update the limiter
Records == Users \X Speeds       \* a listed user, as key of limitedUsers

VARIABLES
    current,       \* the InboundInfo of the Controller's tag, or None
    renewed,       \* how often the node has been replaced
    record, hub,   \* UserInfo's speed limit and BucketHub, of each InboundInfo
    online,        \* its users with an entry in UserOnlineIP
    rate,          \* of each bucket
    listed,        \* c.userList
    limited, warned, \* limitedUsers, warnedUsers
    counter,       \* traffic of a user: 0, 1 (within the limit), 2 (beyond)
    sample,        \* users whose counters the pull has read
    pending,       \* users whose counters pendingTraffic holds
    poll, pull, push, \* where nodeInfoMonitor, userInfoMonitor, pushMonitor are
    fetched,       \* the user list of the poll
    over,          \* overSpeeds
    todo, half, aim, \* updates of the limiter in progress, by task
    info, limit, bucket, \* of a connection; its limit until it has a bucket
    counted,       \* connections counted online since the last collection
    moved, read, suspect, disturbed, detached, raced \* history

limiterVars == <<current, renewed, record, hub, online, rate>>
listVars    == <<listed, fetched, poll>>
autoVars    == <<limited, warned, over, pull>>
trafficVars == <<counter, sample, pending, moved, read, suspect>>
updateVars  == <<todo, half, aim>>
connVars    == <<info, limit, bucket, counted>>
ghostVars   == <<disturbed, detached, raced>>
speedVars   == <<limiterVars, listVars, autoVars, trafficVars, updateVars,
                 connVars, ghostVars, push>>

-----------------------------------------------------------------------------
\* determineRate: the lower of the limits that are set.
determineRate(node, user) ==
    CASE node = 0  -> user
      [] user = 0  -> node
      [] OTHER     -> IF node < user THEN node ELSE user

RateOf(g, u) == determineRate(NodeSpeed, record[g][u])

\* pushMonitor: its place, its InboundInfo, users it has still to look at, and
\* the one whose bucket it is about to delete.
At(pc, g, left, u) == [pc |-> pc, info |-> g, left |-> left, user |-> u]
NoPush == At("idle", None, {}, None)

\* Start has added the users, and the inbound serves them.
SpeedInit ==
    /\ current = None /\ renewed = 0
    /\ listed \in [Users -> Speeds]
    /\ fetched = listed
    /\ record = [g \in Infos |-> [u \in Users |-> 0]]
    /\ hub = [g \in Infos |-> [u \in Users |-> None]]
    /\ online = [g \in Infos |-> {}]
    /\ rate = [b \in Buckets |-> 0]
    /\ limited = {} /\ warned = [r \in Records |-> 0] /\ over = {}
    /\ counter = [u \in Users |-> 0] /\ sample = {} /\ pending = {}
    /\ poll = "start" /\ pull = "idle" /\ push = NoPush
    /\ todo = [t \in Tasks |-> {}] /\ half = [t \in Tasks |-> None]
    /\ aim = [t \in Tasks |-> None]
    /\ info = [c \in Conns |-> None] /\ limit = [c \in Conns |-> 0]
    /\ bucket = [c \in Conns |-> None]
    /\ counted = {}
    /\ moved = [u \in Users |-> 0]
    /\ read = {} /\ suspect = {}
    /\ disturbed = {} /\ detached = {} /\ raced = {}

-----------------------------------------------------------------------------
(* A connection: GetUserBucket, for a user the dispatcher knows.            *)

\* The limiter of its inbound's tag; without one it is neither counted nor
\* limited.
LoadRecord(c, g) ==
    /\ info' = [info EXCEPT ![c] = g]
    /\ limit' = [limit EXCEPT ![c] = IF g = None THEN 0 ELSE RateOf(g, UserOf[c])]
    /\ UNCHANGED <<limiterVars, listVars, autoVars, trafficVars, updateVars,
                   bucket, counted, ghostVars, push>>

\* Only a TCP connection counts.  The push may just have seen the user
\* without an entry, and be about to delete the bucket.
CountOnline(c) ==
    /\ online' = [online EXCEPT ![info[c]] = @ \cup {UserOf[c]}]
    /\ counted' = counted \cup {c}
    /\ detached' = IF push.user = UserOf[c] /\ push.info = info[c]
                   THEN detached \cup {c} ELSE detached
    /\ UNCHANGED <<current, renewed, record, hub, rate, listVars, autoVars, trafficVars,
                   updateVars, info, limit, bucket, disturbed, raced, push>>

InUse == {bucket[c] : c \in Conns}
            \cup UNION {{hub[g][u] : u \in Users} : g \in Infos}

\* A new bucket has the rate read before; UserInfo may have changed since.
NewBucket(c, g, u) ==
    \E b \in Buckets \ InUse :
       /\ \A d \in Buckets \ InUse : b <= d
       /\ hub' = [hub EXCEPT ![g] = [hub[g] EXCEPT ![u] = b]]
       /\ rate' = [rate EXCEPT ![b] = limit[c]]
       /\ bucket' = [bucket EXCEPT ![c] = b]
       /\ raced' = IF limit[c] # RateOf(g, u) THEN raced \cup {<<g, u>>} ELSE raced

TakeBucket(c) ==
    LET g == info[c]
        u == UserOf[c]
    IN  /\ IF g = None \/ limit[c] = 0
           THEN UNCHANGED <<hub, rate, bucket, raced>>
           ELSE \/ /\ hub[g][u] # None
                   /\ bucket' = [bucket EXCEPT ![c] = hub[g][u]]
                   /\ UNCHANGED <<hub, rate, raced>>
                \/ /\ hub[g][u] = None
                   /\ NewBucket(c, g, u)
        /\ limit' = [limit EXCEPT ![c] = 0]
        /\ UNCHANGED <<current, renewed, record, online, listVars, autoVars, trafficVars,
                       updateVars, info, counted, disturbed, detached, push>>

\* The connection ends; rates of buckets nobody refers to are forgotten.
Release(c) ==
    /\ info' = [info EXCEPT ![c] = None]
    /\ limit' = [limit EXCEPT ![c] = 0]
    /\ bucket' = [bucket EXCEPT ![c] = None]
    /\ counted' = counted \ {c}
    /\ detached' = detached \ {c}
    /\ rate' = [b \in Buckets |->
                  IF \/ \E d \in Conns \ {c} : bucket[d] = b
                     \/ \E g \in Infos, u \in Users : hub[g][u] = b
                  THEN rate[b] ELSE 0]
    /\ UNCHANGED <<current, renewed, record, hub, online, listVars, autoVars,
                   trafficVars, updateVars, disturbed, raced, push>>

\* SizeStatWriter adds to the user's counters; 2 stands for more than a
\* period's worth at the limit.  Of a user who has moved that much in one
\* period no more is remembered.
Carry(c) ==
    LET u == UserOf[c]
        more(n) == IF n < 2 THEN n + 1 ELSE 2
        fast == u \in suspect \/ moved[u] # 0
    IN  /\ counter' = [counter EXCEPT ![u] = more(@)]
        /\ moved' = [moved EXCEPT ![u] = IF fast THEN 0 ELSE 1]
        /\ read' = IF fast THEN read \ {u} ELSE read
        /\ suspect' = IF fast THEN suspect \cup {u} ELSE suspect
        /\ UNCHANGED <<limiterVars, listVars, autoVars, sample, pending,
                       updateVars, connVars, ghostVars, push>>

-----------------------------------------------------------------------------
(* UpdateInboundLimiter, by the poll or the pull; no lock keeps them apart. *)

\* The limiter of the tag is looked up; without one the update is dropped.
Begins(t, users) ==
    /\ todo' = [todo EXCEPT ![t] = IF current = None THEN {} ELSE users]
    /\ aim' = [aim EXCEPT ![t] = IF users = {} THEN None ELSE current]

Updated(t) == todo[t] = {} /\ half[t] = None

\* The user's record, then the bucket.  If the other task is between the two
\* for this user, the older rate may be set last.
UpdateRecord(t) ==
    /\ half[t] = None
    /\ \E x \in todo[t] :
          LET g == aim[t]
              u == x[1]
          IN  /\ todo' = [todo EXCEPT ![t] = @ \ {x}]
              /\ record' = [record EXCEPT ![g] = [record[g] EXCEPT ![u] = x[2]]]
              /\ half' = [half EXCEPT ![t] =
                            [user |-> u, rate |-> determineRate(NodeSpeed, x[2])]]
              /\ raced' = IF \E s \in Tasks \ {t} : half[s] # None /\ half[s].user = u
                          THEN raced \cup {<<g, u>>} ELSE raced
    /\ UNCHANGED <<current, renewed, hub, online, rate, listVars, autoVars, trafficVars,
                   aim, connVars, disturbed, detached, push>>

\* SetLimit and SetBurst reach the connections that share the bucket.  With
\* no limit the bucket goes, and who has it keeps it at its old rate.
UpdateBucket(t) ==
    /\ half[t] # None
    /\ LET g == aim[t]
           u == half[t].user
       IN  IF half[t].rate > 0
           THEN /\ rate' = IF hub[g][u] = None THEN rate
                           ELSE [rate EXCEPT ![hub[g][u]] = half[t].rate]
                /\ UNCHANGED <<hub, detached>>
           ELSE /\ hub' = [hub EXCEPT ![g] = [hub[g] EXCEPT ![u] = None]]
                /\ detached' = detached \cup
                     {c \in Conns : info[c] = g /\ UserOf[c] = u}
                /\ UNCHANGED rate
    /\ half' = [half EXCEPT ![t] = None]
    /\ aim' = [aim EXCEPT ![t] = IF todo[t] = {} THEN None ELSE @]
    /\ UNCHANGED <<current, renewed, record, online, listVars, autoVars,
                   trafficVars, todo, connVars, disturbed, raced, push>>

-----------------------------------------------------------------------------
(* nodeInfoMonitor: a user's limit changes, or the node is replaced.        *)

IsLimited(u) == \E s \in Speeds : <<u, s>> \in limited

\* Users whose limit may be lost, or left, by what the poll does now.
Disturbs(users) ==
    disturbed' = disturbed \cup
                   {u \in users : pull # "idle" \/ IsLimited(u)}

\* compareUserList puts a changed user among the added ones.
PollUsers ==
    /\ poll = "idle"
    /\ \E users \in [Users -> Speeds] :
          LET added == {u \in Users : users[u] # listed[u]}
          IN  /\ added # {}
              /\ fetched' = users
              /\ Begins("poll", {<<u, users[u]>> : u \in added})
              /\ Disturbs(added)
    /\ poll' = "update"
    /\ UNCHANGED <<limiterVars, listed, autoVars, trafficVars, half, connVars,
                   detached, raced, push>>

\* DeleteInboundLimiter under the old tag.
DropLimiter ==
    /\ poll = "idle"
    /\ renewed < MaxRetags
    /\ renewed' = renewed + 1
    /\ current' = None
    /\ fetched' \in [Users -> Speeds]
    /\ poll' = "gone"
    /\ Disturbs(Users)
    /\ UNCHANGED <<record, hub, online, rate, listed, autoVars, trafficVars,
                   updateVars, connVars, detached, raced, push>>

\* addNewUser: connections may come before there is a limiter.
ServeUsers ==
    /\ poll = "gone"
    /\ pull # "release"   \* c.Tag is set under trafficMu
    /\ poll' = "served"
    /\ UNCHANGED <<limiterVars, listed, fetched, autoVars, trafficVars,
                   updateVars, connVars, ghostVars, push>>

\* In a poll c.userList and the tag's state follow; in Start, the rules.
AddInboundLimiter ==
    /\ poll \in {"served", "start"}
    /\ poll' = IF poll = "start" THEN "rules" ELSE "update"
    /\ current' = renewed + 1
    /\ record' = [record EXCEPT ![renewed + 1] = fetched]
    /\ UNCHANGED <<renewed, hub, online, rate, listed, fetched, autoVars,
                   trafficVars, updateVars, connVars, ghostVars, push>>

\* Start has the rules, or none, and starts the tasks.
StartEnds ==
    /\ poll = "rules"
    /\ poll' = "idle"
    /\ UNCHANGED <<limiterVars, listed, fetched, autoVars, trafficVars,
                   updateVars, connVars, ghostVars, push>>

\* c.userList = newUserInfo, under trafficMu.
PollEnds ==
    /\ poll = "update"
    /\ Updated("poll")
    /\ pull # "release"
    /\ listed' = fetched
    /\ poll' = "idle"
    /\ UNCHANGED <<limiterVars, fetched, autoVars, trafficVars, updateVars,
                   connVars, ghostVars, push>>

-----------------------------------------------------------------------------
(* userInfoMonitor with the auto speed limit.                               *)

\* Mutant of PullStart: the released user keeps the lower limit.
PullStartKeepsLimit ==
    /\ pull = "idle"
    /\ \E expired \in SUBSET limited :
          /\ limited' = limited \ expired
          /\ Begins("pull", {<<r[1], LimitSpeed>> : r \in expired})
    /\ pull' = "release"
    /\ disturbed' = IF poll # "idle" THEN Users ELSE disturbed
    /\ UNCHANGED <<limiterVars, listVars, warned, over, trafficVars, half,
                   connVars, detached, raced, push>>

\* unlockExpiredLimitsLocked, under trafficMu; which limits have expired is
\* up to the clock.
PullStart ==
    /\ pull = "idle"
    /\ \E expired \in SUBSET limited :
          /\ limited' = limited \ expired
          /\ Begins("pull", expired)
    /\ pull' = "release"
    /\ disturbed' = IF poll # "idle" THEN Users ELSE disturbed
    /\ UNCHANGED <<limiterVars, listVars, warned, over, trafficVars, half,
                   connVars, detached, raced, push>>

\* The user list and the counters, which still hold what no report has reset.
PullRead ==
    /\ pull = "release"
    /\ Updated("pull")
    /\ pull' = "decide"
    /\ over' = {<<u, listed[u]>> : u \in {v \in Users : counter[v] = 2}}
    /\ sample' = {u \in Users : counter[u] > 0}
    /\ moved' = [u \in Users |-> 0]
    /\ suspect' = suspect \cup read
    /\ read' = sample' \ suspect'
    /\ UNCHANGED <<limiterVars, listVars, limited, warned, counter, pending,
                   updateVars, connVars, ghostVars, push>>

\* Who is limited already is skipped; a warning stays until the limit.  The
\* panel's limit is kept as key and origin.
PullDecide ==
    /\ pull = "decide"
    /\ LET fast == over \ limited
           new  == {r \in fast : warned[r] >= WarnTimes}
       IN  /\ limited' = limited \cup new
           /\ warned' = [r \in Records |->
                           CASE r \in new        -> 0
                             [] r \in fast \ new -> warned[r] + 1
                             [] OTHER            -> warned[r]]
           /\ Begins("pull", {<<r[1], LimitSpeed>> : r \in new})
    /\ pending' = IF sample # {} THEN sample ELSE pending
    /\ over' = {} /\ sample' = {}
    /\ pull' = "limit"
    /\ UNCHANGED <<limiterVars, listVars, counter, moved, read, suspect, half,
                   connVars, ghostVars, push>>

PullEnds ==
    /\ pull = "limit"
    /\ Updated("pull")
    /\ pull' = "idle"
    /\ UNCHANGED <<limiterVars, listVars, limited, warned, over, trafficVars,
                   updateVars, connVars, ghostVars, push>>

-----------------------------------------------------------------------------
(* pushMonitor: the report, and GetOnlineDevice.                            *)

\* Mutant of PushReport: the counters of an accepted report are not reset.
PushReportNoReset(accepted, next) ==
    /\ push.pc = "idle"
    /\ UNCHANGED counter
    /\ read' = IF accepted THEN read \ pending ELSE read
    /\ pending' = {}
    /\ push' = next
    /\ UNCHANGED <<limiterVars, listVars, autoVars, sample, moved, suspect,
                   updateVars, connVars, ghostVars>>

\* A refused report leaves the counters as they are; then comes next,
\* the sweep of the limiter as it is now, or what follows it.
PushReport(accepted, next) ==
    /\ push.pc = "idle"
    /\ counter' = [u \in Users |-> IF accepted /\ u \in pending THEN 0
                                                             ELSE counter[u]]
    /\ read' = IF accepted THEN read \ pending ELSE read
    /\ pending' = {}
    /\ push' = next
    /\ UNCHANGED <<limiterVars, listVars, autoVars, sample, moved, suspect,
                   updateVars, connVars, ghostVars>>

\* Mutant of SweepLook: UserOnlineIP is not asked.
SweepLookAtAll(u) ==
    /\ push.pc = "look"
    /\ u \in push.left
    /\ push' = IF hub[push.info][u] # None
               THEN At("drop", push.info, push.left \ {u}, u)
               ELSE At("look", push.info, push.left \ {u}, None)
    /\ UNCHANGED <<limiterVars, listVars, autoVars, trafficVars, updateVars,
                   connVars, ghostVars>>

\* A bucket whose user has no entry in UserOnlineIP, then its deletion.
SweepLook(u) ==
    /\ push.pc = "look"
    /\ u \in push.left
    /\ push' = IF hub[push.info][u] # None /\ u \notin online[push.info]
               THEN At("drop", push.info, push.left \ {u}, u)
               ELSE At("look", push.info, push.left \ {u}, None)
    /\ UNCHANGED <<limiterVars, listVars, autoVars, trafficVars, updateVars,
                   connVars, ghostVars>>

SweepDrop ==
    /\ push.pc = "drop"
    /\ hub' = [hub EXCEPT ![push.info] = [hub[push.info] EXCEPT ![push.user] = None]]
    /\ push' = At("look", push.info, push.left, None)
    /\ UNCHANGED <<current, renewed, record, online, rate, listVars, autoVars,
                   trafficVars, updateVars, connVars, ghostVars>>

\* The entries are collected and reset.
SweepCollect ==
    /\ push.pc = "look"
    /\ push.left = {}
    /\ online' = [online EXCEPT ![push.info] = {}]
    /\ counted' = {c \in counted : info[c] # push.info}
    /\ push' = At("results", None, {}, None)
    /\ UNCHANGED <<current, renewed, record, hub, rate, listVars, autoVars,
                   trafficVars, updateVars, info, limit, bucket, ghostVars>>

-----------------------------------------------------------------------------
(* Properties; pc is where Connection has each connection.                  *)

SpeedTypeOK ==
    /\ current \in Infos \cup {None} /\ renewed \in 0..MaxRetags
    /\ record \in [Infos -> [Users -> Speeds \cup {0, LimitSpeed}]]
    /\ hub \in [Infos -> [Users -> Buckets \cup {None}]]
    /\ online \in [Infos -> SUBSET Users]
    /\ rate \in [Buckets -> Nat]
    /\ listed \in [Users -> Speeds] /\ fetched \in [Users -> Speeds]
    /\ limited \subseteq Records /\ over \subseteq Records
    /\ warned \in [Records -> 0..WarnTimes]
    /\ counter \in [Users -> 0..2] /\ moved \in [Users -> 0..1]
    /\ sample \cup pending \cup read \cup suspect \cup disturbed \subseteq Users
    /\ poll \in {"start", "rules", "idle", "gone", "served", "update"}
    /\ pull \in {"idle", "release", "decide", "limit"}
    /\ push.pc \in {"idle", "look", "drop", "results", "read", "report"}
    /\ todo \in [Tasks -> SUBSET (Users \X (Speeds \cup {LimitSpeed}))]
    /\ info \in [Conns -> Infos \cup {None}]
    /\ limit \in [Conns -> Nat]
    /\ bucket \in [Conns -> Buckets \cup {None}]
    /\ counted \cup detached \subseteq Conns
    /\ raced \subseteq Infos \X Users

\* Between two updates the limiter has the panel's limit for a user, or the
\* lower one while the user is limited: a limit is never lost, and never
\* outlives its release, unless the panel changed the user or the node was
\* replaced while there was a limit or the pull was at work.
RecordExplained ==
    current # None /\ poll = "idle" /\ pull = "idle" =>
        \A u \in Users \ disturbed :
           record[current][u] = IF <<u, listed[u]>> \in limited THEN LimitSpeed
                                                              ELSE listed[u]

\* Only users who moved more than the limit in one period are limited, unless
\* bytes of an earlier one were still in the counters when they were read.
InnocentNotLimited == \A r \in limited : r[1] \in suspect
=============================================================================
