----------------------------- MODULE PanelClient -----------------------------
(***************************************************************************)
(* One node's client of one panel, of any of the eight packages under api, *)
(* called by the node's two periodic tasks at once: nodeInfoMonitor pulls  *)
(* the node, the users, on some panels the alive list, and the rules;      *)
(* pushMonitor posts the status, the traffic, the online devices and the   *)
(* rule hits.  The two share the client's fields.  The panel answers a     *)
(* request some time before the client handles the answer, an operator     *)
(* edits the panel at any time, and answers may be lost or refused.        *)
(*                                                                         *)
(* The node has one account.  Init is a client whose Start has succeeded.  *)
(***************************************************************************)
EXTENDS Panels

CONSTANTS
    Kinds,        \* the packages, of AllKinds
    Cfgs,         \* local settings
    Nodes,        \* node answers the panel can give
    FirstNodes,   \* those at Start
    Limits,       \* device limits of the account on the panel
    Dues,         \* what pushMonitor may find to report
    MaxDevices,   \* bound: devices of the account on this node, and elsewhere
    MaxEdits,     \* bound: changes on the panel
    MaxFaults     \* bound: answers other than "ok" and "same"

Grants == 0..(2 * MaxDevices)
\* UserInfos of the account.
Handed == [uuid : {"uuid", "passwd", None}, passwd : {"uuid", "passwd", None},
           speed : {SpeedLimit(c, 0) : c \in Cfgs}, device : Grants, method : {Empty}]

\* Only sspanel's answers are strings that may lack a port.
ASSUME PanelConstants ==
    /\ Kinds \subseteq AllKinds
    /\ MaxDevices \in Nat /\ MaxEdits \in Nat /\ MaxFaults \in Nat
    /\ \A c \in Cfgs : c \in Settings /\ c.device <= MaxDevices
    /\ \A n \in Nodes \cup FirstNodes :
          /\ n \in NodeAnswers /\ n.clients <= MaxDevices
          /\ n.port = None => Kinds \subseteq {"SSPanel"} /\ n.users \in {{}, Error}
    /\ Limits \subseteq 0..MaxDevices
    /\ \A u \in Handed : {u} \notin Markers

VARIABLES
    kind, cfg,      \* the package and its settings
    client,         \* its fields
    node, account,  \* the panel: its node answer; the account, or None
    edits, faults,  \* counters of the bounds
    pull, push,     \* the call each monitor is in
    given,          \* the UserInfos handed over last
    dead,           \* a panic has ended the process
    current,        \* history: resources handed over as the panel has them
    dropped,        \* history: resources read last and turned into an error
    mistaken,       \* history: resources handed over last of an answer without them
    sent,           \* history: devices reported since a user list was taken
    spoilt,         \* history: what a panic may come from
    lost            \* history: calls given up because V2 was missing

panel   == <<node, account>>
bounds  == <<edits, faults>>
history == <<current, dropped, mistaken, sent, spoilt, lost>>
vars    == <<kind, cfg, client, panel, bounds, pull, push, given, dead, history>>

-----------------------------------------------------------------------------
(* Calls.                                                                  *)

Idle  == [at |-> "idle", path |-> "v2", answer |-> None, failed |-> FALSE]
Quiet == [left |-> <<>>, path |-> "v2", answer |-> None, devices |-> 0,
          booked |-> FALSE]

OnlineInFlight == /\ kind \in WithQuota
                  /\ push.left # <<>> /\ Head(push.left) = "online"
\* What the panel's answer to a request holds at this moment.
Body(at) == CASE at = "node"  -> node
              [] at = "users" -> IF account = None THEN {}
                                 ELSE {[limit |-> account.limit,
                                        alive |-> account.others + account.booked,
                                        booked |-> account.booked, speed |-> 0,
                                        method |-> Empty]}
              [] at = "rules" -> node
              [] OTHER        -> None

Path(c) == IF kind = "Xboard" THEN XB!Path(c) ELSE "v2"
Ask(at, c, failed) ==
    [at |-> at, path |-> Path(c), answer |-> None, failed |-> failed]

\* Start has succeeded: every call it made was answered.
Fine(at) == [status |-> "ok", path |-> "v2", body |-> Body(at)]
Init ==
    /\ kind \in Kinds /\ cfg \in Cfgs
    /\ cfg.old => kind = "SSPanel"     \* the only reader of DisableCustomConfig
    /\ node \in FirstNodes
    /\ \E limit \in Limits : account = [limit |-> limit, others |-> 0, booked |-> 0]
    /\ LET n == NodeReply(kind, cfg, NewClient(cfg), Fine("node"))
           u == UsersReply(kind, cfg, n.client, Fine("users"))
           r == IF kind \in AskForRules THEN RulesReply(kind, cfg, u.client, Fine("rules"))
                ELSE KeptRules(kind, u.client)
       IN  /\ n.out \notin {Error, Panic} /\ u.out \notin {Error, Panic} /\ r.out # Panic
           /\ client = r.client /\ given = u.out
    /\ current = {"node", "users"} \cup (IF kind \in AskForRules THEN {"rules"} ELSE {})
    /\ edits = 0 /\ faults = 0
    /\ pull = Idle /\ push = Quiet /\ dead = FALSE
    /\ dropped = {} /\ mistaken = {} /\ sent = 0 /\ spoilt = {} /\ lost = 0

-----------------------------------------------------------------------------
(* The panel and the network.                                              *)

\* Content that changes gets another ETag.
Changed(resources) ==
    /\ client' = [client EXCEPT !.tags = @ \ resources]
    /\ current' = current \ resources

SetNode(n) ==
    /\ edits < MaxEdits /\ n # node
    /\ node' = n /\ edits' = edits + 1
    /\ spoilt' = IF n.rules = "invalid" THEN spoilt \cup {"rules"} ELSE spoilt
    /\ Changed({"node", "rules"})
    /\ UNCHANGED <<kind, cfg, account, faults, pull, push, given, dead, dropped,
                   mistaken, sent, lost>>

SetAccount(acc) ==
    /\ edits < MaxEdits /\ acc # account
    /\ account' = acc /\ edits' = edits + 1
    /\ Changed({"users"})
    /\ UNCHANGED <<kind, cfg, node, faults, pull, push, given, dead, dropped,
                   mistaken, sent, spoilt, lost>>

\* A panel without V2 misses every such path of Xboard's: that is no fault.
Faulty(status) == status \notin {"ok", "same"} /\ ~(status = "missing" /\ kind = "Xboard")
CountFault(status, path) ==
    /\ status = "missing" /\ kind = "Xboard" => path = "v2"
    /\ Faulty(status) => faults < MaxFaults
    /\ faults' = IF Faulty(status) THEN faults + 1 ELSE faults

AnswerPull(status) ==
    /\ ~dead /\ pull.at \notin {"idle", "ended"} /\ pull.answer = None
    /\ pull.at # "rules" \/ kind \in AskForRules
    /\ status = "same" => pull.at \in client.tags
    /\ status = "nulls" => pull.at = "users" /\ kind \in Pointers
    /\ CountFault(status, pull.path)
    /\ pull' = [pull EXCEPT !.answer = [status |-> status, path |-> pull.path,
                                        body |-> Body(pull.at)]]
    /\ UNCHANGED <<kind, cfg, client, panel, edits, push, given, dead, history>>

\* An accepted report is booked; the answer to a booked one may be lost.
AnswerPush(status, booked) ==
    /\ ~dead /\ push.left # <<>> /\ push.answer = None
    /\ status \notin {"same", "nulls"}
    /\ status = "empty" => kind \in NoEnvelope
    /\ IF status = "failed" THEN TRUE ELSE booked = (status = "ok")
    /\ CountFault(status, push.path)
    /\ push' = [push EXCEPT !.answer = [status |-> status, path |-> push.path],
                            !.booked = booked]
    /\ LET alive == booked /\ OnlineInFlight /\ account # None
       IN  IF alive /\ account.booked # push.devices
           THEN /\ account' = [account EXCEPT !.booked = push.devices]
                /\ Changed({"users"})
           ELSE UNCHANGED <<account, client, current>>
    /\ UNCHANGED <<kind, cfg, node, edits, pull, given, dead, dropped, mistaken,
                   sent, spoilt, lost>>

-----------------------------------------------------------------------------
(* nodeInfoMonitor.                                                        *)

PollStarts ==
    /\ ~dead /\ pull.at = "idle"
    /\ pull' = Ask("node", client, FALSE)
    /\ UNCHANGED <<kind, cfg, client, panel, bounds, push, given, dead, history>>

\* What the client makes of the answer that has come.  It knows the ETag of
\* what the panel has now only if the panel has not changed since it answered,
\* and it has handed that over only if the answer held it.  After a panic the
\* monitor stays in the call it died of.
Come(at) == ~dead /\ pull.at = at /\ pull.answer # None
Unchanged(at) == pull.answer.body = Body(at)
Told(r) == r.out \notin Markers
Learn(r, at) ==
    LET held == Valid(pull.answer)
    IN  /\ client' = IF Unchanged(at) THEN r.client
                     ELSE [r.client EXCEPT !.tags = @ \ {at}]
        /\ dropped' = IF pull.answer.status \notin Answered THEN dropped
                      ELSE IF r.out = Error THEN dropped \cup {at} ELSE dropped \ {at}
        /\ current' = IF ~Told(r) THEN current
                      ELSE IF held /\ Unchanged(at) THEN current \cup {at}
                      ELSE current \ {at}
        /\ mistaken' = IF ~Told(r) THEN mistaken
                       ELSE IF held THEN mistaken \ {at} ELSE mistaken \cup {at}
        /\ dead' = (r.out = Panic)
\* A call ends in an error because the path it took is missing.
CountLost(call, r) ==
    lost' = IF call.answer.status = "missing" /\ call.path = "v2" /\ r.out = Error
               /\ kind = "Xboard"
            THEN lost + 1 ELSE lost

TakeNode ==
    LET r == NodeReply(kind, cfg, client, pull.answer)
    IN  /\ Come("node")
        /\ Learn(r, "node")
        /\ CountLost(pull, r)
        /\ spoilt' = CASE pull.answer.status = "ok"   -> spoilt \ {"answer"}
                       [] pull.answer.status = "same" -> spoilt
                       [] OTHER                       -> spoilt \cup {"answer"}
        /\ pull' = IF r.out = Panic THEN pull
                   ELSE IF r.out = Again THEN Ask("node", r.client, FALSE)
                   ELSE IF r.out = Error THEN Idle
                   ELSE IF r.out = NotModified THEN Ask("users", r.client, FALSE)
                   ELSE IF r.out.port = 0 THEN [Idle EXCEPT !.at = "ended"]
                   ELSE Ask("users", r.client, FALSE)
        /\ UNCHANGED <<kind, cfg, panel, bounds, push, given, sent>>

\* The quota is worked out under the access lock, which an online report
\* holds until it is answered.
TakeUsers ==
    LET r == UsersReply(kind, cfg, client, pull.answer)
        failed == r.out = Error
    IN  /\ Come("users")
        /\ WellFormed(pull.answer) => ~OnlineInFlight
        /\ Learn(r, "users")
        /\ CountLost(pull, r)
        /\ given' = IF Told(r) THEN r.out ELSE given
        /\ sent' = IF Told(r) THEN 0 ELSE sent
        /\ pull' = IF r.out = Panic THEN pull
                   ELSE IF r.out = Again THEN Ask("users", r.client, FALSE)
                   ELSE IF kind \in AliveGetters THEN Ask("alive", r.client, failed)
                   ELSE IF failed THEN Idle
                   ELSE Ask("rules", r.client, FALSE)
        /\ UNCHANGED <<kind, cfg, panel, bounds, push, spoilt>>

\* An error of GetUserAlive is logged; the one of GetUserList ends the poll.
TakeAlive ==
    LET r == AliveReply(kind, client, pull.answer)
    IN  /\ Come("alive")
        /\ client' = r.client
        /\ CountLost(pull, r)
        /\ pull' = IF r.out = Again THEN Ask("alive", r.client, pull.failed)
                   ELSE IF pull.failed THEN Idle
                   ELSE Ask("rules", r.client, FALSE)
        /\ UNCHANGED <<kind, cfg, panel, bounds, push, given, dead, current,
                       dropped, mistaken, sent, spoilt>>

TakeRules ==
    LET r == RulesReply(kind, cfg, client, pull.answer)
    IN  /\ Come("rules")
        /\ Learn(r, "rules")
        /\ pull' = IF r.out = Panic THEN pull ELSE Idle
        /\ UNCHANGED <<kind, cfg, panel, bounds, push, given, sent, spoilt, lost>>

TakeKeptRules ==
    /\ ~dead /\ pull.at = "rules" /\ kind \notin AskForRules
    /\ dead' = (KeptRules(kind, client).out = Panic)
    /\ pull' = IF dead' THEN pull ELSE Idle
    /\ UNCHANGED <<kind, cfg, client, panel, bounds, push, given, history>>

-----------------------------------------------------------------------------
(* pushMonitor.                                                            *)

\* The next request goes out; the devices it reports, told apart only where the
\* panel counts them, are those online now.
Send(left, c, devices) ==
    LET online == left # <<>> /\ Head(left) = "online" /\ kind \in WithQuota
    IN
    /\ ~online => devices = 0
    /\ push' = IF left = <<>> THEN Quiet
               ELSE [left |-> left, path |-> Path(c), answer |-> None,
                     devices |-> devices, booked |-> FALSE]
    /\ IF online
       THEN /\ client' = OnlineToReport(kind, c, devices)
            /\ sent' = devices
       ELSE client' = c /\ sent' = sent

\* There may be no traffic, no device or no hit to report.
PushStarts(due, devices) ==
    LET left == Reports(kind, client, due)
    IN  /\ ~dead /\ push.left = <<>> /\ left # <<>>
        /\ Send(left, client, devices)
        /\ UNCHANGED <<kind, cfg, panel, bounds, pull, given, dead, current,
                       dropped, mistaken, spoilt, lost>>

\* An error of one report is logged and the next one is sent.  ProxyPanel
\* sends one request per hit until one is refused.
PushGoesOn(devices, moreHits) ==
    LET at == Head(push.left)
        r == ReportReply(kind, cfg, client, at, push.answer)
        stay == r.out = Again \/ moreHits
    IN  /\ ~dead /\ push.left # <<>> /\ push.answer # None
        /\ moreHits => kind = "ProxyPanel" /\ at = "illegal" /\ r.out = "done"
        /\ r.out = Again => devices = push.devices
        /\ CountLost(push, r)
        /\ Send(IF stay THEN push.left ELSE Tail(push.left), r.client, devices)
        /\ UNCHANGED <<kind, cfg, panel, bounds, pull, given, dead, current,
                       dropped, mistaken, spoilt>>
-----------------------------------------------------------------------------
Accounts == [limit : Limits, others : 0..MaxDevices, booked : {0}] \cup {None}
SetAnyAccount ==
    \E acc \in Accounts :
       SetAccount(IF acc = None \/ account = None THEN acc
                  ELSE [acc EXCEPT !.booked = account.booked])
\* The panel forgets devices it has not heard of for a while.
Expire == /\ account # None /\ account.booked > 0
          /\ SetAccount([account EXCEPT !.booked = 0])

Environment == \/ \E n \in Nodes : SetNode(n)
               \/ SetAnyAccount
               \/ Expire
               \/ \E status \in Statuses : AnswerPull(status)
               \/ \E status \in Statuses, booked \in BOOLEAN : AnswerPush(status, booked)

Pulling == PollStarts \/ TakeNode \/ TakeUsers \/ TakeAlive \/ TakeRules \/ TakeKeptRules
Pushing == \E devices \in 0..MaxDevices :
              \/ \E due \in Dues : PushStarts(due, devices)
              \/ \E moreHits \in BOOLEAN : PushGoesOn(devices, moreHits)

Next == Environment \/ Pulling \/ Pushing
Spec == Init /\ [][Next]_vars

-----------------------------------------------------------------------------
(* Properties.                                                             *)

Resources == {"node", "users", "rules"}
\* Types of all variables; a grant of devices is never negative.
TypeOK ==
    /\ kind \in Kinds /\ cfg \in Cfgs /\ node \in Nodes \cup FirstNodes
    /\ account = None \/ account \in [limit : Limits, others : 0..MaxDevices,
                                      booked : 0..MaxDevices]
    /\ client.tags \subseteq Resources /\ client.last \in 0..MaxDevices
    /\ client.device \in 0..MaxDevices /\ client.useV1 \in BOOLEAN
    /\ edits \in 0..MaxEdits /\ faults \in 0..MaxFaults
    /\ pull.at \in Resources \cup {"alive", "idle", "ended"}
    /\ pull.path \in {"v1", "v2"} /\ pull.failed \in BOOLEAN
    /\ push.path \in {"v1", "v2"} /\ push.booked \in BOOLEAN
    /\ push.devices \in 0..MaxDevices
    /\ \A u \in given : u.device \in Grants
    /\ dead \in BOOLEAN
    /\ current \subseteq Resources /\ dropped \subseteq Resources
    /\ mistaken \subseteq Resources
    /\ sent \in 0..MaxDevices /\ spoilt \subseteq {"rules", "answer"}
    /\ lost \in Nat

\* A client that would be answered 304 has handed over what the panel has, or
\* has turned it into an error: every GetX stores the ETag of an answer first
\* and looks at the answer afterwards.  Those of V2board's family never hand
\* over anything else; sspanel, bunpanel and v2raysocks also take an answer
\* that holds no node or no list for a node or an empty list, and then the
\* ETag they hold, that of the answer or one from before, keeps it so.
StaleOnlyIfDropped ==
    dead \/ client.tags \subseteq
              current \cup dropped \cup (IF kind \in TakeEmpty THEN mistaken ELSE {})

\* The process ends in a panic of a panel's client only in these calls, on
\* these answers:
\*  - the panel's rules are compiled, and there was one that is no regular
\*    expression;
\*  - sspanel, old format: the string lacks what the parser indexes, or, read of
\*    an answer that holds nothing, is empty;
\*  - pmpanel: an answer to the request for the users holds no list;
\*  - proxypanel and V2board's family: the list of users has a null in it;
\*  - v2raysocks: an answer about the node was lost, refused or held none.
DeathHasCause ==
    dead =>
       \/ pull.at = "rules" /\ "rules" \in spoilt
       \/ pull.at = "node" /\ kind = "SSPanel" /\ Content(pull.answer).raw # "whole"
       \/ pull.at = "users" /\ kind = "PMPanel" /\ pull.answer.status = "empty"
       \/ pull.at = "users" /\ kind \in Pointers /\ pull.answer.status = "nulls"
       \/ pull.at \in {"node", "rules"} /\ kind = "V2RaySocks" /\ "answer" \in spoilt

\* However the two monitors run into the missing V2 API, Xboard's fallback fails
\* at most one call: whoever finds it missing first sends its request again.
\* (A report of the online devices or of the status that is lost to the missing
\* V2 and returns nil all the same is no failed call and is not counted.)
OneRacerLost == lost <= 1

\* A traffic report returns nil, and pushMonitor resets the counters, only if
\* the panel has booked it; except where a body that says no is not read:
\* V2board's family reads none, v2raysocks looks for JSON and a status up to 400.
Unread == \/ /\ kind \in {"NewV2board", "GoV2Panel", "Xboard"}
             /\ push.answer.status \in {"garbled", "empty"}
          \/ kind = "V2RaySocks" /\ push.answer.status \in {"refused", "empty"}
NilMeansBooked ==
    [][push.answer # None /\ push.answer' = None /\ Head(push.left) = "traffic"
         => \/ ReportReply(kind, cfg, client, "traffic", push.answer).out # "done"
            \/ push.booked \/ Unread]_vars

\* A user list is taken of an account the panel has; the panel counted this
\* node's devices exactly as the client had reported them.
Takes == pull.at = "users" /\ pull.at' # "users" /\ pull.answer.status = "ok"
Had   == CHOOSE a \in pull.answer.body : TRUE
Counted == Had.booked = sent
LimitOf(a) == DeviceLimit(cfg, a.limit)

\* The device quota (sspanel, bunpanel): unless the panel's count and the
\* client's memory of its own devices differ, an account gets here what others
\* leave it, or no more than the devices it had here.
NoOvergrant ==
    [][Takes /\ kind \in WithQuota /\ pull.answer.body # {} /\ Counted =>
         \A u \in given' :
            LimitOf(Had) > 0 =>
               \/ u.device > 0 /\ u.device + (Had.alive - Had.booked) <= LimitOf(Had)
               \/ u.device \in 1..sent]_vars

\* A user leaves the node only for a cause: the account is gone, other devices
\* fill its limit and none was reported from here, the panel counts devices the
\* client no longer remembers, or an answer without a list was taken for an
\* empty one, which pmpanel and V2board's family never do.
Emptied == \/ pull.answer.status = "refused" /\ kind = "V2RaySocks"
           \/ pull.answer.status = "empty" /\ kind \in TakeEmpty \ {"PMPanel"}
LeavesForCause ==
    [][given # {} /\ given' = {} =>
         \/ pull.answer.body = {}
         \/ Emptied
         \/ /\ kind \in WithQuota
            /\ \/ Had.alive - Had.booked >= LimitOf(Had) /\ sent = 0
               \/ Had.booked > sent]_vars
=============================================================================
