------------------------------ MODULE NodeSync ------------------------------
(***************************************************************************)
(* How a running node follows its panel.  On every pull interval           *)
(* nodeInfoMonitor fetches the node's configuration and the user list,     *)
(* each behind an ETag, compares them with what the Controller holds, and  *)
(* brings xray-core in line: a changed configuration replaces the inbound  *)
(* and everything registered under its tag, a changed user list is applied *)
(* as a difference.                                                        *)
(*                                                                         *)
(* The panel client is the Xboard one.  It stores an ETag as soon as the   *)
(* answer has been read, before the Controller has done anything with it.  *)
(* Any call may fail; the monitor then logs, returns, and polls again.     *)
(* Shadowsocks-Plugin nodes (two inbounds) are left out, and so is         *)
(* DisableGetRule.                                                         *)
(***************************************************************************)
EXTENDS Integers

CONSTANTS
    Ports,      \* listening ports; a node's tag is type_ip_port, so a port
    NoPort,     \* the port of a configuration the client refuses
    Settings,   \* everything else in api.NodeInfo
    RuleSets,   \* block rules the panel can publish
    NoRules,    \* no block rule at all
    Uids,       \* user ids; the email in xray-core derives from it
    Accounts,   \* everything else in api.UserInfo
    Malformed,  \* accounts ToMemoryUser refuses
    Down,       \* no inbound, in NodeReplica
    Faults,     \* which calls may fail, of PossibleFaults
    MaxEdits    \* bound: edits made on the panel

PossibleFaults == {"users", "emptyUsers", "alive", "build", "start",
                   "outbound"}

ASSUME SyncConstants ==
    /\ NoPort \notin Ports
    /\ NoRules \notin RuleSets
    /\ Malformed \subseteq Accounts
    /\ Faults \subseteq PossibleFaults
    /\ MaxEdits \in Nat

\* What the panel's config endpoint answers, and the api.NodeInfo parsed
\* from it.  The block rules travel with the configuration but are no part
\* of NodeInfo.
Configs == [port : Ports \cup {NoPort}, settings : Settings,
            routes : RuleSets \cup {NoRules}]
NodeInfos == [port : Ports, settings : Settings]
Info(config) == [port |-> config.port, settings |-> config.settings]

UserInfos == [uid : Uids, account : Accounts]
IdsOf(users) == {u.uid : u \in users}
UserLists == {L \in SUBSET UserInfos :
                 \A u, v \in L : u.uid = v.uid => u = v}

ASSUME DownIsNothing == Down \notin [node : NodeInfos, users : UserLists]

buildNodeTag(info) == info.port

\* Registries are functions on the tags they hold.
With(f, k, v) == [x \in DOMAIN f \cup {k} |-> IF x = k THEN v ELSE f[x]]
Without(f, k) == [x \in DOMAIN f \ {k} |-> f[x]]

VARIABLES
    panelNode, panelUsers, edits,  \* the panel's database
    etagNode, etagUsers,           \* APIClient.eTags: the content last read
    resp,                          \* APIClient.resp: rules of the last config
    pc, poll,                      \* nodeInfoMonitor and its locals
    nodeInfo, Tag, userList,       \* the Controller
    inbounds, outbounds,           \* xray-core's handlers by tag
    limiters, rules,               \* the dispatcher's registries by tag
    intact                         \* history: no call of an update failed

panel  == <<panelNode, panelUsers, edits>>
client == <<etagNode, etagUsers, resp>>
books  == <<nodeInfo, Tag, userList>>
core   == <<inbounds, outbounds, limiters, rules>>
vars   == <<panel, client, pc, poll, books, core, intact>>

\* The locals of a poll: newNodeInfo, nodeInfoChanged, newUserInfo, and
\* what GetUserList returned.
NoPoll == [node |-> nodeInfo, nodeChanged |-> FALSE, users |-> {},
           usersResult |-> "none"]

\* return nil: the poll is over, the task will run again.
Return == /\ pc' = "idle"
          /\ poll' = [node |-> nodeInfo', nodeChanged |-> FALSE,
                      users |-> {}, usersResult |-> "none"]

Handler(info, listening, users) ==
    [info |-> info, listening |-> listening, users |-> users]

\* Start has succeeded.
Init ==
    /\ panelNode \in {c \in Configs : c.port # NoPort}
    /\ panelUsers \in {L \in UserLists :
                          L # {} /\ \A u \in L : u.account \notin Malformed}
    /\ edits = 0
    /\ etagNode = panelNode
    /\ etagUsers = panelUsers
    /\ resp = panelNode.routes
    /\ nodeInfo = Info(panelNode)
    /\ Tag = buildNodeTag(nodeInfo)
    /\ userList = panelUsers
    /\ pc = "idle"
    /\ poll = NoPoll
    /\ inbounds = [t \in {Tag} |-> Handler(nodeInfo, TRUE, userList)]
    /\ outbounds = {Tag}
    /\ \E ok \in BOOLEAN :
          /\ ok \/ "alive" \in Faults
          /\ limiters = [t \in {Tag} |-> [users |-> userList, alive |-> ok]]
    /\ rules = [t \in (IF resp # NoRules THEN {Tag} ELSE {}) |-> resp]
    /\ intact = TRUE

-----------------------------------------------------------------------------
(* The panel.  An operator edits it at any time.                           *)

SetConfig(c) ==
    /\ edits < MaxEdits
    /\ panelNode' = c
    /\ edits' = edits + 1
    /\ UNCHANGED <<panelUsers, client, pc, poll, books, core, intact>>

SetUsers(L) ==
    /\ edits < MaxEdits
    /\ L # {} \/ "emptyUsers" \in Faults
    /\ panelUsers' = L
    /\ edits' = edits + 1
    /\ UNCHANGED <<panelNode, client, pc, poll, books, core, intact>>

-----------------------------------------------------------------------------
(* Fetching.  A GetNodeInfo that fails before it has read an answer leaves *)
(* everything as it is, and the poll returns.                              *)

NodeNotModified ==
    /\ pc = "idle"
    /\ panelNode = etagNode
    /\ pc' = "users"
    /\ poll' = NoPoll
    /\ UNCHANGED <<panel, client, books, core, intact>>

NodeReceived ==
    /\ pc = "idle"
    /\ panelNode # etagNode
    /\ panelNode.port # NoPort
    /\ etagNode' = panelNode
    /\ resp' = panelNode.routes
    /\ pc' = "users"
    /\ poll' = [NoPoll EXCEPT !.node = Info(panelNode), !.nodeChanged = TRUE]
    /\ UNCHANGED <<panel, etagUsers, books, core, intact>>

\* "server port must > 0": refused, but its ETag has been stored.
NodeRefused ==
    /\ pc = "idle"
    /\ panelNode # etagNode
    /\ panelNode.port = NoPort
    /\ etagNode' = panelNode
    /\ UNCHANGED <<panel, etagUsers, resp, pc, poll, books, core, intact>>

UsersFetched(users, result) ==
    /\ pc = "users"
    /\ poll' = [poll EXCEPT !.users = users, !.usersResult = result]
    /\ pc' = "alive"
    /\ UNCHANGED <<panel, etagNode, resp, books, core, intact>>

UsersNotModified ==
    /\ panelUsers = etagUsers
    /\ UsersFetched(userList, "same")
    /\ UNCHANGED etagUsers

UsersReceived ==
    /\ panelUsers # etagUsers
    /\ panelUsers # {}
    /\ UsersFetched(panelUsers, "new")
    /\ etagUsers' = panelUsers

\* "users is null": an error, but its ETag has been stored.
UsersNull ==
    /\ panelUsers # etagUsers
    /\ panelUsers = {}
    /\ UsersFetched({}, "failed")
    /\ etagUsers' = panelUsers

UsersFailed ==
    /\ "users" \in Faults
    /\ UsersFetched({}, "failed")
    /\ UNCHANGED etagUsers

\* Mutant of NodeInfoChanged: only the tag is compared.
TagChanged == poll.nodeChanged /\ buildNodeTag(poll.node) # Tag

\* reflect.DeepEqual on the two NodeInfos.
NodeInfoChanged == poll.nodeChanged /\ poll.node # nodeInfo

\* fetchAliveList and SetAliveList, under the tag of before the update; then
\* the error of GetUserList is looked at, and the configurations compared.
FetchAlive(ok) ==
    /\ pc = "alive"
    /\ ok \/ "alive" \in Faults
    /\ limiters' = IF ok /\ Tag \in DOMAIN limiters
                   THEN [limiters EXCEPT ![Tag].alive = TRUE]
                   ELSE limiters
    /\ IF poll.usersResult = "failed"
       THEN UNCHANGED books /\ Return
       ELSE /\ poll' = [poll EXCEPT !.nodeChanged = NodeInfoChanged]
            /\ pc' = IF NodeInfoChanged THEN "replace" ELSE "rules"
            /\ UNCHANGED books
    /\ UNCHANGED <<panel, client, inbounds, outbounds, rules, intact>>

-----------------------------------------------------------------------------
(* Replacing the inbound.                                                  *)

\* Mutant of RemoveOldTag: the rule manager's entry stays.
RemoveOldTagKeepsRules ==
    /\ pc = "replace"
    /\ Tag \in DOMAIN inbounds
    /\ inbounds' = Without(inbounds, Tag)
    /\ outbounds' = outbounds \ {Tag}
    /\ limiters' = Without(limiters, Tag)
    /\ nodeInfo' = poll.node
    /\ Tag' = buildNodeTag(poll.node)
    /\ pc' = "inbound"
    /\ UNCHANGED <<panel, client, poll, userList, rules, intact>>

\* Mutant of RemoveOldTag: the inbound is left to be replaced by the new one.
RemoveOldTagKeepsInbound ==
    /\ pc = "replace"
    /\ Tag \in DOMAIN inbounds
    /\ outbounds' = outbounds \ {Tag}
    /\ limiters' = Without(limiters, Tag)
    /\ rules' = Without(rules, Tag)
    /\ nodeInfo' = poll.node
    /\ Tag' = buildNodeTag(poll.node)
    /\ pc' = "inbound"
    /\ UNCHANGED <<panel, client, poll, userList, inbounds, intact>>

\* removeOldTag, DeleteInboundLimiter, RemoveInbound, then the new tag.
RemoveOldTag ==
    /\ pc = "replace"
    /\ Tag \in DOMAIN inbounds
    /\ inbounds' = Without(inbounds, Tag)
    /\ outbounds' = outbounds \ {Tag}
    /\ limiters' = Without(limiters, Tag)
    /\ rules' = Without(rules, Tag)
    /\ nodeInfo' = poll.node
    /\ Tag' = buildNodeTag(poll.node)
    /\ pc' = "inbound"
    /\ UNCHANGED <<panel, client, poll, userList, intact>>

\* RemoveHandler fails on a tag that is not registered.
RemoveOldTagFails ==
    /\ pc = "replace"
    /\ Tag \notin DOMAIN inbounds
    /\ UNCHANGED books
    /\ Return
    /\ UNCHANGED <<panel, client, core, intact>>

AddInbound ==
    /\ pc = "inbound"
    /\ inbounds' = With(inbounds, Tag, Handler(nodeInfo, TRUE, {}))
    /\ pc' = "outbound"
    /\ UNCHANGED <<panel, client, poll, books, outbounds, limiters, rules,
                   intact>>

\* InboundBuilder fails, or xray-core cannot create the handler.
BuildFails ==
    /\ pc = "inbound"
    /\ "build" \in Faults
    /\ intact' = FALSE
    /\ UNCHANGED books
    /\ Return
    /\ UNCHANGED <<panel, client, core>>

\* AddHandler registers the handler before it starts it.
StartFails ==
    /\ pc = "inbound"
    /\ "start" \in Faults
    /\ inbounds' = With(inbounds, Tag, Handler(nodeInfo, FALSE, {}))
    /\ intact' = FALSE
    /\ UNCHANGED books
    /\ Return
    /\ UNCHANGED <<panel, client, outbounds, limiters, rules>>

AddOutbound ==
    /\ pc = "outbound"
    /\ outbounds' = outbounds \cup {Tag}
    /\ pc' = "rules"
    /\ UNCHANGED <<panel, client, poll, books, inbounds, limiters, rules,
                   intact>>

AddOutboundFails ==
    /\ pc = "outbound"
    /\ "outbound" \in Faults
    /\ intact' = FALSE
    /\ UNCHANGED books
    /\ Return
    /\ UNCHANGED <<panel, client, core>>

\* Mutant of CheckRule: rules are only looked at with a new inbound.
CheckRuleOfNewNode ==
    /\ pc = "rules"
    /\ rules' = IF resp # NoRules /\ poll.nodeChanged
                THEN With(rules, Tag, resp) ELSE rules
    /\ pc' = IF poll.nodeChanged THEN "addAll" ELSE "remove"
    /\ UNCHANGED <<panel, client, poll, books, inbounds, outbounds, limiters,
                   intact>>

\* GetNodeRule reads the last configuration; an empty list is not applied.
CheckRule ==
    /\ pc = "rules"
    /\ rules' = IF resp # NoRules THEN With(rules, Tag, resp) ELSE rules
    /\ pc' = IF poll.nodeChanged THEN "addAll" ELSE "remove"
    /\ UNCHANGED <<panel, client, poll, books, inbounds, outbounds, limiters,
                   intact>>

-----------------------------------------------------------------------------
(* Users.  addUsers and removeUsers stop at their first error.             *)

Users(t) == IF t \in DOMAIN inbounds THEN inbounds[t].users ELSE {}

\* Mutant of CanAdd: an email may be added twice.
CanAddAgain(u) == Tag \in DOMAIN inbounds /\ u.account \notin Malformed

\* AddUser refuses a malformed account and an email it already has.
CanAdd(u) == /\ Tag \in DOMAIN inbounds
             /\ u.account \notin Malformed
             /\ u.uid \notin IdsOf(Users(Tag))

\* The subsets addUsers may have added when it is done with a list, whose
\* order is the panel's or a map's: all, or some before one it cannot add.
Added(list) == IF \A u \in list : CanAdd(u) THEN {list}
                                            ELSE SUBSET {u \in list : CanAdd(u)}

\* The ids removeUsers may have removed.
Removed(list) ==
    IF IdsOf(list) \subseteq IdsOf(Users(Tag))
    THEN {IdsOf(list)}
    ELSE SUBSET (IdsOf(list) \cap IdsOf(Users(Tag)))

SetHandlerUsers(users) ==
    inbounds' = IF Tag \in DOMAIN inbounds
                THEN [inbounds EXCEPT ![Tag] =
                        Handler(@.info, @.listening, users)]
                ELSE inbounds

\* A new inbound gets all users, and then its limiter, without an alive list.
AddAllUsers ==
    /\ pc = "addAll"
    /\ \A u \in poll.users : CanAdd(u)
    /\ SetHandlerUsers(Users(Tag) \cup poll.users)
    /\ pc' = "limiter"
    /\ UNCHANGED <<panel, client, poll, books, outbounds, limiters, rules,
                   intact>>

AddAllUsersFails ==
    /\ pc = "addAll"
    /\ \E u \in poll.users : ~CanAdd(u)
    /\ \E A \in Added(poll.users) : SetHandlerUsers(Users(Tag) \cup A)
    /\ intact' = FALSE
    /\ UNCHANGED books
    /\ Return
    /\ UNCHANGED <<panel, client, outbounds, limiters, rules>>

AddInboundLimiter ==
    /\ pc = "limiter"
    /\ limiters' = With(limiters, Tag, [users |-> poll.users, alive |-> FALSE])
    /\ userList' = poll.users
    /\ UNCHANGED <<nodeInfo, Tag>>
    /\ Return
    /\ UNCHANGED <<panel, client, inbounds, outbounds, rules, intact>>

\* Mutant of AddedUsers: users are compared by their id.
NewIds == IF poll.usersResult = "new"
          THEN {u \in poll.users : u.uid \notin IdsOf(userList)} ELSE {}

\* compareUserList.
DeletedUsers == IF poll.usersResult = "new" THEN userList \ poll.users ELSE {}
AddedUsers   == IF poll.usersResult = "new" THEN poll.users \ userList ELSE {}

\* An error is logged and the update goes on.
RemoveUsers ==
    /\ pc = "remove"
    /\ \E R \in Removed(DeletedUsers) :
          SetHandlerUsers({u \in Users(Tag) : u.uid \notin R})
    /\ intact' = (intact /\ IdsOf(DeletedUsers) \subseteq IdsOf(Users(Tag)))
    /\ pc' = "add"
    /\ UNCHANGED <<panel, client, poll, books, outbounds, limiters, rules>>

\* addNewUser, UpdateInboundLimiter, and c.userList = newUserInfo, whatever
\* the errors.
AddUsers ==
    /\ pc = "add"
    /\ \E A \in Added(AddedUsers) : SetHandlerUsers(Users(Tag) \cup A)
    /\ intact' = (intact /\ \A u \in AddedUsers : CanAdd(u))
    /\ limiters' =
         IF Tag \in DOMAIN limiters
         THEN [limiters EXCEPT ![Tag].users =
                 {u \in @ : u.uid \notin IdsOf(AddedUsers)} \cup AddedUsers]
         ELSE limiters
    /\ userList' = poll.users
    /\ UNCHANGED <<nodeInfo, Tag>>
    /\ Return
    /\ UNCHANGED <<panel, client, outbounds, rules>>

-----------------------------------------------------------------------------
Edit == (\E c \in Configs : SetConfig(c)) \/ (\E L \in UserLists : SetUsers(L))

Fetch == NodeNotModified \/ NodeReceived \/ NodeRefused
         \/ UsersNotModified \/ UsersReceived \/ UsersNull \/ UsersFailed
         \/ (\E ok \in BOOLEAN : FetchAlive(ok))

Replace == RemoveOldTag \/ RemoveOldTagFails \/ AddInbound \/ BuildFails
           \/ StartFails \/ AddOutbound \/ AddOutboundFails \/ CheckRule

UpdateUsers == AddAllUsers \/ AddAllUsersFails \/ AddInboundLimiter
               \/ RemoveUsers \/ AddUsers

Monitor == Fetch \/ Replace \/ UpdateUsers

Next == Edit \/ Monitor

Spec == Init /\ [][Next]_vars

\* The periodic task keeps firing and every call returns.
FairSpec == Spec /\ WF_vars(Monitor)

-----------------------------------------------------------------------------
(* Properties.                                                             *)

Handlers == [info : NodeInfos, listening : BOOLEAN, users : UserLists]
Limiters == [users : SUBSET UserInfos, alive : BOOLEAN]

TypeOK ==
    /\ panelNode \in Configs
    /\ panelUsers \in UserLists
    /\ edits \in 0..MaxEdits
    /\ etagNode \in Configs
    /\ etagUsers \in UserLists
    /\ resp \in RuleSets \cup {NoRules}
    /\ pc \in {"idle", "users", "alive", "replace", "inbound", "outbound",
               "rules", "addAll", "limiter", "remove", "add"}
    /\ poll \in [node : NodeInfos, nodeChanged : BOOLEAN, users : UserLists,
                 usersResult : {"none", "same", "new", "failed"}]
    /\ nodeInfo \in NodeInfos
    /\ Tag \in Ports
    /\ userList \in UserLists
    /\ DOMAIN inbounds \subseteq Ports
    /\ \A t \in DOMAIN inbounds : inbounds[t] \in Handlers
    /\ outbounds \subseteq Ports
    /\ DOMAIN limiters \subseteq Ports
    /\ \A t \in DOMAIN limiters : limiters[t] \in Limiters
    /\ DOMAIN rules \subseteq Ports
    /\ \A t \in DOMAIN rules : rules[t] \in RuleSets
    /\ intact \in BOOLEAN

\* Whatever fails, nothing is ever registered under a tag that is not the
\* Controller's: no inbound keeps listening, no limiter and no rule set
\* leaks when a node is re-tagged.
NothingLeftBehind ==
    /\ DOMAIN inbounds \subseteq {Tag}
    /\ outbounds \subseteq {Tag}
    /\ DOMAIN limiters \subseteq {Tag}
    /\ DOMAIN rules \subseteq {Tag}

\* As long as no call of an update has failed (the fetches may have), the
\* Controller between two polls knows exactly what xray-core serves: the
\* inbound is built from nodeInfo, listens, has the users of userList with
\* their accounts, and the limiter has each of them as it is in the list.
BooksMatchCore ==
    pc = "idle" /\ intact =>
        /\ Tag = buildNodeTag(nodeInfo)
        /\ DOMAIN inbounds = {Tag}
        /\ inbounds[Tag] = Handler(nodeInfo, TRUE, userList)
        /\ outbounds = {Tag}
        /\ DOMAIN limiters = {Tag}
        /\ \A u \in userList :
              {v \in limiters[Tag].users : v.uid = u.uid} = {u}

\* "StatusCode = 304 means no changed": when the panel answers that nothing
\* changed since the ETag, the Controller has what the panel publishes (a
\* configuration without a port aside).
NotModifiedMeansCurrent ==
    [][/\ NodeNotModified /\ panelNode.port # NoPort =>
              nodeInfo = Info(panelNode)
       /\ UsersNotModified => userList = panelUsers]_vars

Serves(config, users) ==
    /\ config.port \in DOMAIN inbounds
    /\ inbounds[config.port] = Handler(Info(config), TRUE, users)
    /\ config.port \in DOMAIN limiters
    /\ users \subseteq limiters[config.port].users
    /\ config.routes # NoRules =>
          config.port \in DOMAIN rules /\ rules[config.port] = config.routes

\* When the panel is left alone, the node ends up serving what it publishes.
Converges == <>[](panelNode.port # NoPort => Serves(panelNode, panelUsers))

-----------------------------------------------------------------------------
(* NodeSync implements NodeReplica.                                         *)

Served == IF Tag \in DOMAIN inbounds
          THEN [node |-> inbounds[Tag].info, users |-> inbounds[Tag].users]
          ELSE Down

Replica == INSTANCE NodeReplica WITH
    Nodes <- {Info(c) : c \in Configs}, Lists <- UserLists,
    publishedNode <- Info(panelNode), publishedUsers <- panelUsers,
    readNode <- Info(etagNode), readUsers <- etagUsers,
    acceptedUsers <- userList, served <- Served

\* The monitor's steps, the broken off ones too, are steps of a replica: a new
\* description is served only after the old one has been taken down, with the
\* users of the list read last or of the one in use.
ImplementsReplica == Replica!Spec
=============================================================================
