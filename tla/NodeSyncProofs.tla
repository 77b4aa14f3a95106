--------------------------- MODULE NodeSyncProofs ---------------------------
(***************************************************************************)
(* Proofs about NodeSync: for every number of ports, users and accounts,   *)
(* every set of calls that may fail and any number of edits.               *)
(***************************************************************************)
EXTENDS NodeSync, TLAPS

\* Every action of the monitor and of the panel, one disjunct each.
LEMMA NextCases ==
    ASSUME [Next]_vars
    PROVE  \/ \E c \in Configs : SetConfig(c)
           \/ \E L \in UserLists : SetUsers(L)
           \/ NodeNotModified \/ NodeReceived \/ NodeRefused
           \/ UsersNotModified \/ UsersReceived \/ UsersNull \/ UsersFailed
           \/ \E ok \in BOOLEAN : FetchAlive(ok)
           \/ RemoveOldTag \/ RemoveOldTagFails \/ AddInbound \/ BuildFails
           \/ StartFails \/ AddOutbound \/ AddOutboundFails \/ CheckRule
           \/ AddAllUsers \/ AddAllUsersFails \/ AddInboundLimiter
           \/ RemoveUsers \/ AddUsers
           \/ UNCHANGED vars
  BY DEF Next, Edit, Monitor, Fetch, Replace, UpdateUsers

\* Nothing stays registered under a tag the Controller has left, whichever
\* calls fail and however often the node is re-tagged.
THEOREM NoLeftovers == Spec => []NothingLeftBehind
  <1>1. Init => NothingLeftBehind
    BY DEF Init, NothingLeftBehind
  <1>2. NothingLeftBehind /\ [Next]_vars => NothingLeftBehind'
    <2> SUFFICES ASSUME NothingLeftBehind, [Next]_vars
                 PROVE  NothingLeftBehind'
      OBVIOUS
    <2> USE DEF NothingLeftBehind
    <2>1. CASE UNCHANGED <<Tag, core>>
      BY <2>1 DEF core
    <2>2. ASSUME NEW ok \in BOOLEAN, FetchAlive(ok) PROVE NothingLeftBehind'
      <3>1. DOMAIN limiters' = DOMAIN limiters
        BY <2>2 DEF FetchAlive
      <3>2. UNCHANGED <<Tag, inbounds, outbounds, rules>>
        BY <2>2 DEF FetchAlive, books
      <3> QED BY <3>1, <3>2
    <2>3. CASE RemoveOldTag
      BY <2>3 DEF RemoveOldTag, Without
    <2>4. CASE AddInbound \/ StartFails
      BY <2>4 DEF AddInbound, StartFails, With, books
    <2>5. CASE AddOutbound
      BY <2>5 DEF AddOutbound, books
    <2>6. CASE CheckRule
      BY <2>6 DEF CheckRule, With, books
    <2>7. ASSUME NEW users, SetHandlerUsers(users)
          PROVE  DOMAIN inbounds' = DOMAIN inbounds
      BY <2>7 DEF SetHandlerUsers
    <2>8. CASE AddAllUsers \/ AddAllUsersFails \/ RemoveUsers
      BY <2>7, <2>8 DEF AddAllUsers, AddAllUsersFails, RemoveUsers, books
    <2>9. CASE AddInboundLimiter
      BY <2>9 DEF AddInboundLimiter, With
    <2>10. CASE AddUsers
      <3>1. DOMAIN limiters' = DOMAIN limiters
        BY <2>10 DEF AddUsers
      <3> QED BY <2>7, <2>10, <3>1 DEF AddUsers
    <2>11. CASE \/ \E c \in Configs : SetConfig(c)
                \/ \E L \in UserLists : SetUsers(L)
                \/ NodeNotModified \/ NodeReceived \/ NodeRefused
      BY <2>11, <2>1 DEF SetConfig, SetUsers, NodeNotModified, NodeReceived,
                         NodeRefused, books
    <2>12. CASE UsersNotModified \/ UsersReceived \/ UsersNull \/ UsersFailed
      BY <2>12, <2>1 DEF UsersNotModified, UsersReceived, UsersNull,
                         UsersFailed, UsersFetched, books
    <2>13. CASE RemoveOldTagFails \/ BuildFails \/ AddOutboundFails
      BY <2>13, <2>1 DEF RemoveOldTagFails, BuildFails, AddOutboundFails,
                         books
    <2>14. CASE UNCHANGED vars
      BY <2>14, <2>1 DEF vars, books
    <2> QED
      BY NextCases, <2>2, <2>3, <2>4, <2>5, <2>6, <2>8, <2>9, <2>10, <2>11,
         <2>12, <2>13, <2>14
  <1> QED BY <1>1, <1>2, PTL DEF Spec

-----------------------------------------------------------------------------
(* Type correctness.                                                       *)

\* A configuration with a port parses to a NodeInfo.
LEMMA InfoType ==
    \A c \in Configs : c.port # NoPort => Info(c) \in NodeInfos
  BY DEF Configs, NodeInfos, Info

\* Lists stay lists of distinct users: when users are dropped, and when
\* users that can be added are added.
LEMMA ListTypes ==
    ASSUME TypeOK
    PROVE  /\ {} \in UserLists
           /\ Users(Tag) \in UserLists
           /\ \A L \in UserLists : \A S \in SUBSET L : S \in UserLists
           /\ \A L \in UserLists : \A A \in Added(L) :
                 Users(Tag) \cup A \in UserLists
  <1>1. {} \in UserLists /\ Users(Tag) \in UserLists
    BY DEF UserLists, Users, TypeOK, Handlers
  <1>2. \A L \in UserLists : \A S \in SUBSET L : S \in UserLists
    BY DEF UserLists
  <1>3. ASSUME NEW L \in UserLists, NEW A \in Added(L)
        PROVE  Users(Tag) \cup A \in UserLists
    <2>1. A \subseteq L /\ \A u \in A : CanAdd(u)
      BY DEF Added
    <2>2. \A u \in A : \A v \in Users(Tag) : u.uid # v.uid
      BY <2>1 DEF CanAdd, IdsOf
    <2> QED BY <1>1, <2>1, <2>2 DEF UserLists
  <1> QED BY <1>1, <1>2, <1>3

\* Setting the users of the Controller's inbound keeps the registry typed.
LEMMA SetHandlerUsersType ==
    ASSUME TypeOK, NEW users \in UserLists, SetHandlerUsers(users)
    PROVE  /\ DOMAIN inbounds' \subseteq Ports
           /\ \A t \in DOMAIN inbounds' : inbounds'[t] \in Handlers
  BY DEF SetHandlerUsers, Handler, TypeOK, Handlers

\* Every variable keeps its type; in particular no inbound, and no list of
\* the Controller, ever holds two entries of one user.
THEOREM SyncTypeCorrect == Spec => []TypeOK
  <1> USE SyncConstants
  <1>1. Init => TypeOK
    <2> SUFFICES ASSUME Init PROVE TypeOK
      OBVIOUS
    <2>1. /\ nodeInfo \in NodeInfos /\ Tag \in Ports
          /\ userList \in UserLists /\ resp \in RuleSets \cup {NoRules}
      BY DEF Init, Configs, NodeInfos, Info, buildNodeTag
    <2>2. poll \in [node : NodeInfos, nodeChanged : BOOLEAN,
                    users : UserLists,
                    usersResult : {"none", "same", "new", "failed"}]
      BY <2>1 DEF Init, NoPoll, UserLists
    <2>3. /\ DOMAIN inbounds \subseteq Ports
          /\ \A t \in DOMAIN inbounds : inbounds[t] \in Handlers
      BY <2>1 DEF Init, Handler, Handlers
    <2>4. /\ DOMAIN limiters \subseteq Ports
          /\ \A t \in DOMAIN limiters : limiters[t] \in Limiters
      BY <2>1 DEF Init, Limiters, UserLists
    <2>5. /\ DOMAIN rules \subseteq Ports
          /\ \A t \in DOMAIN rules : rules[t] \in RuleSets
      BY <2>1 DEF Init
    <2>6. panelNode \in Configs /\ panelUsers \in UserLists
      BY DEF Init
    <2>7. edits \in 0..MaxEdits
      BY DEF Init
    <2>8. outbounds \subseteq Ports
      BY <2>1 DEF Init
    <2>9. pc = "idle" /\ intact = TRUE
          /\ etagNode = panelNode /\ etagUsers = panelUsers
      BY DEF Init
    <2> QED
      BY <2>1, <2>2, <2>3, <2>4, <2>5, <2>6, <2>7, <2>8, <2>9 DEF TypeOK
  <1>2. TypeOK /\ [Next]_vars => TypeOK'
    <2> SUFFICES ASSUME TypeOK, [Next]_vars PROVE TypeOK'
      OBVIOUS
    <2>0. NoPoll \in [node : NodeInfos, nodeChanged : BOOLEAN,
                      users : UserLists,
                      usersResult : {"none", "same", "new", "failed"}]
      BY ListTypes DEF NoPoll, TypeOK
    <2>r. ASSUME Return, nodeInfo' \in NodeInfos
          PROVE  /\ pc' = "idle"
                 /\ poll' \in [node : NodeInfos, nodeChanged : BOOLEAN,
                      users : UserLists,
                      usersResult : {"none", "same", "new", "failed"}]
      BY <2>r, ListTypes DEF Return
    <2> USE DEF TypeOK, panel, client, books, core
    <2>1. ASSUME NEW c \in Configs, SetConfig(c) PROVE TypeOK'
      BY <2>1 DEF SetConfig
    <2>2. ASSUME NEW L \in UserLists, SetUsers(L) PROVE TypeOK'
      BY <2>2 DEF SetUsers
    <2>3. CASE NodeNotModified
      BY <2>3, <2>0 DEF NodeNotModified
    <2>4. CASE NodeReceived
      <3>1. Info(panelNode) \in NodeInfos
        BY <2>4, InfoType DEF NodeReceived
      <3>2. poll' \in [node : NodeInfos, nodeChanged : BOOLEAN,
                      users : UserLists,
                      usersResult : {"none", "same", "new", "failed"}]
        BY <2>4, <2>0, <3>1 DEF NodeReceived
      <3>3. resp' \in RuleSets \cup {NoRules}
        BY <2>4 DEF NodeReceived, Configs
      <3> QED BY <2>4, <3>2, <3>3 DEF NodeReceived
    <2>5. CASE NodeRefused
      BY <2>5 DEF NodeRefused
    <2>6. CASE UsersNotModified \/ UsersReceived \/ UsersNull \/ UsersFailed
      <3>1. etagUsers' \in UserLists
        BY <2>6 DEF UsersNotModified, UsersReceived, UsersNull, UsersFailed
      <3>2. PICK users \in UserLists, result \in {"same", "new", "failed"} :
               UsersFetched(users, result)
        BY <2>6, ListTypes DEF UsersNotModified, UsersReceived, UsersNull,
                               UsersFailed
      <3> QED BY <3>1, <3>2 DEF UsersFetched
    <2>7. ASSUME NEW ok \in BOOLEAN, FetchAlive(ok) PROVE TypeOK'
      <3>1. /\ DOMAIN limiters' \subseteq Ports
            /\ \A t \in DOMAIN limiters' : limiters'[t] \in Limiters
        BY <2>7 DEF FetchAlive, Limiters
      <3>2. /\ pc' \in {"idle", "replace", "rules"}
            /\ poll' \in [node : NodeInfos, nodeChanged : BOOLEAN,
                      users : UserLists,
                      usersResult : {"none", "same", "new", "failed"}]
        BY <2>7, <2>r DEF FetchAlive, NodeInfoChanged
      <3> QED BY <2>7, <3>1, <3>2 DEF FetchAlive
    <2>8. CASE RemoveOldTag
      BY <2>8 DEF RemoveOldTag, Without, NodeInfos, buildNodeTag
    <2>9. CASE RemoveOldTagFails \/ BuildFails \/ AddOutboundFails
      BY <2>9, <2>r DEF RemoveOldTagFails, BuildFails, AddOutboundFails
    <2>10. CASE AddInbound \/ StartFails
      <3>1. \A l \in BOOLEAN : Handler(nodeInfo, l, {}) \in Handlers
        BY ListTypes DEF Handler, Handlers
      <3>2. \E h \in Handlers : inbounds' = With(inbounds, Tag, h)
        BY <2>10, <3>1 DEF AddInbound, StartFails
      <3>3. /\ DOMAIN inbounds' \subseteq Ports
            /\ \A t \in DOMAIN inbounds' : inbounds'[t] \in Handlers
        BY <3>2 DEF With
      <3> QED BY <2>10, <2>r, <3>3 DEF AddInbound, StartFails
    <2>11. CASE AddOutbound
      BY <2>11 DEF AddOutbound
    <2>12. CASE CheckRule
      <3>1. /\ DOMAIN rules' \subseteq Ports
            /\ \A t \in DOMAIN rules' : rules'[t] \in RuleSets
        BY <2>12 DEF CheckRule, With
      <3> QED BY <2>12, <3>1 DEF CheckRule
    <2>13. CASE AddAllUsers
      <3>1. poll.users \in UserLists /\ poll.users \in Added(poll.users)
        BY <2>13 DEF AddAllUsers, Added
      <3>2. Users(Tag) \cup poll.users \in UserLists
        BY <3>1, ListTypes
      <3> QED BY <2>13, <3>2, SetHandlerUsersType DEF AddAllUsers
    <2>14. CASE AddAllUsersFails
      BY <2>14, <2>r, ListTypes, SetHandlerUsersType DEF AddAllUsersFails
    <2>15. CASE AddInboundLimiter
      <3>1. [users |-> poll.users, alive |-> FALSE] \in Limiters
        BY DEF Limiters, UserLists
      <3>2. /\ DOMAIN limiters' \subseteq Ports
            /\ \A t \in DOMAIN limiters' : limiters'[t] \in Limiters
        BY <2>15, <3>1 DEF AddInboundLimiter, With
      <3> QED BY <2>15, <2>r, <3>2 DEF AddInboundLimiter
    <2>16. CASE RemoveUsers
      <3>1. \A R : {u \in Users(Tag) : u.uid \notin R} \in UserLists
        BY ListTypes
      <3>2. /\ DOMAIN inbounds' \subseteq Ports
            /\ \A t \in DOMAIN inbounds' : inbounds'[t] \in Handlers
        BY <2>16, <3>1, SetHandlerUsersType DEF RemoveUsers
      <3>3. intact' \in BOOLEAN
        BY <2>16 DEF RemoveUsers
      <3> QED BY <2>16, <3>2, <3>3 DEF RemoveUsers
    <2>17. CASE AddUsers
      <3>1. AddedUsers \in UserLists
        BY ListTypes DEF AddedUsers
      <3>2. /\ DOMAIN inbounds' \subseteq Ports
            /\ \A t \in DOMAIN inbounds' : inbounds'[t] \in Handlers
        BY <2>17, <3>1, ListTypes, SetHandlerUsersType DEF AddUsers
      <3>3. /\ DOMAIN limiters' \subseteq Ports
            /\ \A t \in DOMAIN limiters' : limiters'[t] \in Limiters
        BY <2>17, <3>1 DEF AddUsers, Limiters, UserLists
      <3>4. intact' \in BOOLEAN
        BY <2>17 DEF AddUsers
      <3> QED BY <2>17, <2>r, <3>2, <3>3, <3>4 DEF AddUsers
    <2>18. CASE UNCHANGED vars
      BY <2>18 DEF vars
    <2> QED
      BY NextCases, <2>1, <2>2, <2>3, <2>4, <2>5, <2>6, <2>7, <2>8, <2>9,
         <2>10, <2>11, <2>12, <2>13, <2>14, <2>15, <2>16, <2>17, <2>18
  <1> QED BY <1>1, <1>2, PTL DEF Spec

-----------------------------------------------------------------------------
(* The Controller's books match xray-core.                                 *)

\* The inbound is up and serves these users.
Up(users) ==
    /\ DOMAIN inbounds = {Tag}
    /\ inbounds[Tag] = Handler(nodeInfo, TRUE, users)

\* The limiter has each of these users as the list has it.
Limited(users) ==
    /\ DOMAIN limiters = {Tag}
    /\ \A u \in users : {v \in limiters[Tag].users : v.uid = u.uid} = {u}

\* What DeletedUsers leaves of the user list.
KeptUsers == {u \in userList : u.uid \notin IdsOf(DeletedUsers)}

\* What the locals of a poll are worth where the poll uses them.
PollInv ==
    /\ pc \notin {"idle", "users"} =>
          /\ poll.usersResult \in {"same", "new", "failed"}
          /\ poll.usersResult = "same" => poll.users = userList
    /\ pc \notin {"idle", "users", "alive"} =>
          poll.usersResult \in {"same", "new"}
    /\ pc \in {"replace", "inbound", "outbound"} => poll.nodeChanged

\* How far the update is: nothing touched yet, inbound gone, inbound back
\* and empty, users added, deleted users removed.
ProgressInv ==
    /\ \/ pc \in {"idle", "users", "alive", "replace", "remove"}
       \/ pc = "rules" /\ ~poll.nodeChanged
       => Up(userList) /\ outbounds = {Tag} /\ Limited(userList)
    /\ pc = "inbound" =>
          DOMAIN inbounds = {} /\ outbounds = {} /\ DOMAIN limiters = {}
    /\ pc = "outbound" => Up({}) /\ outbounds = {} /\ DOMAIN limiters = {}
    /\ pc = "addAll" \/ (pc = "rules" /\ poll.nodeChanged) =>
          Up({}) /\ outbounds = {Tag} /\ DOMAIN limiters = {}
    /\ pc = "limiter" =>
          Up(poll.users) /\ outbounds = {Tag} /\ DOMAIN limiters = {}
    /\ pc = "add" =>
          Up(KeptUsers) /\ outbounds = {Tag} /\ Limited(userList)

BooksInv ==
    /\ Tag = buildNodeTag(nodeInfo)
    /\ PollInv
    /\ intact => ProgressInv

\* Taking the deleted users out of the old list and putting the added ones
\* in gives the new list, and each user of it is in one of the two parts.
LEMMA CompareUserList ==
    ASSUME TypeOK, PollInv, pc = "add"
    PROVE  /\ KeptUsers \cup AddedUsers = poll.users
           /\ \A u \in KeptUsers : u.uid \notin IdsOf(AddedUsers)
           /\ \A u, v \in AddedUsers : u.uid = v.uid => u = v
  <1>1. userList \in UserLists /\ poll.users \in UserLists
    BY DEF TypeOK
  <1>2. CASE poll.usersResult = "same"
    BY <1>2 DEF PollInv, KeptUsers, DeletedUsers, AddedUsers, IdsOf
  <1>3. CASE poll.usersResult = "new"
    <2>1. DeletedUsers = userList \ poll.users
      BY <1>3 DEF DeletedUsers
    <2>2. AddedUsers = poll.users \ userList
      BY <1>3 DEF AddedUsers
    <2>3. KeptUsers = userList \cap poll.users
      BY <1>1, <2>1 DEF KeptUsers, IdsOf, UserLists
    <2> QED BY <1>1, <2>2, <2>3 DEF IdsOf, UserLists
  <1> QED BY <1>2, <1>3 DEF PollInv

\* A call that fails ends the poll, and marks the update.
LEMMA FailureEndsPoll ==
    ASSUME UNCHANGED books, Return, intact' = FALSE, BooksInv
    PROVE  BooksInv'
  BY DEF books, Return, BooksInv, PollInv

\* What is said of the inbound and of the limiter holds on when neither of
\* them, nor the books, changes.
LEMMA CoreUntouched ==
    ASSUME UNCHANGED books, UNCHANGED inbounds, UNCHANGED limiters
    PROVE  /\ Up(userList)' <=> Up(userList)
           /\ Up({})' <=> Up({})
           /\ Limited(userList)' <=> Limited(userList)
  BY DEF books, Up, Limited

\* Setting the users of an inbound that is up.
LEMMA UpAgain ==
    ASSUME NEW u, NEW v, Up(u), SetHandlerUsers(v)
    PROVE  /\ DOMAIN inbounds' = {Tag}
           /\ inbounds'[Tag] = Handler(nodeInfo, TRUE, v)
  <1>1. inbounds[Tag].info = nodeInfo /\ inbounds[Tag].listening = TRUE
    BY DEF Up, Handler
  <1> QED BY <1>1 DEF Up, SetHandlerUsers

LEMMA BooksInvInit == Init => BooksInv
  BY DEF Init, BooksInv, PollInv, ProgressInv, Up, Limited, UserLists

LEMMA BooksInvHolds == TypeOK /\ BooksInv /\ [Next]_vars => BooksInv'
  <1> SUFFICES ASSUME TypeOK, BooksInv, [Next]_vars PROVE BooksInv'
    OBVIOUS
  <1>u. ASSUME UNCHANGED <<pc, poll, books, inbounds, outbounds, limiters,
                           intact>>
        PROVE  BooksInv'
    BY <1>u DEF BooksInv, PollInv, ProgressInv, Up, Limited, KeptUsers,
                DeletedUsers, IdsOf, books
  <1>1. CASE \/ \E c \in Configs : SetConfig(c)
             \/ \E L \in UserLists : SetUsers(L)
             \/ NodeRefused
    BY <1>1, <1>u DEF SetConfig, SetUsers, NodeRefused, books, core
  <1>2. CASE NodeNotModified \/ NodeReceived
    <2>1. pc' = "users" /\ UNCHANGED <<books, core, intact>> /\ pc = "idle"
      BY <1>2 DEF NodeNotModified, NodeReceived
    <2> QED BY <2>1, CoreUntouched DEF BooksInv, PollInv, ProgressInv,
                                       books, core
  <1>3. CASE UsersNotModified \/ UsersReceived \/ UsersNull \/ UsersFailed
    <2>1. PICK users, result :
             /\ UsersFetched(users, result)
             /\ result \in {"same", "new", "failed"}
             /\ result = "same" => users = userList
      BY <1>3 DEF UsersNotModified, UsersReceived, UsersNull, UsersFailed
    <2>2. poll'.users = users /\ poll'.usersResult = result
      BY <2>1 DEF UsersFetched, TypeOK
    <2>3. /\ pc = "users" /\ pc' = "alive"
          /\ UNCHANGED <<books, core, intact>>
      BY <2>1 DEF UsersFetched
    <2> QED BY <2>1, <2>2, <2>3, CoreUntouched
            DEF BooksInv, PollInv, ProgressInv, books, core
  <1>4. ASSUME NEW ok \in BOOLEAN, FetchAlive(ok) PROVE BooksInv'
    <2>1. DOMAIN limiters' = DOMAIN limiters
      BY <1>4 DEF FetchAlive
    <2>2. ASSUME NEW t \in DOMAIN limiters
          PROVE  limiters'[t].users = limiters[t].users
      BY <1>4, <2>2 DEF FetchAlive, TypeOK, Limiters
    <2>3. Limited(userList) => Limited(userList)'
      BY <1>4, <2>1, <2>2 DEF FetchAlive, Limited, books
    <2>4. Up(userList) => Up(userList)'
      BY <1>4 DEF FetchAlive, Up, books
    <2>5. \/ pc' = "idle"
          \/ /\ poll.usersResult # "failed"
             /\ poll'.usersResult = poll.usersResult
             /\ poll'.users = poll.users
             /\ \/ pc' = "replace" /\ poll'.nodeChanged
                \/ pc' = "rules" /\ ~poll'.nodeChanged
      BY <1>4 DEF FetchAlive, NodeInfoChanged, Return, TypeOK
    <2>6. poll.usersResult \in {"none", "same", "new", "failed"}
      BY DEF TypeOK
    <2>7. /\ pc = "alive"
          /\ UNCHANGED <<books, inbounds, outbounds, intact>>
      BY <1>4 DEF FetchAlive
    <2> QED BY <2>3, <2>4, <2>5, <2>6, <2>7
            DEF BooksInv, PollInv, ProgressInv, books
  <1>5. CASE RemoveOldTag
    BY <1>5 DEF RemoveOldTag, Without, BooksInv, PollInv, ProgressInv, Up,
                Limited
  <1>6. CASE RemoveOldTagFails
    BY <1>6 DEF RemoveOldTagFails, Return, BooksInv, PollInv, ProgressInv,
                Up, Limited, books, core
  <1>7. CASE BuildFails \/ AddOutboundFails \/ StartFails
    BY <1>7, FailureEndsPoll DEF BuildFails, AddOutboundFails, StartFails
  <1>8. CASE AddInbound
    BY <1>8 DEF AddInbound, With, BooksInv, PollInv, ProgressInv, Up, books
  <1>9. CASE AddOutbound
    BY <1>9 DEF AddOutbound, BooksInv, PollInv, ProgressInv, Up, books
  <1>10. CASE CheckRule
    BY <1>10 DEF CheckRule, BooksInv, PollInv, ProgressInv, Up, Limited,
                 books
  <1>11. CASE AddAllUsers
    <2>1. ASSUME intact PROVE Up(poll.users)'
      <3>1. Up({}) /\ Users(Tag) = {}
        BY <1>11, <2>1 DEF AddAllUsers, BooksInv, ProgressInv, Up, Users,
                           Handler
      <3>2. SetHandlerUsers(poll.users)
        BY <1>11, <3>1 DEF AddAllUsers
      <3> QED BY <1>11, <3>1, <3>2, UpAgain DEF AddAllUsers, Up, books
    <2> QED BY <1>11, <2>1 DEF AddAllUsers, BooksInv, PollInv, ProgressInv,
                               books
  <1>12. CASE AddAllUsersFails
    BY <1>12, FailureEndsPoll DEF AddAllUsersFails
  <1>13. CASE AddInboundLimiter
    <2>1. Up(poll.users) => Up(userList)'
      BY <1>13 DEF AddInboundLimiter, Up
    <2>2. /\ DOMAIN limiters' = DOMAIN limiters \cup {Tag}
          /\ limiters'[Tag].users = poll.users
      BY <1>13 DEF AddInboundLimiter, With
    <2>3. \A u \in poll.users : {v \in poll.users : v.uid = u.uid} = {u}
      BY DEF TypeOK, UserLists
    <2>4. DOMAIN limiters = {} => Limited(userList)'
      BY <1>13, <2>2, <2>3 DEF AddInboundLimiter, Limited
    <2> QED BY <1>13, <2>1, <2>4 DEF AddInboundLimiter, Return, BooksInv,
                                     PollInv, ProgressInv
  <1>14. CASE RemoveUsers
    <2>1. ASSUME intact' PROVE Up(KeptUsers)' /\ Limited(userList)'
      <3>1. /\ intact /\ Up(userList) /\ Limited(userList)
            /\ IdsOf(DeletedUsers) \subseteq IdsOf(Users(Tag))
        BY <1>14, <2>1 DEF RemoveUsers, BooksInv, ProgressInv
      <3>2. Users(Tag) = userList
        BY <3>1 DEF Up, Users, Handler
      <3>3. SetHandlerUsers(KeptUsers)
        BY <1>14, <3>1, <3>2 DEF RemoveUsers, Removed, KeptUsers
      <3>4. KeptUsers' = KeptUsers
        BY <1>14 DEF RemoveUsers, KeptUsers, DeletedUsers, IdsOf, books
      <3>5. Up(KeptUsers)'
        BY <1>14, <3>1, <3>3, <3>4, UpAgain DEF RemoveUsers, Up, books
      <3> QED BY <1>14, <3>1, <3>5 DEF RemoveUsers, Limited, books
    <2> QED BY <1>14, <2>1 DEF RemoveUsers, BooksInv, PollInv, ProgressInv,
                               books
  <1>15. CASE AddUsers
    <2>0. pc = "add" /\ PollInv
      BY <1>15 DEF AddUsers, BooksInv
    <2>1. ASSUME intact' PROVE Up(userList)' /\ Limited(userList)'
      <3>1. /\ intact /\ Up(KeptUsers) /\ Limited(userList)
            /\ \A u \in AddedUsers : CanAdd(u)
        BY <1>15, <2>1 DEF AddUsers, BooksInv, ProgressInv
      <3>2. Users(Tag) = KeptUsers
        BY <3>1 DEF Up, Users, Handler
      <3>3. SetHandlerUsers(poll.users)
        BY <1>15, <2>0, <3>1, <3>2, CompareUserList DEF AddUsers, Added
      <3>4. Up(userList)'
        BY <1>15, <3>1, <3>3, UpAgain DEF AddUsers, Up
      <3>5. /\ DOMAIN limiters' = {Tag}
            /\ limiters'[Tag].users =
                 {v \in limiters[Tag].users : v.uid \notin IdsOf(AddedUsers)}
                 \cup AddedUsers
        BY <1>15, <3>1 DEF AddUsers, Limited, TypeOK, Limiters
      <3>6. ASSUME NEW u \in KeptUsers
            PROVE  {v \in limiters'[Tag].users : v.uid = u.uid} = {u}
        <4>1. {v \in limiters[Tag].users : v.uid = u.uid} = {u}
          BY <3>1 DEF Limited, KeptUsers
        <4>2. u.uid \notin IdsOf(AddedUsers)
          BY <2>0, CompareUserList
        <4> QED BY <3>5, <4>1, <4>2 DEF IdsOf
      <3>7. ASSUME NEW u \in AddedUsers
            PROVE  {v \in limiters'[Tag].users : v.uid = u.uid} = {u}
        BY <2>0, <3>5, CompareUserList DEF IdsOf
      <3> QED BY <1>15, <2>0, <3>4, <3>5, <3>6, <3>7, CompareUserList
              DEF AddUsers, Limited
    <2> QED BY <1>15, <2>1 DEF AddUsers, Return, BooksInv, PollInv,
                               ProgressInv
  <1>16. CASE UNCHANGED vars
    BY <1>16, <1>u DEF vars, core
  <1> QED
    BY NextCases, <1>1, <1>2, <1>3, <1>4, <1>5, <1>6, <1>7, <1>8, <1>9,
       <1>10, <1>11, <1>12, <1>13, <1>14, <1>15, <1>16

\* Between two polls, and as long as no call of an update has failed, the
\* node serves exactly the configuration and the users the Controller holds.
THEOREM BooksMatch == Spec => []BooksMatchCore
  <1>1. BooksInv => BooksMatchCore
    BY DEF BooksInv, ProgressInv, Up, Limited, BooksMatchCore
  <1> QED BY <1>1, BooksInvInit, BooksInvHolds, SyncTypeCorrect, PTL DEF Spec

-----------------------------------------------------------------------------
\* Where no call can fail but the one for the alive list, and every account is
\* one xray-core takes, the client's ETags are worth what they say.

CurrentInv ==
    /\ intact /\ panelUsers # {}
    /\ pc \in {"idle", "users"} => userList = etagUsers
    /\ pc \notin {"idle", "users"} =>
          poll.users = etagUsers /\ poll.usersResult # "failed"
    /\ IF pc = "replace" \/ (pc \in {"users", "alive"} /\ poll.nodeChanged)
       THEN poll.node = Info(etagNode)
       ELSE etagNode.port # NoPort => nodeInfo = Info(etagNode)

\* Without faults no update fails: what is removed is there, what is added is not.
LEMMA UpdatesSucceed ==
    ASSUME Faults \subseteq {"alive"}, Malformed = {},
           TypeOK, BooksInv, CurrentInv, [Next]_vars
    PROVE  /\ intact'
           /\ ~RemoveOldTagFails /\ ~AddAllUsersFails
           /\ ~BuildFails /\ ~StartFails /\ ~AddOutboundFails /\ ~UsersFailed
  <1>1. ProgressInv /\ PollInv /\ intact
    BY DEF BooksInv, CurrentInv
  <1>2. ~BuildFails /\ ~StartFails /\ ~AddOutboundFails /\ ~UsersFailed
    BY DEF BuildFails, StartFails, AddOutboundFails, UsersFailed
  <1>3. ~RemoveOldTagFails
    BY <1>1 DEF RemoveOldTagFails, ProgressInv, Up
  <1>4. ~AddAllUsersFails
    <2> SUFFICES ASSUME pc = "addAll", NEW u \in poll.users PROVE CanAdd(u)
      BY DEF AddAllUsersFails
    <2>1. Up({})
      BY <1>1 DEF ProgressInv
    <2>2. Tag \in DOMAIN inbounds /\ Users(Tag) = {}
      BY <2>1 DEF Up, Users, Handler
    <2> QED BY <2>2 DEF CanAdd, IdsOf
  <1>5. CASE RemoveUsers
    <2>1. Up(userList) /\ DeletedUsers \subseteq userList
      BY <1>1, <1>5 DEF RemoveUsers, ProgressInv, DeletedUsers
    <2>2. Users(Tag) = userList
      BY <2>1 DEF Up, Users, Handler
    <2>3. IdsOf(DeletedUsers) \subseteq IdsOf(Users(Tag))
      BY <2>1, <2>2 DEF IdsOf
    <2> QED BY <1>1, <1>2, <1>3, <1>4, <1>5, <2>3 DEF RemoveUsers
  <1>6. CASE AddUsers
    <2>1. pc = "add" /\ Up(KeptUsers)
      BY <1>1, <1>6 DEF AddUsers, ProgressInv
    <2>2. Tag \in DOMAIN inbounds /\ Users(Tag) = KeptUsers
      BY <2>1 DEF Up, Users, Handler
    <2>3. \A u \in AddedUsers : CanAdd(u)
      <3>1. \A v \in KeptUsers : v.uid \notin IdsOf(AddedUsers)
        BY <1>1, <2>1, CompareUserList
      <3> QED BY <2>2, <3>1 DEF CanAdd, IdsOf
    <2> QED BY <1>1, <1>2, <1>3, <1>4, <1>6, <2>3 DEF AddUsers
  <1>7. CASE ~RemoveUsers /\ ~AddUsers
    <2>1. intact' = intact
      <3>1. CASE \E ok \in BOOLEAN : FetchAlive(ok)
        BY <3>1 DEF FetchAlive
      <3>2. CASE UNCHANGED vars
        BY <3>2 DEF vars
      <3> QED BY <1>2, <1>3, <1>4, <1>7, <3>1, <3>2, NextCases
              DEF SetConfig, SetUsers, NodeNotModified, NodeReceived, NodeRefused,
                  UsersNotModified, UsersReceived, UsersNull, UsersFetched, RemoveOldTag,
                  AddInbound, AddOutbound, CheckRule, AddAllUsers, AddInboundLimiter
    <2> QED BY <1>1, <1>2, <1>3, <1>4, <2>1
  <1> QED BY <1>5, <1>6, <1>7

LEMMA CurrentInvHolds ==
    ASSUME Faults \subseteq {"alive"}, Malformed = {},
           TypeOK, BooksInv, CurrentInv, [Next]_vars
    PROVE  CurrentInv'
  <1>i. intact' /\ panelUsers # {}
    BY UpdatesSucceed DEF CurrentInv
  <1>u. ASSUME UNCHANGED <<panelUsers, pc, poll, nodeInfo, userList, etagNode, etagUsers>>
        PROVE  CurrentInv'
    BY <1>i, <1>u DEF CurrentInv
  <1>1. ASSUME NEW c \in Configs, SetConfig(c) PROVE CurrentInv'
    BY <1>1, <1>u DEF SetConfig, books, client
  <1>2. ASSUME NEW L \in UserLists, SetUsers(L) PROVE CurrentInv'
    <2>1. panelUsers' # {} /\ UNCHANGED <<pc, poll, books, client>>
      BY <1>2 DEF SetUsers
    <2> QED BY <1>i, <2>1 DEF CurrentInv, books, client
  <1>3. CASE NodeNotModified
    <2>1. /\ pc = "idle" /\ pc' = "users" /\ ~poll'.nodeChanged
          /\ UNCHANGED <<panelUsers, nodeInfo, userList, etagNode, etagUsers>>
      BY <1>3 DEF NodeNotModified, NoPoll, panel, client, books
    <2> QED BY <1>i, <2>1 DEF CurrentInv
  <1>4. CASE NodeReceived
    <2>1. /\ pc = "idle" /\ pc' = "users" /\ poll'.nodeChanged
          /\ poll'.node = Info(etagNode')
          /\ UNCHANGED <<panelUsers, userList, etagUsers>>
      BY <1>4 DEF NodeReceived, NoPoll, panel, books
    <2> QED BY <1>i, <2>1 DEF CurrentInv
  <1>5. CASE NodeRefused
    <2>1. /\ pc = "idle" /\ pc' = "idle" /\ etagNode'.port = NoPort
          /\ UNCHANGED <<panelUsers, userList, etagUsers>>
      BY <1>5 DEF NodeRefused, panel, books
    <2> QED BY <1>i, <2>1 DEF CurrentInv
  <1>6. CASE UsersNotModified \/ UsersReceived
    <2>1. PICK users, result :
             /\ UsersFetched(users, result)
             /\ result # "failed" /\ users = etagUsers'
      BY <1>6 DEF UsersNotModified, UsersReceived, UsersFetched, CurrentInv
    <2>2. /\ poll'.users = users /\ poll'.usersResult = result
          /\ poll'.node = poll.node /\ poll'.nodeChanged = poll.nodeChanged
      BY <2>1 DEF UsersFetched, TypeOK
    <2>3. /\ pc = "users" /\ pc' = "alive"
          /\ UNCHANGED <<panelUsers, nodeInfo, etagNode>>
      BY <2>1 DEF UsersFetched, panel, books
    <2> QED BY <1>i, <2>1, <2>2, <2>3 DEF CurrentInv
  <1>7. CASE UsersNull
    BY <1>7, <1>i DEF UsersNull
  <1>8. ASSUME NEW ok \in BOOLEAN, FetchAlive(ok) PROVE CurrentInv'
    <2>1. pc = "alive" /\ poll.usersResult # "failed"
      BY <1>8 DEF FetchAlive, CurrentInv
    <2>2. /\ poll'.users = poll.users /\ poll'.usersResult = poll.usersResult
          /\ poll'.node = poll.node
          /\ pc' = IF NodeInfoChanged THEN "replace" ELSE "rules"
          /\ UNCHANGED <<panelUsers, nodeInfo, userList, etagNode, etagUsers>>
      BY <1>8, <2>1 DEF FetchAlive, TypeOK, panel, client, books
    <2>3. CASE NodeInfoChanged
      BY <1>i, <2>1, <2>2, <2>3 DEF CurrentInv, NodeInfoChanged
    <2>4. CASE ~NodeInfoChanged
      <3>1. etagNode.port # NoPort => nodeInfo = Info(etagNode)
        BY <2>1, <2>4 DEF CurrentInv, NodeInfoChanged
      <3> QED BY <1>i, <2>1, <2>2, <2>4, <3>1 DEF CurrentInv
    <2> QED BY <2>3, <2>4
  <1>9. CASE RemoveOldTag
    <2>1. /\ pc = "replace" /\ pc' = "inbound" /\ nodeInfo' = poll.node
          /\ UNCHANGED <<panelUsers, poll, userList, etagNode, etagUsers>>
      BY <1>9 DEF RemoveOldTag, panel, client
    <2> QED BY <1>i, <2>1 DEF CurrentInv
  <1>10. CASE AddInbound \/ AddOutbound \/ CheckRule \/ AddAllUsers \/ RemoveUsers
    <2>1. /\ pc \notin {"idle", "users", "alive", "replace"}
          /\ pc' \notin {"idle", "users", "alive", "replace"}
          /\ UNCHANGED <<panelUsers, poll, nodeInfo, userList, etagNode, etagUsers>>
      BY <1>10 DEF AddInbound, AddOutbound, CheckRule, AddAllUsers, RemoveUsers,
                   panel, client, books
    <2> QED BY <1>i, <2>1 DEF CurrentInv
  <1>11. CASE AddInboundLimiter \/ AddUsers
    <2>1. /\ pc \notin {"idle", "users", "alive", "replace"} /\ pc' = "idle"
          /\ userList' = poll.users
          /\ UNCHANGED <<panelUsers, nodeInfo, etagNode, etagUsers>>
      BY <1>11 DEF AddInboundLimiter, AddUsers, Return, panel, client
    <2> QED BY <1>i, <2>1 DEF CurrentInv
  <1>12. CASE UNCHANGED vars
    BY <1>12, <1>u DEF vars, panel, client, books
  <1> QED BY NextCases, UpdatesSucceed, <1>1, <1>2, <1>3, <1>4, <1>5, <1>6, <1>7, <1>8,
             <1>9, <1>10, <1>11, <1>12

\* The panel is right to answer 304, for any node, users and number of edits
\* meanwhile: as long as no call fails but the one for the alive list, and no
\* account is malformed, the Controller has what the panel had when the ETag
\* was stored (parser.go, nodeInfoMonitor).  With a failing user list it has
\* not, which the run sync_not_modified shows.
THEOREM NotModifiedIsCurrent ==
    ASSUME Faults \subseteq {"alive"}, Malformed = {}
    PROVE  Spec => NotModifiedMeansCurrent
  <1>1. Init => CurrentInv
    BY DEF Init, CurrentInv, NoPoll
  <1>2. TypeOK /\ BooksInv /\ CurrentInv /\ [Next]_vars => CurrentInv'
    BY CurrentInvHolds
  <1>3. CurrentInv =>
          /\ NodeNotModified /\ panelNode.port # NoPort => nodeInfo = Info(panelNode)
          /\ UsersNotModified => userList = panelUsers
    BY DEF CurrentInv, NodeNotModified, UsersNotModified, UsersFetched
  <1> QED
    BY <1>1, <1>2, <1>3, BooksInvInit, BooksInvHolds, SyncTypeCorrect, PTL
    DEF Spec, NotModifiedMeansCurrent

-----------------------------------------------------------------------------
\* NodeSync implements NodeReplica: for every panel, every set of calls that may
\* fail and any number of edits.

\* What the locals of a poll are worth to the steps that serve something: the
\* new description is the one the client has just read, the users are those
\* of the list just read or of the one in use, and a new inbound meets none.
ReplicaInv ==
    /\ pc \in {"users", "alive"} /\ poll.nodeChanged =>
          poll.node = Info(etagNode)
    /\ pc = "replace" => poll.node = Info(etagNode)
    /\ pc = "inbound" => nodeInfo = Info(etagNode) /\ DOMAIN inbounds = {}
    /\ pc \notin {"idle", "users"} =>
          /\ poll.usersResult \in {"same", "new", "failed"}
          /\ poll.usersResult = "same" => poll.users = userList
          /\ poll.usersResult = "new" => poll.users = etagUsers
    /\ pc \notin {"idle", "users", "alive"} =>
          poll.usersResult \in {"same", "new"}

LEMMA ReplicaInvHolds ==
    ASSUME TypeOK, NothingLeftBehind, ReplicaInv, [Next]_vars
    PROVE  ReplicaInv'
  <1>u. ASSUME UNCHANGED <<pc, poll, nodeInfo, userList, inbounds, etagNode,
                           etagUsers>>
        PROVE  ReplicaInv'
    BY <1>u DEF ReplicaInv
  <1>i. ASSUME pc' = "idle" PROVE ReplicaInv'
    BY <1>i DEF ReplicaInv
  <1>1. CASE (\E c \in Configs : SetConfig(c)) \/ (\E L \in UserLists : SetUsers(L))
    BY <1>1, <1>u DEF SetConfig, SetUsers, books, core, client
  <1>2. CASE NodeNotModified
    BY <1>2 DEF NodeNotModified, NoPoll, ReplicaInv
  <1>3. CASE NodeReceived
    <2>1. /\ poll'.node = Info(panelNode)
          /\ pc' = "users"
          /\ etagNode' = panelNode
      BY <1>3 DEF NodeReceived, NoPoll
    <2> QED BY <2>1 DEF ReplicaInv
  <1>4. CASE NodeRefused
    BY <1>4 DEF NodeRefused, ReplicaInv
  <1>5. CASE UsersNotModified \/ UsersReceived \/ UsersNull \/ UsersFailed
    <2>1. PICK users, result :
             /\ UsersFetched(users, result)
             /\ result \in {"same", "new", "failed"}
             /\ result = "same" => users = userList
             /\ result = "new" => users = etagUsers'
      BY <1>5 DEF UsersNotModified, UsersReceived, UsersNull, UsersFailed
    <2>2. /\ poll'.users = users /\ poll'.usersResult = result
          /\ poll'.node = poll.node /\ poll'.nodeChanged = poll.nodeChanged
      BY <2>1 DEF UsersFetched, TypeOK
    <2>3. /\ pc = "users" /\ pc' = "alive"
          /\ UNCHANGED <<etagNode, books, core>>
      BY <2>1 DEF UsersFetched
    <2> QED BY <2>1, <2>2, <2>3 DEF ReplicaInv, books
  <1>6. ASSUME NEW ok \in BOOLEAN, FetchAlive(ok) PROVE ReplicaInv'
    <2>1. CASE poll.usersResult = "failed"
      BY <1>6, <2>1, <1>i DEF FetchAlive, Return
    <2>2. CASE poll.usersResult # "failed"
      <3>1. /\ poll'.users = poll.users /\ poll'.usersResult = poll.usersResult
            /\ poll'.node = poll.node /\ poll'.nodeChanged = NodeInfoChanged
            /\ pc' = IF NodeInfoChanged THEN "replace" ELSE "rules"
        BY <1>6, <2>2 DEF FetchAlive, TypeOK
      <3>2. pc = "alive" /\ UNCHANGED <<client, books, inbounds>>
        BY <1>6 DEF FetchAlive
      <3> QED BY <3>1, <3>2, <2>2 DEF ReplicaInv, books, client, NodeInfoChanged
    <2> QED BY <2>1, <2>2
  <1>7. CASE RemoveOldTag
    <2>1. DOMAIN inbounds' = {}
      BY <1>7 DEF RemoveOldTag, Without, NothingLeftBehind
    <2> QED BY <1>7, <2>1 DEF RemoveOldTag, ReplicaInv, client
  <1>8. CASE RemoveOldTagFails \/ BuildFails \/ StartFails \/ AddOutboundFails
             \/ AddAllUsersFails \/ AddInboundLimiter \/ AddUsers
    BY <1>8, <1>i DEF RemoveOldTagFails, BuildFails, StartFails,
          AddOutboundFails, AddAllUsersFails, AddInboundLimiter, AddUsers, Return
  <1>9. CASE AddInbound \/ AddOutbound \/ CheckRule \/ AddAllUsers \/ RemoveUsers
    <2>1. /\ pc \notin {"idle", "users", "alive"}
          /\ pc' \notin {"users", "alive", "replace", "inbound"}
          /\ UNCHANGED <<poll, books, client>>
      BY <1>9 DEF AddInbound, AddOutbound, CheckRule, AddAllUsers, RemoveUsers
    <2> QED BY <2>1 DEF ReplicaInv, books, client
  <1>10. CASE UNCHANGED vars
    BY <1>10, <1>u DEF vars, books, core, client
  <1> QED BY NextCases, <1>1, <1>2, <1>3, <1>4, <1>5, <1>6, <1>7, <1>8, <1>9, <1>10

-----------------------------------------------------------------------------
(* The steps.                                                               *)

\* The node serves something exactly if its tag has an inbound.
LEMMA ServedOrDown ==
    ASSUME TypeOK
    PROVE  Served = Down <=> Tag \notin DOMAIN inbounds
  <1>1. ASSUME Tag \in DOMAIN inbounds PROVE Served # Down
    <2>1. inbounds[Tag] \in Handlers
      BY <1>1 DEF TypeOK
    <2>2. Served \in [node : NodeInfos, users : UserLists]
      BY <1>1, <2>1 DEF Served, Handlers
    <2> QED BY <2>2, DownIsNothing
  <1> QED BY <1>1 DEF Served

\* What setting the users of the node's inbound does to what is served.
LEMMA ServedUsers ==
    ASSUME NEW U, SetHandlerUsers(U), UNCHANGED Tag
    PROVE  Served' = IF Tag \in DOMAIN inbounds
                     THEN Replica!Serving(Served.node, U) ELSE Down
  BY DEF Served, SetHandlerUsers, Handler, Replica!Serving

\* Every step of the panel and of the monitor is one of a replica, or none.
LEMMA StepSimulation ==
    ASSUME TypeOK, NothingLeftBehind, ReplicaInv, [Next]_vars
    PROVE  [Replica!Next]_(Replica!vars)
  <1> USE DEF Replica!vars, Replica!panelVars, Replica!readVars
  <1>u. ASSUME UNCHANGED <<panelNode, panelUsers, etagNode, etagUsers, books,
                           inbounds>>
        PROVE  UNCHANGED Replica!vars
    BY <1>u DEF Served, books
  <1>s. ASSUME UNCHANGED <<books, inbounds>> PROVE Served' = Served /\ userList' = userList
    BY <1>s DEF Served, books
  <1>1. ASSUME NEW c \in Configs, SetConfig(c) PROVE Replica!Publish
    BY <1>1, <1>s DEF SetConfig, Replica!Publish, client, core, TypeOK
  <1>2. ASSUME NEW L \in UserLists, SetUsers(L) PROVE Replica!Publish
    BY <1>2, <1>s DEF SetUsers, Replica!Publish, client, core, TypeOK
  <1>3. CASE NodeNotModified
    BY <1>3, <1>u DEF NodeNotModified, panel, client, core
  <1>4. CASE NodeReceived \/ NodeRefused
    <2>1. Replica!ReadNode
      BY <1>4, <1>s DEF NodeReceived, NodeRefused, Replica!ReadNode, panel, core
    <2> QED BY <2>1 DEF Replica!Next
  <1>5. CASE UsersNotModified \/ UsersFailed
    BY <1>5, <1>u DEF UsersNotModified, UsersFailed, UsersFetched, panel, core
  <1>6. CASE UsersReceived \/ UsersNull
    <2>1. Replica!ReadUsers
      BY <1>6, <1>s DEF UsersReceived, UsersNull, UsersFetched,
                        Replica!ReadUsers, panel, core
    <2> QED BY <2>1 DEF Replica!Next
  <1>7. ASSUME NEW ok \in BOOLEAN, FetchAlive(ok) PROVE UNCHANGED Replica!vars
    BY <1>7, <1>u DEF FetchAlive, panel, client
  <1>8. CASE RemoveOldTag
    <2>1. DOMAIN inbounds' = {}
      BY <1>8 DEF RemoveOldTag, Without, NothingLeftBehind
    <2>2. Replica!Stop
      BY <1>8, <2>1 DEF RemoveOldTag, Served, Replica!Stop, panel, client
    <2> QED BY <2>2 DEF Replica!Next
  <1>9. CASE AddInbound \/ StartFails
    <2>1. Tag \notin DOMAIN inbounds /\ nodeInfo = Info(etagNode)
      BY <1>9 DEF AddInbound, StartFails, ReplicaInv
    <2>2. Served = Down
      BY <2>1 DEF Served
    <2>3. Served' = Replica!Serving(nodeInfo, {})
      BY <1>9 DEF AddInbound, StartFails, With, Handler, Served, books, Replica!Serving
    <2>4. Replica!Start
      BY <1>9, <2>1, <2>2, <2>3 DEF AddInbound, StartFails, Replica!Start,
                                    panel, client, books
    <2> QED BY <2>4 DEF Replica!Next
  <1>10. CASE \/ RemoveOldTagFails \/ BuildFails \/ AddOutbound
              \/ AddOutboundFails \/ CheckRule
    BY <1>10, <1>u DEF RemoveOldTagFails, BuildFails, AddOutbound,
                       AddOutboundFails, CheckRule, panel, client, core
  <1>11. ASSUME NEW A \in SUBSET poll.users, SetHandlerUsers(Users(Tag) \cup A),
                pc \notin {"idle", "users", "alive"},
                UNCHANGED <<panel, client, Tag>>,
                userList' \in {userList, poll.users}
         PROVE  Replica!Grant
    <2>1. /\ A \in SUBSET (etagUsers \cup userList)
          /\ userList' \in {userList, etagUsers}
      BY <1>11 DEF ReplicaInv
    <2>2. CASE Tag \in DOMAIN inbounds
      <3>1. Users(Tag) = Served.users
        BY <2>2 DEF Users, Served
      <3>2. Served' = Replica!Serving(Served.node, Served.users \cup A)
        BY <1>11, <2>2, <3>1, ServedUsers
      <3>3. Served # Down
        BY <2>2, ServedOrDown
      <3> QED BY <1>11, <2>1, <3>2, <3>3
              DEF Replica!Grant, Replica!Accept, panel, client
    <2>3. CASE Tag \notin DOMAIN inbounds
      <3>1. Served' = Down /\ Served = Down
        BY <1>11, <2>3, ServedUsers, ServedOrDown
      <3> QED BY <1>11, <2>1, <3>1
              DEF Replica!Grant, Replica!Accept, panel, client
    <2> QED BY <2>2, <2>3
  <1>12. ASSUME NEW L, L \subseteq poll.users, NEW A \in Added(L)
         PROVE  A \in SUBSET poll.users
    BY <1>12 DEF Added
  <1>13. CASE AddAllUsers
    BY <1>13, <1>11 DEF AddAllUsers, Replica!Next, books
  <1>14. CASE AddAllUsersFails
    BY <1>14, <1>11, <1>12 DEF AddAllUsersFails, Replica!Next, books
  <1>15. CASE AddUsers
    <2>1. AddedUsers \subseteq poll.users
      BY DEF AddedUsers
    <2> QED BY <1>15, <1>11, <1>12, <2>1 DEF AddUsers, Replica!Next, core
  <1>16. CASE AddInboundLimiter
    <2>1. userList' \in {userList, etagUsers}
      BY <1>16 DEF AddInboundLimiter, ReplicaInv
    <2>2. Served' = Served
      BY <1>16 DEF AddInboundLimiter, Served
    <2>3. CASE Served = Down
      BY <1>16, <2>1, <2>2, <2>3 DEF AddInboundLimiter, Replica!Grant,
                           Replica!Accept, Replica!Next, panel, client
    <2>4. CASE Served # Down
      <3>1. Served = Replica!Serving(Served.node, Served.users \cup {})
        BY <2>4 DEF Served, Replica!Serving
      <3>2. {} \in SUBSET (etagUsers \cup userList)
        OBVIOUS
      <3> QED BY <1>16, <2>1, <2>2, <2>4, <3>1, <3>2 DEF AddInboundLimiter,
                 Replica!Grant, Replica!Accept, Replica!Next, panel, client
    <2> QED BY <2>3, <2>4
  <1>17. CASE RemoveUsers
    <2>1. PICK R \in Removed(DeletedUsers) :
             SetHandlerUsers({u \in Users(Tag) : u.uid \notin R})
      BY <1>17 DEF RemoveUsers
    <2>2. UNCHANGED <<panel, client, books>>
      BY <1>17 DEF RemoveUsers
    <2>3. CASE Tag \in DOMAIN inbounds
      <3> DEFINE U == {u \in Users(Tag) : u.uid \in R}
      <3>1. Users(Tag) = Served.users /\ U \in SUBSET Served.users
        BY <2>3 DEF Users, Served
      <3>2. {u \in Users(Tag) : u.uid \notin R} = Served.users \ U
        BY <3>1
      <3>3. Served' = Replica!Serving(Served.node, Served.users \ U)
        BY <2>1, <2>2, <2>3, <3>2, ServedUsers DEF books
      <3>4. Replica!Revoke
        BY <2>2, <2>3, <3>1, <3>3, ServedOrDown
        DEF Replica!Revoke, panel, client, books
      <3> QED BY <3>4 DEF Replica!Next
    <2>4. CASE Tag \notin DOMAIN inbounds
      <3>1. UNCHANGED inbounds
        BY <2>1, <2>4 DEF SetHandlerUsers
      <3> QED BY <1>u, <2>2, <3>1 DEF panel, client
    <2> QED BY <2>3, <2>4
  <1>18. CASE UNCHANGED vars
    BY <1>18, <1>u DEF vars, panel, client, core
  <1> QED BY NextCases, <1>1, <1>2, <1>3, <1>4, <1>5, <1>6, <1>7, <1>8, <1>9,
             <1>10, <1>13, <1>14, <1>15, <1>16, <1>17, <1>18 DEF Replica!Next

\* The node never serves another description, or users of another list, than
\* the panel gave it last or it has accepted, and changes from one description
\* to the next only by serving nothing in between.
THEOREM SyncRefinesReplica == Spec => ImplementsReplica
  <1>1. Init => Replica!Init
    <2> SUFFICES ASSUME Init PROVE Replica!Init
      OBVIOUS
    <2>1. Tag \in DOMAIN inbounds /\ inbounds[Tag] = Handler(nodeInfo, TRUE, userList)
      BY DEF Init
    <2>2. Served = Replica!Serving(Info(panelNode), panelUsers)
      BY <2>1 DEF Init, Served, Handler, Replica!Serving
    <2> QED BY <2>2 DEF Init, Replica!Init
  <1>2. Init => ReplicaInv
    BY DEF Init, ReplicaInv
  <1>3. Spec => []ReplicaInv
    BY <1>2, ReplicaInvHolds, SyncTypeCorrect, NoLeftovers, PTL DEF Spec
  <1> QED
    BY <1>1, <1>3, StepSimulation, SyncTypeCorrect, NoLeftovers, PTL
    DEF Spec, ImplementsReplica, Replica!Spec
=============================================================================
