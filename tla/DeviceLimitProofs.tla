------------------------- MODULE DeviceLimitProofs -------------------------
(***************************************************************************)
(* Theorems about DeviceLimit, for any set of connections, users and       *)
(* addresses.                                                              *)
(***************************************************************************)
EXTENDS DeviceLimit, TLAPS

\* A step is one of these, of one connection or of the sweep.
LEMMA StepCases ==
    ASSUME [Next]_vars
    PROVE  \/ \E c \in Conns, u \in Users, a \in Addrs, full \in BOOLEAN :
                 Arrive(c, u, a, full)
           \/ \E c \in Conns : \/ LoadMap(c) \/ Join(c) \/ Undo(c)
                               \/ Create(c) \/ LookOld(c) \/ Forget(c)
                               \/ Withdraw(c)
           \/ SweepBegin \/ SweepReset \/ SweepPrune \/ SweepEnd
           \/ \E u \in Users : SweepUser(u)
           \/ \E a \in Addrs : SweepAddr(a) \/ PruneAddr(a)
           \/ UNCHANGED vars
  BY DEF Next, GetUserBucket, GetOnlineDevice

\* Every variable keeps its type; in particular no goroutine uses a map
\* object before one was loaded or made.
THEOREM DeviceTypeCorrect == Spec => []TypeOK
  <1> USE DeviceConstants
  <1>1. Init => TypeOK
    BY DEF Init, TypeOK, Steps
  <1>2. TypeOK /\ [Next]_vars => TypeOK'
    <2> SUFFICES ASSUME TypeOK, [Next]_vars PROVE TypeOK'
      OBVIOUS
    <2> USE DEF TypeOK, Steps, Goto, DecidingFor, DecidingAt, shared, locals,
                sweep, history
    <2>1. ASSUME NEW c \in Conns, NEW u \in Users, NEW a \in Addrs,
                 NEW full \in BOOLEAN, Arrive(c, u, a, full)
          PROVE  TypeOK'
      BY <2>1 DEF Arrive
    <2>2. ASSUME NEW c \in Conns, LoadMap(c) PROVE TypeOK'
      BY <2>2 DEF LoadMap
    <2>3. ASSUME NEW c \in Conns, Join(c) PROVE TypeOK'
      BY <2>3 DEF Join
    <2>4. ASSUME NEW c \in Conns, Undo(c) PROVE TypeOK'
      BY <2>4 DEF Undo
    <2>5. ASSUME NEW c \in Conns, Create(c) PROVE TypeOK'
      BY <2>5 DEF Create
    <2>6. ASSUME NEW c \in Conns, LookOld(c) PROVE TypeOK'
      BY <2>6 DEF LookOld
    <2>7. ASSUME NEW c \in Conns, Forget(c) PROVE TypeOK'
      BY <2>7 DEF Forget
    <2>8. ASSUME NEW c \in Conns, Withdraw(c) PROVE TypeOK'
      BY <2>8 DEF Withdraw
    <2>9. CASE SweepBegin \/ SweepPrune \/ SweepEnd
      BY <2>9 DEF SweepBegin, SweepPrune, SweepEnd
    <2>10. CASE SweepReset
      BY <2>10 DEF SweepReset
    <2>11. ASSUME NEW u \in Users, SweepUser(u) PROVE TypeOK'
      BY <2>11 DEF SweepUser
    <2>12. ASSUME NEW a \in Addrs, SweepAddr(a) PROVE TypeOK'
      BY <2>12 DEF SweepAddr
    <2>13. ASSUME NEW a \in Addrs, PruneAddr(a) PROVE TypeOK'
      BY <2>13 DEF PruneAddr
    <2>14. CASE UNCHANGED vars
      BY <2>14 DEF vars
    <2> QED
      BY StepCases, <2>1, <2>2, <2>3, <2>4, <2>5, <2>6, <2>7, <2>8, <2>9,
         <2>10, <2>11, <2>12, <2>13, <2>14
  <1> QED BY <1>1, <1>2, PTL DEF Spec

-----------------------------------------------------------------------------
(* A refused connection leaves nothing behind.                             *)

\* A connection has no map before it loads or makes one; the map it then has
\* was made, and published, by a connection of the same user.
MapsInv ==
    \A c \in Conns :
        /\ pc[c] \in {"new", "load", "create"} =>
              map[c] = None /\ ipMap[c] = {}
        /\ pc[c] \in {"look", "forget", "withdraw"} => map[c] = c
        /\ pc[c] \in {"join", "undo"} => map[c] # c
        /\ map[c] # None =>
              /\ user[map[c]] = user[c]
              /\ pc[map[c]] \notin {"new", "load", "create"}

\* The map a user has was made by one of the user's connections, which has
\* not been refused: when it is, it takes the map out.
PublishedInv ==
    \A u \in Users : UserOnlineIP[u] # None =>
        /\ user[UserOnlineIP[u]] = u
        /\ map[UserOnlineIP[u]] = UserOnlineIP[u]
        /\ pc[UserOnlineIP[u]] \in {"look", "forget", "withdraw", "admitted"}

\* Every address in a map is its maker's, or that of a connection that
\* joined the map and has not been refused.
StoredInv ==
    \A m \in Conns : \A a \in ipMap[m] :
        \/ a = ip[m]
        \/ \E c \in Conns : /\ map[c] = m /\ ip[c] = a
                            /\ pc[c] \in {"undo", "admitted"}

RefusedInv == MapsInv /\ PublishedInv /\ StoredInv

\* The maps of the connections, of the users and of the addresses agree.
LEMMA RefusedInvariant == Spec => []RefusedInv
  <1> USE DeviceConstants
  <1>1. Init => RefusedInv
    BY DEF Init, RefusedInv, MapsInv, PublishedInv, StoredInv
  <1>2. TypeOK /\ RefusedInv /\ [Next]_vars => RefusedInv'
    <2> SUFFICES ASSUME TypeOK, RefusedInv, [Next]_vars PROVE RefusedInv'
      OBVIOUS
    <2> USE DEF RefusedInv
    <2>1. ASSUME NEW c \in Conns, NEW u \in Users, NEW a \in Addrs,
                 NEW full \in BOOLEAN, Arrive(c, u, a, full)
          PROVE  RefusedInv'
      <3>1. MapsInv'
        BY <2>1 DEF Arrive, Goto, TypeOK, MapsInv, shared
      <3>2. PublishedInv'
        BY <2>1 DEF Arrive, Goto, TypeOK, PublishedInv, shared
      <3>3. StoredInv'
        BY <2>1 DEF Arrive, Goto, TypeOK, MapsInv, StoredInv, shared
      <3> QED BY <3>1, <3>2, <3>3
    <2>2. ASSUME NEW c \in Conns, LoadMap(c) PROVE RefusedInv'
      <3>1. MapsInv'
        BY <2>2 DEF LoadMap, Goto, TypeOK, MapsInv, PublishedInv, shared
      <3>2. PublishedInv'
        BY <2>2 DEF LoadMap, Goto, TypeOK, PublishedInv, shared
      <3>3. StoredInv'
        BY <2>2 DEF LoadMap, Goto, TypeOK, MapsInv, StoredInv, shared
      <3> QED BY <3>1, <3>2, <3>3
    <2>3. ASSUME NEW c \in Conns, Join(c) PROVE RefusedInv'
      <3>1. MapsInv'
        BY <2>3 DEF Join, Goto, TypeOK, MapsInv, locals
      <3>2. PublishedInv'
        BY <2>3 DEF Join, Goto, TypeOK, MapsInv, PublishedInv, locals
      <3>3. StoredInv'
        BY <2>3 DEF Join, Goto, TypeOK, MapsInv, StoredInv, locals
      <3> QED BY <3>1, <3>2, <3>3
    <2>4. ASSUME NEW c \in Conns, Undo(c) PROVE RefusedInv'
      <3>1. MapsInv'
        BY <2>4 DEF Undo, Goto, TypeOK, MapsInv, locals
      <3>2. PublishedInv'
        BY <2>4 DEF Undo, Goto, TypeOK, MapsInv, PublishedInv, locals
      <3>3. StoredInv'
        BY <2>4 DEF Undo, Goto, TypeOK, MapsInv, StoredInv, locals
      <3> QED BY <3>1, <3>2, <3>3
    <2>5. ASSUME NEW c \in Conns, Create(c) PROVE RefusedInv'
      <3>1. MapsInv'
        BY <2>5 DEF Create, Goto, TypeOK, MapsInv, PublishedInv
      <3>2. PublishedInv'
        BY <2>5 DEF Create, Goto, TypeOK, MapsInv, PublishedInv
      <3>3. StoredInv'
        BY <2>5 DEF Create, Goto, TypeOK, MapsInv, StoredInv
      <3> QED BY <3>1, <3>2, <3>3
    <2>6. ASSUME NEW c \in Conns, LookOld(c) \/ Forget(c) PROVE RefusedInv'
      <3>1. /\ pc[c] \in {"look", "forget"}
            /\ \E step \in {"forget", "withdraw", "admitted"} : Goto(c, step)
            /\ UNCHANGED <<UserOnlineIP, ipMap, user, ip, map>>
        BY <2>6 DEF LookOld, Forget, shared, locals
      <3>2. MapsInv'
        BY <3>1 DEF Goto, TypeOK, MapsInv
      <3>3. PublishedInv'
        BY <3>1 DEF Goto, TypeOK, PublishedInv
      <3>4. StoredInv'
        BY <3>1 DEF Goto, TypeOK, StoredInv
      <3> QED BY <3>2, <3>3, <3>4
    <2>7. ASSUME NEW c \in Conns, Withdraw(c) PROVE RefusedInv'
      <3>1. MapsInv'
        BY <2>7 DEF Withdraw, Goto, TypeOK, MapsInv, locals
      <3>2. PublishedInv'
        BY <2>7 DEF Withdraw, Goto, TypeOK, PublishedInv, locals
      <3>3. StoredInv'
        BY <2>7 DEF Withdraw, Goto, TypeOK, StoredInv, locals
      <3> QED BY <3>1, <3>2, <3>3
    <2>8. CASE SweepReset
      BY <2>8 DEF SweepReset, TypeOK, MapsInv, PublishedInv, StoredInv, locals
    <2>9. CASE \/ SweepBegin \/ SweepPrune \/ SweepEnd \/ UNCHANGED vars
               \/ \E u \in Users : SweepUser(u)
               \/ \E a \in Addrs : SweepAddr(a) \/ PruneAddr(a)
      <3>1. UNCHANGED <<UserOnlineIP, ipMap, pc, user, ip, map>>
        BY <2>9 DEF SweepBegin, SweepPrune, SweepEnd, SweepUser, SweepAddr,
                    PruneAddr, shared, locals, vars
      <3> QED BY <3>1 DEF MapsInv, PublishedInv, StoredInv
    <2> QED
      BY StepCases, <2>1, <2>2, <2>3, <2>4, <2>5, <2>6, <2>7, <2>8, <2>9
  <1> QED BY <1>1, <1>2, DeviceTypeCorrect, PTL DEF Spec

\* An address counts as online only for a user with a connection from there
\* that was admitted or is being decided.
THEOREM RefusedLeavesNothing == Spec => []OnlineOnlyIfAllowed
  <1>1. TypeOK /\ RefusedInv => OnlineOnlyIfAllowed
    BY DeviceConstants
    DEF TypeOK, RefusedInv, MapsInv, PublishedInv, StoredInv,
        OnlineOnlyIfAllowed, OnlineAddrs
  <1> QED BY <1>1, DeviceTypeCorrect, RefusedInvariant, PTL

-----------------------------------------------------------------------------
(* An admitted connection is counted.                                      *)

\* Only a connection over the limit deletes what it stored.  One that is
\* being decided and not exposed meets none of its user, and no sweep.
AloneInv ==
    \A c \in Conns :
        /\ pc[c] \in {"undo", "withdraw"} => over[c]
        /\ Undecided(c) /\ c \notin exposed =>
              /\ \A d \in Conns \ {c} :
                    Undecided(d) /\ user[d] = user[c] => ~over[d]
              /\ ~(sweepPc = "read" /\ at = user[c])

\* So the map it has loaded or made stays its user's, with its address.
HeldInv ==
    \A c \in Conns : c \notin exposed =>
        /\ pc[c] = "join" => UserOnlineIP[user[c]] = map[c]
        /\ pc[c] \in {"look", "forget"} =>
              UserOnlineIP[user[c]] = c /\ ip[c] \in ipMap[c]
        /\ pc[c] = "admitted" /\ c \notin counted =>
              /\ UserOnlineIP[user[c]] # None
              /\ ip[c] \in ipMap[UserOnlineIP[user[c]]]

\* Once it is admitted, a connection over the limit that comes later finds
\* the map, so it takes none out, and deletes no address it found; and a
\* sweep that passes the user has the address before it.
RivalInv ==
    \A c \in Conns : pc[c] = "admitted" /\ c \notin counted \cup exposed =>
        /\ \A d \in Conns : user[d] = user[c] =>
              /\ over[d] => pc[d] \notin {"create", "look", "forget", "withdraw"}
              /\ pc[d] = "undo" /\ map[d] = UserOnlineIP[user[c]] =>
                    ip[d] # ip[c]
        /\ sweepPc = "read" /\ at = user[c] =>
              reading = UserOnlineIP[at] /\ ip[c] \in must

CountedInv == AloneInv /\ HeldInv /\ RivalInv

\* An admitted connection that met no over-limit connection of its user and
\* no sweep keeps its address online until a sweep collects it.
THEOREM AdmittedStaysCounted == Spec => []AdmittedIsCounted
  <1> USE DeviceConstants
  <1>1. Init => CountedInv
    BY DEF Init, CountedInv, AloneInv, HeldInv, RivalInv, Undecided
  <1>2. TypeOK /\ RefusedInv /\ CountedInv /\ [Next]_vars => CountedInv'
    <2> SUFFICES ASSUME TypeOK, RefusedInv, CountedInv, [Next]_vars
                 PROVE  CountedInv'
      OBVIOUS
    <2> USE DEF CountedInv, RefusedInv
    <2>1. ASSUME NEW c \in Conns, NEW u \in Users, NEW a \in Addrs,
                 NEW full \in BOOLEAN, Arrive(c, u, a, full)
          PROVE  CountedInv'
      <3>1. AloneInv'
        BY <2>1 DEF Arrive, Goto, TypeOK, AloneInv, Undecided, DecidingFor,
                    sweep
      <3>2. HeldInv'
        BY <2>1 DEF Arrive, Goto, TypeOK, HeldInv, shared
      <3>3. RivalInv'
        BY <2>1 DEF Arrive, Goto, TypeOK, RivalInv, shared, sweep
      <3> QED BY <3>1, <3>2, <3>3
    <2>2. ASSUME NEW c \in Conns, LoadMap(c) PROVE CountedInv'
      <3>1. AloneInv'
        BY <2>2 DEF LoadMap, Goto, TypeOK, AloneInv, Undecided, sweep, locals,
                    history
      <3>2. HeldInv'
        BY <2>2 DEF LoadMap, Goto, TypeOK, MapsInv, PublishedInv, AloneInv,
                    HeldInv, RivalInv, Undecided, shared, locals, history
      <3>3. RivalInv'
        BY <2>2 DEF LoadMap, Goto, TypeOK, MapsInv, PublishedInv, AloneInv,
                    HeldInv, RivalInv, Undecided, shared, sweep, locals,
                    history
      <3> QED BY <3>1, <3>2, <3>3
    <2>3. ASSUME NEW c \in Conns, Join(c) PROVE CountedInv'
      <3>1. AloneInv'
        BY <2>3 DEF Join, Goto, TypeOK, AloneInv, Undecided, sweep, locals,
                    history
      <3>2. HeldInv'
        BY <2>3 DEF Join, Goto, TypeOK, MapsInv, PublishedInv, AloneInv,
                    HeldInv, RivalInv, Undecided, shared, locals, history
      <3>3. RivalInv'
        BY <2>3 DEF Join, Goto, TypeOK, MapsInv, PublishedInv, AloneInv,
                    HeldInv, RivalInv, Undecided, shared, sweep, locals,
                    history
      <3> QED BY <3>1, <3>2, <3>3
    <2>4. ASSUME NEW c \in Conns, Undo(c) PROVE CountedInv'
      <3>1. AloneInv'
        BY <2>4 DEF Undo, Goto, TypeOK, AloneInv, Undecided, sweep, locals,
                    history
      <3>2. HeldInv'
        BY <2>4 DEF Undo, Goto, TypeOK, MapsInv, PublishedInv, AloneInv,
                    HeldInv, RivalInv, Undecided, shared, locals, history
      <3>3. RivalInv'
        BY <2>4 DEF Undo, Goto, TypeOK, MapsInv, PublishedInv, AloneInv,
                    HeldInv, RivalInv, Undecided, shared, sweep, locals,
                    history
      <3> QED BY <3>1, <3>2, <3>3
    <2>5. ASSUME NEW c \in Conns, Create(c) PROVE CountedInv'
      <3>1. AloneInv'
        BY <2>5 DEF Create, Goto, TypeOK, AloneInv, Undecided, sweep, locals,
                    history
      <3>2. HeldInv'
        BY <2>5 DEF Create, Goto, TypeOK, MapsInv, PublishedInv, AloneInv,
                    HeldInv, RivalInv, Undecided, shared, locals, history
      <3>3. RivalInv'
        BY <2>5 DEF Create, Goto, TypeOK, MapsInv, PublishedInv, AloneInv,
                    HeldInv, RivalInv, Undecided, shared, sweep, locals,
                    history
      <3> QED BY <3>1, <3>2, <3>3
    <2>6. ASSUME NEW c \in Conns, LookOld(c) PROVE CountedInv'
      <3>1. AloneInv'
        BY <2>6 DEF LookOld, Goto, TypeOK, AloneInv, Undecided, sweep, locals,
                    history
      <3>2. HeldInv'
        BY <2>6 DEF LookOld, Goto, TypeOK, MapsInv, PublishedInv, AloneInv,
                    HeldInv, RivalInv, Undecided, shared, locals, history
      <3>3. RivalInv'
        BY <2>6 DEF LookOld, Goto, TypeOK, MapsInv, PublishedInv, AloneInv,
                    HeldInv, RivalInv, Undecided, shared, sweep, locals,
                    history
      <3> QED BY <3>1, <3>2, <3>3
    <2>7. ASSUME NEW c \in Conns, Forget(c) PROVE CountedInv'
      <3>1. AloneInv'
        BY <2>7 DEF Forget, Goto, TypeOK, AloneInv, Undecided, sweep, locals,
                    history
      <3>2. HeldInv'
        BY <2>7 DEF Forget, Goto, TypeOK, MapsInv, PublishedInv, AloneInv,
                    HeldInv, RivalInv, Undecided, shared, locals, history
      <3>3. RivalInv'
        BY <2>7 DEF Forget, Goto, TypeOK, MapsInv, PublishedInv, AloneInv,
                    HeldInv, RivalInv, Undecided, shared, sweep, locals,
                    history
      <3> QED BY <3>1, <3>2, <3>3
    <2>8. ASSUME NEW c \in Conns, Withdraw(c) PROVE CountedInv'
      <3>1. AloneInv'
        BY <2>8 DEF Withdraw, Goto, TypeOK, AloneInv, Undecided, sweep, locals,
                    history
      <3>2. HeldInv'
        BY <2>8 DEF Withdraw, Goto, TypeOK, MapsInv, PublishedInv, AloneInv,
                    HeldInv, RivalInv, Undecided, shared, locals, history
      <3>3. RivalInv'
        BY <2>8 DEF Withdraw, Goto, TypeOK, MapsInv, PublishedInv, AloneInv,
                    HeldInv, RivalInv, Undecided, shared, sweep, locals,
                    history
      <3> QED BY <3>1, <3>2, <3>3
    <2>9. CASE SweepBegin \/ SweepPrune \/ SweepEnd
      <3>1. /\ UNCHANGED <<shared, pc, locals, history>>
            /\ sweepPc' # "read"
        BY <2>9 DEF SweepBegin, SweepPrune, SweepEnd
      <3> QED
        BY <3>1 DEF AloneInv, HeldInv, RivalInv, Undecided, shared, locals,
                    history
    <2>10. ASSUME NEW u \in Users, SweepUser(u) PROVE CountedInv'
      <3>1. AloneInv'
        BY <2>10 DEF SweepUser, TypeOK, AloneInv, Undecided, DecidingFor,
                     locals
      <3>2. HeldInv'
        BY <2>10 DEF SweepUser, HeldInv, shared, locals
      <3>3. RivalInv'
        BY <2>10 DEF SweepUser, HeldInv, RivalInv, shared, locals
      <3> QED BY <3>1, <3>2, <3>3
    <2>11. ASSUME NEW a \in Addrs, SweepAddr(a) PROVE CountedInv'
      <3>1. AloneInv'
        BY <2>11 DEF SweepAddr, AloneInv, Undecided, locals
      <3>2. HeldInv'
        BY <2>11 DEF SweepAddr, HeldInv, locals
      <3>3. RivalInv'
        BY <2>11 DEF SweepAddr, RivalInv, locals
      <3> QED BY <3>1, <3>2, <3>3
    <2>12. CASE SweepReset
      <3>1. AloneInv'
        BY <2>12 DEF SweepReset, AloneInv, Undecided, locals, history
      <3>2. HeldInv'
        BY <2>12 DEF SweepReset, TypeOK, AloneInv, HeldInv, RivalInv,
                     Undecided, locals, history
      <3>3. RivalInv'
        BY <2>12 DEF SweepReset, TypeOK, RivalInv, locals, history
      <3> QED BY <3>1, <3>2, <3>3
    <2>13. ASSUME NEW a \in Addrs, PruneAddr(a) PROVE CountedInv'
      BY <2>13 DEF PruneAddr, AloneInv, HeldInv, RivalInv, Undecided, sweep,
                   locals, history
    <2>14. CASE UNCHANGED vars
      BY <2>14 DEF vars, AloneInv, HeldInv, RivalInv, Undecided, shared,
                   sweep, locals, history
    <2> QED
      BY StepCases, <2>1, <2>2, <2>3, <2>4, <2>5, <2>6, <2>7, <2>8, <2>9,
         <2>10, <2>11, <2>12, <2>13, <2>14
  <1>3. CountedInv => AdmittedIsCounted
    BY DEF CountedInv, HeldInv, AdmittedIsCounted, OnlineAddrs
  <1> QED BY <1>1, <1>2, <1>3, DeviceTypeCorrect, RefusedInvariant, PTL DEF Spec

-----------------------------------------------------------------------------
(* Over the limit only known addresses are admitted.                       *)

\* A connection from this address was admitted, or has raced.
Known(a) == \E d \in Conns : ip[d] = a /\ (pc[d] = "admitted" \/ d \in raced)

\* Two connections decided at once for one user and address have raced, and
\* so has one that is decided while a sweep passes its user.
MetInv ==
    \A c \in Conns :
        /\ pc[c] = "new" => c \notin raced
        /\ Undecided(c) =>
              /\ \A d \in Conns \ {c} :
                    Undecided(d) /\ user[d] = user[c] /\ ip[d] = ip[c] =>
                        c \in raced
              /\ sweepPc = "read" /\ at = user[c] => c \in raced

\* Every address the code takes for an old one is known: in OldUserOnline,
\* about to be forgotten there, or in the map a sweep is reading, which is
\* one of the user's; and that of the maker of a map another one joins.
KnownInv ==
    /\ \A a \in Addrs : OldUserOnline[a] # None => Known(a)
    /\ \A c \in Conns : pc[c] = "forget" => Known(ip[c])
    /\ sweepPc = "read" =>
          /\ user[reading] = at
          /\ pc[reading] \notin {"new", "load", "create"}
          /\ \A a \in ipMap[reading] : Known(a)
    /\ \A c \in Conns : pc[c] = "join" /\ ip[map[c]] = ip[c] => Known(ip[c])

OldInv == MetInv /\ KnownInv

\* A connection over the limit is admitted only at an address where another
\* one was admitted before, or where one has raced.
THEOREM OverLimitIsKnown == Spec => OverLimitNeedsKnownAddress
  <1> USE DeviceConstants
  <1> DEFINE Admit == \A c \in Conns :
                  over[c] /\ pc[c] # "admitted" /\ pc'[c] = "admitted" =>
                     Known(ip[c])
             Stays == \A a \in Addrs : Known(a) => Known(a)'
  <1>1. Init => OldInv
    BY DEF Init, OldInv, MetInv, KnownInv, Undecided
  <1>2. TypeOK /\ RefusedInv /\ OldInv /\ [Next]_vars => OldInv' /\ Admit
    <2> SUFFICES ASSUME TypeOK, RefusedInv, OldInv, [Next]_vars
                 PROVE  OldInv' /\ Admit
      OBVIOUS
    <2> USE DEF OldInv, RefusedInv
    <2>1. ASSUME NEW c \in Conns, NEW u \in Users, NEW a \in Addrs,
                 NEW full \in BOOLEAN, Arrive(c, u, a, full)
          PROVE  OldInv' /\ Admit
      <3>1. MetInv'
        BY <2>1 DEF Arrive, Goto, TypeOK, MetInv, Undecided, DecidingFor,
                    DecidingAt, sweep
      <3>2. Stays
        BY <2>1 DEF Arrive, Goto, TypeOK, MetInv, Known
      <3> HIDE DEF Stays
      <3>3. KnownInv'
        <4>1. \A b \in Addrs : OldUserOnline'[b] # None => Known(b)'
          BY <2>1, <3>2 DEF Arrive, KnownInv, shared, Stays
        <4>2. \A d \in Conns : pc'[d] = "forget" => Known(ip[d])' /\ d # c
          BY <2>1, <3>2 DEF Arrive, Goto, TypeOK, KnownInv, Stays
        <4>3. (sweepPc = "read" =>
                  /\ user[reading] = at
                  /\ pc[reading] \notin {"new", "load", "create"}
                  /\ \A b \in ipMap[reading] : Known(b))'
          BY <2>1, <3>2 DEF Arrive, Goto, TypeOK, KnownInv, shared, sweep, Stays
        <4>4. \A d \in Conns :
                 pc'[d] = "join" /\ ip'[map'[d]] = ip'[d] => Known(ip[d])'
          BY <2>1, <3>2 DEF Arrive, Goto, TypeOK, KnownInv, MapsInv, Stays
        <4> QED BY <4>1, <4>2, <4>3, <4>4 DEF KnownInv, Known
      <3>4. Admit
        BY <2>1 DEF Arrive, Goto, TypeOK
      <3> QED BY <3>1, <3>3, <3>4
    <2>2. ASSUME NEW c \in Conns,
                 \/ LoadMap(c) \/ Join(c) \/ Undo(c) \/ Create(c) \/ LookOld(c)
                 \/ Forget(c) \/ Withdraw(c)
          PROVE  OldInv' /\ Admit
      <3>1. /\ UNCHANGED <<user, ip, over, counted, exposed, raced>>
            /\ UNCHANGED <<sweepPc, left, at, reading, online>>
            /\ \E step \in Steps \ {"new", "load"} : Goto(c, step)
            /\ Undecided(c)
        BY <2>2 DEF LoadMap, Join, Undo, Create, LookOld, Forget, Withdraw,
                    Goto, Steps, Undecided, shared, sweep, locals, history
      <3>2. MetInv'
        BY <3>1 DEF Goto, TypeOK, MetInv, Undecided
      <3>3. Stays
        BY <3>1 DEF Goto, TypeOK, Known, Undecided
      <3>4. \A d \in Conns \ {c} :
               Undecided(d) /\ user[d] = user[c] /\ ip[d] = ip[c] =>
                  Known(ip[c])
        BY <3>1 DEF MetInv, Known
      <3>5. sweepPc = "read" /\ at = user[c] => Known(ip[c])
        BY <3>1 DEF MetInv, Known
      <3>6. pc[c] # "new" /\ ip[c] \in Addrs /\ user[c] \in Users
        BY <3>1 DEF Undecided, TypeOK
      <3> HIDE DEF Stays
      <3>7. CASE LoadMap(c)
        <4>1. pc'[c] = "join" => map'[c] = UserOnlineIP[user[c]] /\ map'[c] # None
          BY <3>7, <3>6 DEF LoadMap, Goto, TypeOK
        <4>2. pc'[c] = "join" /\ ip[map'[c]] = ip[c] => Known(ip[c])
          BY <4>1, <3>4, <3>6, <3>7
             DEF LoadMap, TypeOK, PublishedInv, Known, Undecided
        <4>3. KnownInv'
          BY <3>1, <3>3, <3>6, <3>7, <4>2
             DEF LoadMap, Goto, TypeOK, KnownInv, Stays, shared
        <4> QED BY <3>2, <3>7, <4>3, <3>6 DEF LoadMap, Goto, TypeOK
      <3>8. CASE Join(c)
        <4>1. ip[c] \in ipMap[map[c]] => Known(ip[c])
          <5> SUFFICES ASSUME ip[c] \in ipMap[map[c]] PROVE Known(ip[c])
            OBVIOUS
          <5>1. map[c] \in Conns /\ user[map[c]] = user[c]
            BY <3>8 DEF Join, TypeOK, MapsInv
          <5>2. CASE ip[map[c]] = ip[c]
            BY <3>8, <5>2 DEF Join, KnownInv
          <5>3. CASE \E d \in Conns : /\ map[d] = map[c] /\ ip[d] = ip[c]
                                      /\ pc[d] \in {"undo", "admitted"}
            BY <3>8, <5>1, <5>3, <3>4 DEF Join, MapsInv, TypeOK, Known, Undecided
          <5> QED BY <5>1, <5>2, <5>3 DEF StoredInv
        <4>2. KnownInv'
          BY <3>1, <3>3, <3>5, <3>6, <3>8
             DEF Join, Goto, TypeOK, KnownInv, MapsInv, Stays, locals
        <4> QED BY <3>2, <3>8, <4>1, <4>2, <3>6 DEF Join, Goto, TypeOK
      <3>9. CASE Undo(c)
        <4>1. KnownInv'
          BY <3>1, <3>3, <3>6, <3>9
             DEF Undo, Goto, TypeOK, KnownInv, Stays, locals
        <4> QED BY <3>2, <3>9, <4>1, <3>6 DEF Undo, Goto, TypeOK
      <3>10. CASE Create(c)
        <4>1. pc'[c] = "join" => map'[c] = UserOnlineIP[user[c]] /\ map'[c] # None
          BY <3>10, <3>6 DEF Create, Goto, TypeOK
        <4>2. pc'[c] = "join" /\ ip[map'[c]] = ip[c] => Known(ip[c])
          BY <4>1, <3>4, <3>6, <3>10
             DEF Create, TypeOK, PublishedInv, Known, Undecided
        <4>3. KnownInv'
          BY <3>1, <3>3, <3>6, <3>10, <4>2
             DEF Create, Goto, TypeOK, KnownInv, Stays
        <4> QED BY <3>2, <3>10, <4>3, <3>6 DEF Create, Goto, TypeOK
      <3>11. CASE LookOld(c)
        <4>1. KnownInv'
          BY <3>1, <3>3, <3>6, <3>11
             DEF LookOld, Goto, TypeOK, KnownInv, Stays, shared, locals
        <4> QED
          BY <3>2, <3>11, <4>1, <3>6 DEF LookOld, Goto, TypeOK, KnownInv
      <3>12. CASE Forget(c)
        <4>1. KnownInv'
          BY <3>1, <3>3, <3>6, <3>12
             DEF Forget, Goto, TypeOK, KnownInv, Stays, locals
        <4> QED BY <3>2, <3>12, <4>1, <3>6 DEF Forget, Goto, TypeOK, KnownInv
      <3>13. CASE Withdraw(c)
        <4>1. KnownInv'
          BY <3>1, <3>3, <3>6, <3>13
             DEF Withdraw, Goto, TypeOK, KnownInv, Stays, locals
        <4> QED BY <3>2, <3>13, <4>1, <3>6 DEF Withdraw, Goto, TypeOK
      <3> QED
        BY <2>2, <3>7, <3>8, <3>9, <3>10, <3>11, <3>12, <3>13
    <2>3. CASE \/ SweepBegin \/ SweepReset \/ SweepPrune \/ SweepEnd
               \/ \E a \in Addrs : SweepAddr(a) \/ PruneAddr(a)
               \/ UNCHANGED vars
      <3>1. /\ UNCHANGED <<ipMap, pc, user, ip, over, map, raced>>
            /\ sweepPc' = "read" =>
                  sweepPc = "read" /\ UNCHANGED <<at, reading>>
            /\ \A a \in Addrs : OldUserOnline'[a] # None =>
                  \/ OldUserOnline[a] # None
                  \/ sweepPc = "read" /\ a \in ipMap[reading]
        BY <2>3 DEF SweepBegin, SweepReset, SweepPrune, SweepEnd, SweepAddr,
                    PruneAddr, TypeOK, vars, shared, sweep, locals, history
      <3>2. MetInv'
        BY <3>1 DEF MetInv, Undecided
      <3>3. KnownInv'
        BY <3>1 DEF KnownInv, Known
      <3> QED BY <3>1, <3>2, <3>3
    <2>4. ASSUME NEW u \in Users, SweepUser(u) PROVE OldInv' /\ Admit
      <3>1. /\ UNCHANGED <<UserOnlineIP, ipMap, OldUserOnline>>
            /\ UNCHANGED <<pc, user, ip, over, map>>
            /\ UserOnlineIP[u] # None
            /\ sweepPc' = "read" /\ at' = u /\ reading' = UserOnlineIP[u]
            /\ raced' = raced \cup DecidingFor(u)
        BY <2>4 DEF SweepUser, shared, locals
      <3>2. MetInv'
        BY <3>1 DEF MetInv, DecidingFor, Undecided
      <3>3. /\ UserOnlineIP[u] \in Conns
            /\ user[UserOnlineIP[u]] = u
            /\ pc[UserOnlineIP[u]] \in {"look", "forget", "withdraw", "admitted"}
        BY <3>1 DEF PublishedInv, TypeOK
      <3>4. \A a \in Addrs, d \in Conns :
               user[d] = u /\ ip[d] = a /\ pc[d] \notin {"new", "rejected"} =>
                  Known(a)'
        BY <3>1 DEF Known, DecidingFor, Undecided
      <3>5. \A a \in ipMap[UserOnlineIP[u]] : Known(a)'
        <4> SUFFICES ASSUME NEW a \in ipMap[UserOnlineIP[u]] PROVE Known(a)'
          OBVIOUS
        <4> a \in Addrs
          BY <3>3 DEF TypeOK
        <4>1. CASE a = ip[UserOnlineIP[u]]
          BY <4>1, <3>3, <3>4
        <4>2. CASE \E c \in Conns : /\ map[c] = UserOnlineIP[u] /\ ip[c] = a
                                    /\ pc[c] \in {"undo", "admitted"}
          BY <4>2, <3>1, <3>3, <3>4 DEF MapsInv
        <4> QED BY <4>1, <4>2, <3>3 DEF StoredInv
      <3>6. Stays
        BY <3>1 DEF Known
      <3> HIDE DEF Stays
      <3>7. KnownInv'
        BY <3>1, <3>3, <3>5, <3>6 DEF KnownInv, Stays, TypeOK
      <3> QED BY <3>1, <3>2, <3>7
    <2> QED BY StepCases, <2>1, <2>2, <2>3, <2>4
  <1>3. Admit <=>
          \A c \in Conns : over[c] /\ pc[c] # "admitted" /\ pc'[c] = "admitted" =>
             \E d \in Conns :
                ip[d] = ip[c] /\ (pc[d] = "admitted" \/ d \in raced)
    BY DEF Known
  <1> HIDE DEF Admit
  <1> QED
    BY <1>1, <1>2, <1>3, DeviceTypeCorrect, RefusedInvariant, PTL
    DEF Spec, OverLimitNeedsKnownAddress

=============================================================================
