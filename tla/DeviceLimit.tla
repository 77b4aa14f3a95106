---------------------------- MODULE DeviceLimit ----------------------------
(***************************************************************************)
(* The local device limit of one inbound.  Every TCP connection runs       *)
(* GetUserBucket in its own goroutine; pushMonitor runs GetOnlineDevice,   *)
(* which collects the addresses of the period and resets them.  They share *)
(* sync.Maps and no lock: each action below is one operation on one map.   *)
(*                                                                         *)
(* UserOnlineIP holds, per user, a map of addresses.  That map is an       *)
(* object of its own: a goroutine that has loaded it keeps using it after  *)
(* it was taken out.  It is named by the connection that made it.          *)
(*                                                                         *)
(* A Range passes every key that stays in the map while it runs, and may   *)
(* or may not pass a key stored meanwhile.  Non-TCP connections skip all   *)
(* of this; the speed limit buckets and the global limit are left out.     *)
(***************************************************************************)
EXTENDS Integers

CONSTANTS
    Conns,      \* connections; each calls GetUserBucket once
    Users,
    Addrs,      \* source addresses
    None        \* nobody, nothing

ASSUME DeviceConstants == None \notin Conns \cup Users \cup Addrs

VARIABLES
    UserOnlineIP,   \* user -> the map of the user's addresses, or None
    ipMap,          \* map -> the addresses in it
    OldUserOnline,  \* address -> the user it belonged to last period
    pc, user, ip, over, map,      \* GetUserBucket of each connection
    sweepPc, left, due,           \* GetOnlineDevice: users not yet passed,
    at, reading, must,            \* the one passed and the map being read,
    online,                       \* the result
    counted, exposed, raced       \* history, see the properties

shared == <<UserOnlineIP, ipMap, OldUserOnline>>
locals == <<user, ip, over, map>>
sweep  == <<sweepPc, left, due, at, reading, must, online>>
history == <<counted, exposed, raced>>
vars   == <<shared, pc, locals, sweep, history>>

Undecided(c) == pc[c] \notin {"new", "admitted", "rejected"}

\* The connections being decided for this user, and at this address.
DecidingFor(u)   == {c \in Conns : Undecided(c) /\ user[c] = u}
DecidingAt(u, a) == {c \in DecidingFor(u) : ip[c] = a}

Init ==
    /\ UserOnlineIP = [u \in Users |-> None]
    /\ ipMap = [m \in Conns |-> {}]
    /\ OldUserOnline = [a \in Addrs |-> None]
    /\ pc = [c \in Conns |-> "new"]
    /\ user = [c \in Conns |-> None]
    /\ ip = [c \in Conns |-> None]
    /\ over = [c \in Conns |-> FALSE]
    /\ map = [c \in Conns |-> None]
    /\ sweepPc = "idle"
    /\ left = {} /\ due = {} /\ must = {} /\ online = {}
    /\ at = None /\ reading = None
    /\ counted = {} /\ exposed = {} /\ raced = {}

-----------------------------------------------------------------------------
(* GetUserBucket.                                                          *)

Goto(c, step) == pc' = [pc EXCEPT ![c] = step]

\* The alive list, which the pull side replaces at any time, and the user's
\* limit are read once, here: full says 0 < DeviceLimit <= alive addresses.
Arrive(c, u, a, full) ==
    /\ pc[c] = "new"
    /\ Goto(c, "load")
    /\ user' = [user EXCEPT ![c] = u]
    /\ ip' = [ip EXCEPT ![c] = a]
    /\ over' = [over EXCEPT ![c] = full]
    /\ exposed' = exposed
         \cup (IF full THEN DecidingFor(u) ELSE {})
         \cup (IF \/ \E d \in DecidingFor(u) : over[d]
                  \/ sweepPc = "read" /\ at = u
               THEN {c} ELSE {})
    /\ raced' = raced
         \cup DecidingAt(u, a)
         \cup (IF DecidingAt(u, a) # {} \/ (sweepPc = "read" /\ at = u)
               THEN {c} ELSE {})
    /\ UNCHANGED <<shared, map, sweep, counted>>

LoadMap(c) ==
    /\ pc[c] = "load"
    /\ map' = [map EXCEPT ![c] = UserOnlineIP[user[c]]]
    /\ Goto(c, IF UserOnlineIP[user[c]] = None THEN "create" ELSE "join")
    /\ UNCHANGED <<shared, user, ip, over, sweep, history>>

\* Mutant of Join: the limit is not looked at.
JoinFreely(c) ==
    /\ pc[c] = "join"
    /\ ipMap' = [ipMap EXCEPT ![map[c]] = @ \cup {ip[c]}]
    /\ Goto(c, "admitted")
    /\ UNCHANGED <<UserOnlineIP, OldUserOnline, locals, sweep, history>>

\* LoadOrStore in the user's map.
Join(c) ==
    /\ pc[c] = "join"
    /\ ipMap' = [ipMap EXCEPT ![map[c]] = @ \cup {ip[c]}]
    /\ Goto(c, IF over[c] /\ ip[c] \notin ipMap[map[c]] THEN "undo"
                                                      ELSE "admitted")
    /\ UNCHANGED <<UserOnlineIP, OldUserOnline, locals, sweep, history>>

\* Mutant of Undo: the address is not deleted.
RejectOnly(c) ==
    /\ pc[c] = "undo"
    /\ Goto(c, "rejected")
    /\ UNCHANGED <<shared, locals, sweep, history>>

Undo(c) ==
    /\ pc[c] = "undo"
    /\ ipMap' = [ipMap EXCEPT ![map[c]] = @ \ {ip[c]}]
    /\ must' = IF reading = map[c] THEN must \ {ip[c]} ELSE must
    /\ Goto(c, "rejected")
    /\ UNCHANGED <<UserOnlineIP, OldUserOnline, locals, sweepPc, left,
                   due, at, reading, online, history>>

\* Mutant of Create: Store instead of LoadOrStore.
CreateAnyway(c) ==
    /\ pc[c] = "create"
    /\ ipMap' = [ipMap EXCEPT ![c] = {ip[c]}]
    /\ UserOnlineIP' = [UserOnlineIP EXCEPT ![user[c]] = c]
    /\ map' = [map EXCEPT ![c] = c]
    /\ Goto(c, "look")
    /\ UNCHANGED <<OldUserOnline, user, ip, over, sweep, history>>

\* Mutant of Create: the winner's map is not taken over.
CreateLosesMap(c) ==
    /\ pc[c] = "create"
    /\ IF UserOnlineIP[user[c]] = None
       THEN /\ ipMap' = [ipMap EXCEPT ![c] = {ip[c]}]
            /\ UserOnlineIP' = [UserOnlineIP EXCEPT ![user[c]] = c]
            /\ map' = [map EXCEPT ![c] = c]
            /\ Goto(c, "look")
       ELSE Goto(c, "join") /\ UNCHANGED <<ipMap, UserOnlineIP, map>>
    /\ UNCHANGED <<OldUserOnline, user, ip, over, sweep, history>>

\* A map of its own, published unless another connection was faster.
Create(c) ==
    /\ pc[c] = "create"
    /\ IF UserOnlineIP[user[c]] = None
       THEN /\ ipMap' = [ipMap EXCEPT ![c] = {ip[c]}]
            /\ UserOnlineIP' = [UserOnlineIP EXCEPT ![user[c]] = c]
            /\ map' = [map EXCEPT ![c] = c]
            /\ Goto(c, "look")
       ELSE /\ map' = [map EXCEPT ![c] = UserOnlineIP[user[c]]]
            /\ Goto(c, "join")
            /\ UNCHANGED <<ipMap, UserOnlineIP>>
    /\ UNCHANGED <<OldUserOnline, user, ip, over, sweep, history>>

\* An address seen last period passes, whoever it belonged to.
LookOld(c) ==
    /\ pc[c] = "look"
    /\ Goto(c, CASE OldUserOnline[ip[c]] = user[c] -> "forget"
                 [] OldUserOnline[ip[c]] = None /\ over[c] -> "withdraw"
                 [] OTHER -> "admitted")
    /\ UNCHANGED <<shared, locals, sweep, history>>

Forget(c) ==
    /\ pc[c] = "forget"
    /\ OldUserOnline' = [OldUserOnline EXCEPT ![ip[c]] = None]
    /\ Goto(c, "admitted")
    /\ UNCHANGED <<UserOnlineIP, ipMap, locals, sweep, history>>

\* Takes out whatever map the user has by now.
Withdraw(c) ==
    /\ pc[c] = "withdraw"
    /\ UserOnlineIP' = [UserOnlineIP EXCEPT ![user[c]] = None]
    /\ due' = due \ {user[c]}
    /\ Goto(c, "rejected")
    /\ UNCHANGED <<ipMap, OldUserOnline, locals, sweepPc, left, at,
                   reading, must, online, history>>

-----------------------------------------------------------------------------
(* GetOnlineDevice.                                                        *)

SweepBegin ==
    /\ sweepPc = "idle"
    /\ sweepPc' = "users"
    /\ left' = Users
    /\ due' = {u \in Users : UserOnlineIP[u] # None}
    /\ online' = {}
    /\ UNCHANGED <<shared, pc, locals, at, reading, must, history>>

SweepUser(u) ==
    /\ sweepPc = "users"
    /\ u \in left
    /\ UserOnlineIP[u] # None
    /\ sweepPc' = "read"
    /\ left' = left \ {u}
    /\ at' = u
    /\ reading' = UserOnlineIP[u]
    /\ must' = ipMap[UserOnlineIP[u]]
    /\ exposed' = exposed \cup DecidingFor(u)
    /\ raced' = raced \cup DecidingFor(u)
    /\ UNCHANGED <<shared, pc, locals, due, online, counted>>

SweepAddr(a) ==
    /\ sweepPc = "read"
    /\ a \in ipMap[reading]
    /\ <<at, a>> \notin online
    /\ online' = online \cup {<<at, a>>}
    /\ OldUserOnline' = [OldUserOnline EXCEPT ![a] = at]
    /\ must' = must \ {a}
    /\ counted' = counted \cup {c \in Conns : /\ pc[c] = "admitted"
                                             /\ user[c] = at /\ ip[c] = a}
    /\ UNCHANGED <<UserOnlineIP, ipMap, pc, locals, sweepPc, left, due,
                   at, reading, exposed, raced>>

\* "Reset online device": takes out whatever map the user has by now.
SweepReset ==
    /\ sweepPc = "read"
    /\ must = {}
    /\ UserOnlineIP' = [UserOnlineIP EXCEPT ![at] = None]
    /\ due' = due \ {at}
    /\ sweepPc' = "users"
    /\ at' = None
    /\ reading' = None
    /\ UNCHANGED <<ipMap, OldUserOnline, pc, locals, left, must, online,
                   history>>

SweepPrune ==
    /\ sweepPc = "users"
    /\ left \cap due = {}
    /\ sweepPc' = "prune"
    /\ UNCHANGED <<shared, pc, locals, left, due, at, reading, must, online,
                   history>>

Stale(a) == OldUserOnline[a] # None /\ \A u \in Users : <<u, a>> \notin online

\* Only the sweep stores in OldUserOnline, so it prunes every stale address.
PruneAddr(a) ==
    /\ sweepPc = "prune"
    /\ Stale(a)
    /\ OldUserOnline' = [OldUserOnline EXCEPT ![a] = None]
    /\ UNCHANGED <<UserOnlineIP, ipMap, pc, locals, sweep, history>>

SweepEnd ==
    /\ sweepPc = "prune"
    /\ \A a \in Addrs : ~Stale(a)
    /\ sweepPc' = "idle"
    /\ left' = {} /\ online' = {}
    /\ UNCHANGED <<shared, pc, locals, due, at, reading, must, history>>

-----------------------------------------------------------------------------
GetUserBucket(c) ==
    \/ \E u \in Users, a \in Addrs, full \in BOOLEAN : Arrive(c, u, a, full)
    \/ LoadMap(c) \/ Join(c) \/ Undo(c)
    \/ Create(c) \/ LookOld(c) \/ Forget(c) \/ Withdraw(c)

GetOnlineDevice ==
    \/ SweepBegin \/ SweepReset \/ SweepPrune \/ SweepEnd
    \/ \E u \in Users : SweepUser(u)
    \/ \E a \in Addrs : SweepAddr(a) \/ PruneAddr(a)

Next == (\E c \in Conns : GetUserBucket(c)) \/ GetOnlineDevice

Spec == Init /\ [][Next]_vars

-----------------------------------------------------------------------------
(* Properties.  Three history variables say when goroutines met:           *)
(*   counted   admitted connections a sweep has collected;                 *)
(*   exposed   connections decided while an over-limit connection of the   *)
(*             same user was, or while a sweep was passing the user;       *)
(*   raced     connections decided while another one of the same user and  *)
(*             address was, or while a sweep was passing the user.         *)

Steps == {"new", "load", "join", "undo", "create", "look", "forget",
          "withdraw", "admitted", "rejected"}

TypeOK ==
    /\ UserOnlineIP \in [Users -> Conns \cup {None}]
    /\ ipMap \in [Conns -> SUBSET Addrs]
    /\ OldUserOnline \in [Addrs -> Users \cup {None}]
    /\ pc \in [Conns -> Steps]
    /\ user \in [Conns -> Users \cup {None}]
    /\ ip \in [Conns -> Addrs \cup {None}]
    /\ over \in [Conns -> BOOLEAN]
    /\ \A c \in Conns : pc[c] # "new" => user[c] \in Users /\ ip[c] \in Addrs
    /\ map \in [Conns -> Conns \cup {None}]
    /\ \A c \in Conns : pc[c] \in {"join", "undo"} => map[c] \in Conns
    /\ sweepPc \in {"idle", "users", "read", "prune"}
    /\ left \subseteq Users /\ due \subseteq Users
    /\ must \subseteq Addrs /\ online \subseteq Users \X Addrs
    /\ sweepPc = "read" => at \in Users /\ reading \in Conns
    /\ counted \subseteq Conns /\ exposed \subseteq Conns
    /\ raced \subseteq Conns

OnlineAddrs(u) == IF UserOnlineIP[u] = None THEN {} ELSE ipMap[UserOnlineIP[u]]

\* A refused connection leaves nothing behind: an address counts as online
\* only for a user with a connection from there that was admitted or is
\* being decided.
OnlineOnlyIfAllowed ==
    \A u \in Users : \A a \in OnlineAddrs(u) :
        \E c \in Conns : /\ user[c] = u /\ ip[c] = a
                        /\ pc[c] \notin {"new", "rejected"}

\* An admitted connection is counted: its address stays online until a sweep
\* collects it, unless it met an over-limit connection of its user, which
\* may take the whole map out, or a sweep passing the user.
AdmittedIsCounted ==
    \A c \in Conns :
        pc[c] = "admitted" /\ c \notin counted \cup exposed =>
            ip[c] \in OnlineAddrs(user[c])

\* A connection over the limit is admitted only from an address where another
\* one was admitted before, or where one (it may be itself) has raced.
OverLimitNeedsKnownAddress ==
    [][\A c \in Conns : over[c] /\ pc[c] # "admitted" /\ pc'[c] = "admitted" =>
          \E d \in Conns :
              ip[d] = ip[c] /\ (pc[d] = "admitted" \/ d \in raced)]_vars

\* "previously-seen IPs [...] are all allowed through": a connection is not
\* refused at an address that its user had in the previous period.
PreviouslySeenPasses ==
    [][\A c \in Conns :
          pc[c] \in {"join", "look"} /\ pc'[c] \in {"undo", "withdraw"} =>
              OldUserOnline[ip[c]] # user[c]]_vars

=============================================================================
