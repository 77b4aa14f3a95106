---------------------------- MODULE GlobalLimit ----------------------------
(* The global device limit: a user's addresses in a cache of two layers, of  *)
(* this node and of all nodes (redis), read and written by every new         *)
(* connection.  An entry of the cache is one user's, and nothing relates     *)
(* the entries of two users: this is one user's.                             *)
EXTENDS NodeUsers

CONSTANTS Addrs,        \* of the user's devices
          Elsewhere,    \* those that also connect to other nodes
          DeviceLimit,  \* the user's, 0 for none
          MaxFailures,  \* bound on cache calls that fail
          MaxFills      \* bound on entries on their way to the go-cache

ASSUME GlobalAssumption ==
    /\ IsFiniteSet(Addrs) /\ Elsewhere \subseteq Addrs
    /\ \A ips \in SUBSET Addrs : ips # None
    /\ DeviceLimit \in Nat /\ MaxFailures \in Nat /\ MaxFills \in Nat

VARIABLES
    local,     \* the go-cache's entry, or None
    remote,    \* redis'
    filling,   \* entries read from redis, on their way to the go-cache
    pushing,   \* what a connection's pushIP writes, and where
    failures,  \* cache calls that have failed
    letIn      \* addresses let in since the start, or None once something has
               \* happened that may let in too many (history)

globalVars == <<local, remote, filling, pushing, failures, letIn>>

NoPushIP == [to |-> "nowhere", ips |-> {}]

GlobalInit ==
    /\ local = None /\ remote = None
    /\ filling = {}
    /\ pushing = [c \in Conns |-> NoPushIP]
    /\ failures = 0
    /\ letIn = {}

-----------------------------------------------------------------------------
\* The chain: what the go-cache has hides what redis has.
Cached == IF local # None THEN local ELSE remote

LetIn(ips) == letIn' = IF letIn = None THEN None ELSE letIn \cup ips
Excuses(p) == letIn' = IF p THEN None ELSE letIn

\* What is found in redis only is written to the go-cache.
FillLater ==
    filling' = IF local = None /\ Cardinality(filling) < MaxFills
               THEN filling \cup {remote} ELSE filling

Racing == \E c \in Conns : pushing[c] # NoPushIP

\* Mutant of Snapshot: the addresses of before are not copied.
SnapshotOfOne(ips, a) == {a}

\* The addresses of before and the new one.
Snapshot(ips, a) == ips \cup {a}

\* globalLimit, under mu; pushIP runs after it.  One address more than the
\* limit passes, as the new one is not counted.
Admit(c, a) ==
    LET ips == IF Cached = None THEN {} ELSE Cached
    IN  /\ pushing[c] = NoPushIP
        /\ Cached = None \/ DeviceLimit = 0 \/ Cardinality(ips) <= DeviceLimit
        /\ pushing' = IF a \in ips THEN pushing
                      ELSE [pushing EXCEPT ![c] = [to |-> "local",
                                                   ips |-> Snapshot(ips, a)]]
        /\ IF remote = None THEN UNCHANGED filling ELSE FillLater
        /\ IF Racing THEN letIn' = None ELSE LetIn({a})
        /\ UNCHANGED <<local, remote, failures>>

Refuse ==
    /\ Cached # None /\ DeviceLimit > 0 /\ Cardinality(Cached) > DeviceLimit
    /\ FillLater
    /\ UNCHANGED <<local, remote, pushing, failures, letIn>>

\* The go-cache has nothing and redis does not answer: everybody passes, and
\* nothing is written.
AdmitUnchecked(a) ==
    /\ local = None
    /\ failures < MaxFailures
    /\ failures' = failures + 1
    /\ letIn' = None
    /\ UNCHANGED <<local, remote, filling, pushing>>

Forgets(old, new) == old # None /\ ~(old \subseteq new)

\* pushIP: Set of the chain, the go-cache first.
PushLocal(c) ==
    /\ pushing[c].to = "local"
    /\ local' = pushing[c].ips
    /\ pushing' = [pushing EXCEPT ![c] = [to |-> "remote", ips |-> @.ips]]
    /\ UNCHANGED <<remote, filling, failures, letIn>>

PushRemote(c) ==
    /\ pushing[c].to = "remote"
    /\ remote' = pushing[c].ips
    /\ pushing' = [pushing EXCEPT ![c] = NoPushIP]
    /\ UNCHANGED <<local, filling, failures, letIn>>

PushFails(c) ==
    /\ pushing[c].to = "remote"
    /\ failures < MaxFailures
    /\ failures' = failures + 1
    /\ letIn' = None
    /\ pushing' = [pushing EXCEPT ![c] = NoPushIP]
    /\ UNCHANGED <<local, remote, filling>>

\* The chain writes what it found in redis back to the go-cache, whatever
\* pushIP has written there meanwhile.
Fill ==
    /\ \E ips \in filling :
          /\ local' = ips
          /\ filling' = filling \ {ips}
          /\ Excuses(Forgets(Cached, ips))
    /\ UNCHANGED <<remote, pushing, failures>>

ExpireLocal ==
    /\ local # None
    /\ local' = None
    /\ Excuses(remote = None \/ Forgets(local, remote) \/ filling # {})
    /\ UNCHANGED <<remote, filling, pushing, failures>>

ExpireRemote ==
    /\ remote # None
    /\ remote' = None
    /\ letIn' = None
    /\ UNCHANGED <<local, filling, pushing, failures>>

\* Another node writes what it has of the user with an address of its own.
OtherNode ==
    /\ \E a \in Elsewhere : \E ips \in {{}, IF remote = None THEN {} ELSE remote} :
          /\ DeviceLimit = 0 \/ Cardinality(ips) <= DeviceLimit
          /\ remote' = ips \cup {a}
          /\ Excuses(Forgets(remote, ips \cup {a}))
    /\ UNCHANGED <<local, filling, pushing, failures>>

Cache == \/ Fill \/ ExpireLocal \/ ExpireRemote \/ OtherNode
         \/ \E c \in Conns : PushLocal(c) \/ PushRemote(c) \/ PushFails(c)

-----------------------------------------------------------------------------
GlobalTypeOK ==
    /\ {local, remote} \ {None} \subseteq SUBSET Addrs
    /\ filling \subseteq SUBSET Addrs
    /\ pushing \in [Conns -> [to : {"nowhere", "local", "remote"},
                              ips : SUBSET Addrs]]
    /\ failures \in 0..MaxFailures
    /\ letIn \in (SUBSET Addrs) \cup {None}

\* A user gets in from no more than one address beyond the limit, unless a
\* connection came while an address was on its way to the cache, the cache
\* failed, an entry expired, or one that lacks addresses was written over it,
\* by another node or from redis to the go-cache.
GlobalBound ==
    DeviceLimit > 0 /\ letIn # None => Cardinality(letIn) <= DeviceLimit + 1
=============================================================================
