--------------------------- MODULE TrafficReport ---------------------------
(***************************************************************************)
(* How a node turns the bytes it carries into the bytes the panel bills.   *)
(*                                                                         *)
(* xray-core keeps one counter per <tag, user, direction> and adds to it   *)
(* as connections move data.  Three tasks of one Controller run beside     *)
(* those connections, each on a timer of its own:                          *)
(*   - the pull monitor (userInfoMonitor) reads the counters of the listed *)
(*     users one after the other and stashes the reading as pendingTraffic;*)
(*   - the push monitor (pushMonitor) takes the stashed batch, POSTs it to *)
(*     the panel and, if the POST succeeded, sets its counters to 0;       *)
(*   - the node monitor replaces the user list and the node's tag.         *)
(* trafficMu protects the hand-over of the batch.  It does not protect the *)
(* reads of the counters, the POST, or the resets.                         *)
(***************************************************************************)
EXTENDS Integers, Functions

CONSTANTS
    Users,                 \* api.UserInfo values (Email and UID)
    Tags,                  \* node tags buildNodeTag can produce
    DisableUploadTraffic,  \* the config switch of that name
    MaxBytes,              \* bound: bytes carried by all connections
    MaxUnheard             \* bound: booked bytes whose answer is lost

ASSUME ConstantsOK ==
    /\ DisableUploadTraffic \in BOOLEAN
    /\ MaxBytes \in Nat
    /\ MaxUnheard \in Nat

Dirs == {"up", "down"}

\* A counter's name: "user>>>" + tag|email|uid + ">>>traffic>>>uplink".
Slots == [tag : Tags, user : Users, dir : Dirs]

Zeros == [s \in Slots |-> 0]

\* struct pendingTraffic: the amounts to report, and the counters to reset.
\* A counter that read 0 is not in refs.
Batches == [bytes : [Slots -> Nat], refs : SUBSET Slots]

\* nil: userTraffic is never stashed empty.
NoBatch == [bytes |-> Zeros, refs |-> {}]

VARIABLES
    counter,         \* the xray-core counters
    Tag,             \* c.Tag
    userList,        \* c.userList
    pullPc,          \* where the pull monitor is
    pullTodo,        \* users of its snapshot not read yet
    pullSlot,        \* the counter it is reading
    pullBatch,       \* its userTraffic, upCounterList and downCounterList
    pendingTraffic,  \* c.pendingTraffic
    pushPc,          \* where the push monitor is
    pushBatch,       \* its batch; while resetting, refs are those left
    billed           \* the panel's total per counter

\* History variables: no action reads them.
VARIABLES
    carried,         \* bytes ever added to the counter
    exposed,         \* of those, added while some batch held the counter
    overlap,         \* counters pull and push have held at the same time
    unheard          \* bytes the panel booked in a POST that looked failed

pullVars == <<pullPc, pullTodo, pullSlot, pullBatch>>
pushVars == <<pushPc, pushBatch>>
nodeVars == <<Tag, userList>>
history  == <<carried, exposed, overlap, unheard>>
vars == <<counter, nodeVars, pullVars, pendingTraffic, pushVars, billed,
          history>>

Init ==
    /\ counter = Zeros
    /\ Tag \in Tags
    /\ userList = Users
    /\ pullPc = "idle"
    /\ pullTodo = {}
    /\ pullSlot \in [tag : {Tag}, user : Users, dir : {"up"}]
    /\ pullBatch = NoBatch
    /\ pendingTraffic = NoBatch
    /\ pushPc = "idle"
    /\ pushBatch = NoBatch
    /\ billed = Zeros
    /\ carried = Zeros
    /\ exposed = Zeros
    /\ overlap = {}
    /\ unheard = Zeros

-----------------------------------------------------------------------------
(* The connections, in xray-core.                                          *)

Held == pullBatch.refs \cup pendingTraffic.refs \cup pushBatch.refs

\* A connection moves one more byte.  It was opened under the current tag by
\* a listed user, or it is an older one: xray-core does not close it when
\* its user or its inbound is removed.
Carry(s) ==
    /\ (s.tag = Tag /\ s.user \in userList) \/ carried[s] > 0
    /\ SumFunction(carried) < MaxBytes
    /\ counter' = [counter EXCEPT ![s] = @ + 1]
    /\ carried' = [carried EXCEPT ![s] = @ + 1]
    /\ exposed' = [exposed EXCEPT ![s] = IF s \in Held THEN @ + 1 ELSE @]
    /\ UNCHANGED <<nodeVars, pullVars, pendingTraffic, pushVars, billed,
                   overlap, unheard>>

-----------------------------------------------------------------------------
(* userInfoMonitor.                                                        *)

PullBegin ==
    /\ pullPc = "idle"
    /\ pullPc' = "user"
    /\ pullTodo' = userList
    /\ pullBatch' = NoBatch
    /\ UNCHANGED <<counter, nodeVars, pullSlot, pendingTraffic, pushVars,
                   billed, history>>

\* buildUserTag(user) reads c.Tag, once per user and without the lock.
PullUser(u) ==
    /\ pullPc = "user"
    /\ u \in pullTodo
    /\ pullTodo' = pullTodo \ {u}
    /\ pullSlot' = [tag |-> Tag, user |-> u, dir |-> "up"]
    /\ pullPc' = "check"
    /\ UNCHANGED <<counter, nodeVars, pullBatch, pendingTraffic, pushVars,
                   billed, history>>

\* On to the user's other direction, or to the next user.
NextDir ==
    IF pullSlot.dir = "up"
    THEN pullPc' = "check" /\ pullSlot' = [pullSlot EXCEPT !.dir = "down"]
    ELSE pullPc' = "user" /\ UNCHANGED pullSlot

\* getTraffic loads a counter twice: to compare it with 0, and to copy it.
PullCheck ==
    /\ pullPc = "check"
    /\ IF counter[pullSlot] # 0
       THEN pullPc' = "load" /\ UNCHANGED pullSlot
       ELSE NextDir
    /\ UNCHANGED <<counter, nodeVars, pullTodo, pullBatch, pendingTraffic,
                   pushVars, billed, history>>

PullLoad ==
    /\ pullPc = "load"
    /\ pullBatch' =
         [bytes |-> [pullBatch.bytes EXCEPT ![pullSlot] = counter[pullSlot]],
          refs  |-> pullBatch.refs \cup {pullSlot}]
    /\ overlap' = overlap \cup ({pullSlot} \cap pushBatch.refs)
    /\ NextDir
    /\ UNCHANGED <<counter, nodeVars, pullTodo, pendingTraffic, pushVars,
                   billed, carried, exposed, unheard>>

\* Users with up > 0 or down > 0 are in userTraffic; only their counters are
\* in the lists.
Kept(b) ==
    [b EXCEPT !.refs = {s \in @ : \E d \in Dirs :
                                     b.bytes[[s EXCEPT !.dir = d]] > 0}]

\* Mutant of PullStash: the reading is merged into the pending batch.
PullStashMerges ==
    /\ pullPc = "user"
    /\ pullTodo = {}
    /\ pullPc' = "idle"
    /\ pendingTraffic' =
         [bytes |-> [s \in Slots |-> pendingTraffic.bytes[s]
                                       + Kept(pullBatch).bytes[s]],
          refs  |-> pendingTraffic.refs \cup Kept(pullBatch).refs]
    /\ pullBatch' = NoBatch
    /\ UNCHANGED <<counter, nodeVars, pullTodo, pullSlot, pushVars, billed,
                   history>>

\* Under trafficMu.  A non-empty reading replaces whatever was pending; an
\* empty one leaves it.
PullStash ==
    /\ pullPc = "user"
    /\ pullTodo = {}
    /\ pullPc' = "idle"
    /\ pendingTraffic' = IF Kept(pullBatch).refs # {} THEN Kept(pullBatch)
                                                      ELSE pendingTraffic
    /\ pullBatch' = NoBatch
    /\ UNCHANGED <<counter, nodeVars, pullTodo, pullSlot, pushVars, billed,
                   history>>

-----------------------------------------------------------------------------
(* pushMonitor, and the panel it talks to.                                 *)

\* Under trafficMu: batch := c.pendingTraffic; c.pendingTraffic = nil.
\* With DisableUploadTraffic nothing is sent and reportErr stays nil.
PushTake ==
    /\ pushPc = "idle"
    /\ pendingTraffic # NoBatch
    /\ pushBatch' = pendingTraffic
    /\ pendingTraffic' = NoBatch
    /\ pushPc' = IF DisableUploadTraffic THEN "reset" ELSE "sent"
    /\ overlap' = overlap \cup (pullBatch.refs \cap pendingTraffic.refs)
    /\ UNCHANGED <<counter, nodeVars, pullVars, billed, carried, exposed,
                   unheard>>

\* The panel books the report.
PanelBooks ==
    /\ pushPc = "sent"
    /\ billed' = [s \in Slots |-> billed[s] + pushBatch.bytes[s]]
    /\ pushPc' = "booked"
    /\ UNCHANGED <<counter, nodeVars, pullVars, pendingTraffic, pushBatch,
                   history>>

\* Mutant of PushRefused: the error is not looked at.
PushRefusedResets ==
    /\ pushPc = "sent"
    /\ pushPc' = "reset"
    /\ UNCHANGED <<counter, nodeVars, pullVars, pendingTraffic, pushBatch,
                   billed, history>>

\* Mutant of PushRefused: the error is returned, which ends the task.
PushRefusedStops ==
    /\ pushPc = "sent"
    /\ pushPc' = "stopped"
    /\ pushBatch' = NoBatch
    /\ UNCHANGED <<counter, nodeVars, pullVars, pendingTraffic, billed,
                   history>>

\* ReportUserTraffic returns an error and nothing was booked: the batch is
\* dropped, the counters are left alone.
PushRefused ==
    /\ pushPc = "sent"
    /\ pushPc' = "idle"
    /\ pushBatch' = NoBatch
    /\ UNCHANGED <<counter, nodeVars, pullVars, pendingTraffic, billed,
                   history>>

\* The same error, but only the answer was lost.
PushUnheard ==
    /\ pushPc = "booked"
    /\ SumFunction(unheard) + SumFunction(pushBatch.bytes) <= MaxUnheard
    /\ unheard' = [s \in Slots |-> unheard[s] + pushBatch.bytes[s]]
    /\ pushPc' = "idle"
    /\ pushBatch' = NoBatch
    /\ UNCHANGED <<counter, nodeVars, pullVars, pendingTraffic, billed,
                   carried, exposed, overlap>>

\* ReportUserTraffic returns nil.
PushAccepted ==
    /\ pushPc = "booked"
    /\ pushPc' = "reset"
    /\ UNCHANGED <<counter, nodeVars, pullVars, pendingTraffic, pushBatch,
                   billed, history>>

\* Mutant of PushReset: what was reported is subtracted.
PushSubtract(s) ==
    /\ pushPc = "reset"
    /\ s \in pushBatch.refs
    /\ counter' = [counter EXCEPT ![s] = @ - pushBatch.bytes[s]]
    /\ pushBatch' = [pushBatch EXCEPT !.refs = @ \ {s}]
    /\ UNCHANGED <<pushPc, nodeVars, pullVars, pendingTraffic, billed,
                   history>>

\* Mutant of PushReset: the counter is skipped.
PushSkip(s) ==
    /\ pushPc = "reset"
    /\ s \in pushBatch.refs
    /\ pushBatch' = [pushBatch EXCEPT !.refs = @ \ {s}]
    /\ UNCHANGED <<counter, pushPc, nodeVars, pullVars, pendingTraffic, billed,
                   history>>

\* resetTraffic: Set(0) on one counter after the other, uplinks first.
PushReset(s) ==
    /\ pushPc = "reset"
    /\ s \in pushBatch.refs
    /\ s.dir = "up" \/ \A r \in pushBatch.refs : r.dir = "down"
    /\ counter' = [counter EXCEPT ![s] = 0]
    /\ pushBatch' = [pushBatch EXCEPT !.refs = @ \ {s}]
    /\ UNCHANGED <<pushPc, nodeVars, pullVars, pendingTraffic, billed,
                   history>>

PushEnd ==
    /\ pushPc = "reset"
    /\ pushBatch.refs = {}
    /\ pushPc' = "idle"
    /\ pushBatch' = NoBatch
    /\ UNCHANGED <<counter, nodeVars, pullVars, pendingTraffic, billed,
                   history>>

-----------------------------------------------------------------------------
(* nodeInfoMonitor, as far as this component sees it (NodeSync has it      *)
(* whole): two critical sections of trafficMu.                             *)

SetTag(t) ==
    /\ t # Tag
    /\ Tag' = t
    /\ UNCHANGED <<counter, userList, pullVars, pendingTraffic, pushVars,
                   billed, history>>

SetUserList(L) ==
    /\ L # userList
    /\ userList' = L
    /\ UNCHANGED <<counter, Tag, pullVars, pendingTraffic, pushVars, billed,
                   history>>

-----------------------------------------------------------------------------
Pull == PullBegin \/ (\E u \in Users : PullUser(u)) \/ PullCheck \/ PullLoad
        \/ PullStash

Push == PushTake \/ PushRefused \/ PushUnheard \/ PushAccepted
        \/ (\E s \in Slots : PushReset(s)) \/ PushEnd

Next ==
    \/ \E s \in Slots : Carry(s)
    \/ Pull
    \/ Push
    \/ PanelBooks
    \/ \E t \in Tags : SetTag(t)
    \/ \E L \in SUBSET Users : SetUserList(L)

Spec == Init /\ [][Next]_vars

\* The periodic tasks keep firing and run to their end; the panel accepts
\* infinitely many of infinitely many reports, and its answers arrive again
\* and again.  Connections and the node monitor owe nothing.
Fairness ==
    /\ WF_vars(Pull)
    /\ WF_vars(Push)
    /\ SF_vars(PanelBooks)
    /\ SF_vars(PushAccepted)

FairSpec == Spec /\ Fairness

-----------------------------------------------------------------------------
(* Properties.                                                             *)

TypeOK ==
    /\ counter \in [Slots -> Nat]
    /\ Tag \in Tags
    /\ userList \in SUBSET Users
    /\ pullPc \in {"idle", "user", "check", "load"}
    /\ pullTodo \in SUBSET Users
    /\ pullSlot \in Slots
    /\ pullBatch \in Batches
    /\ pendingTraffic \in Batches
    /\ pushPc \in {"idle", "sent", "booked", "reset"}
    /\ pushBatch \in Batches
    /\ billed \in [Slots -> Nat]
    /\ carried \in [Slots -> Nat]
    /\ exposed \in [Slots -> Nat]
    /\ overlap \in SUBSET Slots
    /\ unheard \in [Slots -> Nat]

\* "Resetting xray counters only after a successful report": what a reset
\* erased was billed, except bytes that arrived while a batch was holding the
\* counter (they are in the counter, not in the reading, and Set(0) takes
\* them too).  A refused report, a replaced or stale batch, a re-tag and a
\* changed user list lose nothing.
NothingLostUnlessExposed ==
    ~DisableUploadTraffic =>
        \A s \in Slots : carried[s] <= billed[s] + counter[s] + exposed[s]

\* A counter is billed beyond what it carried only if the pull monitor
\* sampled it while the push monitor had it in flight, or if an answer of
\* the panel was lost.
OverbilledOnlyIfOverlapped ==
    \A s \in Slots \ overlap : billed[s] <= carried[s] + unheard[s]

\* However the three tasks interleave, a byte is billed at most three times
\* (by the report in flight, by the batch stashed meanwhile, and by the
\* reading under way when the reset came), lost answers aside.
BilledAtMostThrice ==
    \A s \in Slots : billed[s] <= 3 * carried[s] + unheard[s]

\* "A fresh reading is always a superset of a pending one": when the pull
\* monitor replaces a batch, nothing in it is missing from the new one.
FreshIsSuperset ==
    [][PullStash /\ pendingTraffic' # pendingTraffic =>
          \A s \in Slots : pendingTraffic.bytes[s] <= pendingTraffic'.bytes[s]
      ]_vars

\* What a listed user's counter holds is reported and reset in the end,
\* unless the user is unlisted or the node re-tagged first.
TrafficReported ==
    \A s \in Slots :
        counter[s] > 0 ~> \/ counter[s] = 0
                          \/ s.user \notin userList
                          \/ s.tag # Tag

=============================================================================
