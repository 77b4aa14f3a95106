------------------------------- MODULE Audit -------------------------------
(* The rules of a node: the destination the dispatcher judges, the record of *)
(* a hit and its report.  The hits of a period are kept in a Go map that      *)
(* nothing locks; a map is known by a number.                                 *)
EXTENDS NodeUsers

CONSTANTS
    Sites,        \* where connections go
    Forbidden     \* those whose domain a rule names; the hit is the rule's

Maps == 1..(Cardinality(Conns) + 3)

ASSUME AuditAssumption ==
    /\ Forbidden \subseteq Sites
    /\ \A m \in Maps : m # None

Hits == Users \X Sites

\* Of the tag's rules: they are there; or there are none, since nobody has
\* asked for them, they have been removed, GetNodeRule failed or had none, or
\* it said that they are not modified.
States == {"set", "unasked", "removed", "missed", "same"}

VARIABLES
    ruled,     \* the rules of the Controller's tag
    told,      \* the client has the panel's ETag for them
    sameTag,   \* the node was last replaced under the same tag
    leftTag,   \* the Controller has left a tag
    old,       \* connections of inbounds of such a tag
    passing,   \* those under way when the rules were removed, or come before
               \* the next inbound had users (history)
    met,       \* what ruled was when a connection came (history)
    site,      \* where a connection goes
    byName,    \* connections that ask for the domain
    heard,     \* those with a protocol the sniffer knows
    judged,    \* what Detect sees: "name" or "address"
    results,   \* InboundDetectResult of the tag: a map, or None
    content,   \* of each map
    mine,      \* the map a connection loaded
    taken,     \* the map GetDetectResult took, and its content once read
    batch,
    owed       \* hits to be reported (history)

destVars  == <<site, byName, heard, judged>>
ruleVars  == <<ruled, told>>
tagVars   == <<ruleVars, sameTag, leftTag, old, passing, met>>
hitVars   == <<results, content, mine, taken, batch, owed>>
auditVars == <<destVars, tagVars, hitVars>>

Hit(c) == <<UserOf[c], site[c]>>

AuditInit ==
    /\ ruled = "unasked"
    /\ told = FALSE /\ sameTag = FALSE /\ leftTag = FALSE
    /\ old = {} /\ passing = {}
    /\ met = [c \in Conns |-> "set"]
    /\ site = [c \in Conns |-> None]
    /\ byName = {} /\ heard = {}
    /\ judged = [c \in Conns |-> None]
    /\ results = None /\ taken = None
    /\ content = [m \in Maps |-> {}]
    /\ mine = [c \in Conns |-> None]
    /\ batch = {} /\ owed = {}

-----------------------------------------------------------------------------
(* Dispatch and routedDispatch.                                             *)

\* Dispatch: the target as the user asks for it; its payload may be one the
\* sniffer knows (http, tls, quic).  Nothing has FakeDNS.  A session that has
\* outlived its inbound may open another stream: late, if the Controller has
\* left the tag; between, before the next inbound has users.
Ask(c, s, name, known, late, between) ==
    /\ site' = [site EXCEPT ![c] = s]
    /\ byName' = IF name THEN byName \cup {c} ELSE byName
    /\ heard' = IF known THEN heard \cup {c} ELSE heard
    /\ judged' = [judged EXCEPT ![c] = IF name THEN "name" ELSE "address"]
    /\ old' = IF late THEN old \cup {c} ELSE old
    /\ passing' = IF between THEN passing \cup {c} ELSE passing
    /\ met' = [met EXCEPT ![c] = ruled]
    /\ UNCHANGED <<ruleVars, sameTag, leftTag, hitVars>>

\* Unless DisableSniffing is set, the sniffed domain replaces the address, for
\* the rules and for the outbound; two attempts may end without a result.
Sniff(c, sniffs) ==
    /\ judged' = IF sniffs /\ c \in heard THEN [judged EXCEPT ![c] = "name"]
                                          ELSE judged
    /\ UNCHANGED <<site, byName, heard, tagVars, hitVars>>

HasRules(c) == ruled = "set" /\ c \notin old
MatchesRule(c) == HasRules(c) /\ site[c] \in Forbidden /\ judged[c] = "name"

\* A map nothing refers to; its content is forgotten with the last reference.
MapsInUse == {results, taken} \cup {mine[c] : c \in Conns}
Keep(f, refs) == [m \in Maps |-> IF m \in refs THEN f[m] ELSE {}]

\* Detect: LoadOrStore of a map with the hit.
RecordFirst(c) ==
    /\ results = None
    /\ \E m \in Maps \ MapsInUse :
          /\ \A n \in Maps \ MapsInUse : m <= n
          /\ results' = m
          /\ content' = [content EXCEPT ![m] = {Hit(c)}]
    /\ owed' = owed \cup {Hit(c)}
    /\ UNCHANGED <<destVars, tagVars, mine, taken, batch>>

LoadMap(c) ==
    /\ results # None
    /\ mine' = [mine EXCEPT ![c] = results]
    /\ UNCHANGED <<destVars, tagVars, results, content, taken, batch, owed>>

\* Mutant of AlreadyThere: the loaded map is kept.
AlreadyThereKeeps(c) ==
    /\ Hit(c) \in content[mine[c]]
    /\ content' = Keep(content, {results, taken} \cup {mine[d] : d \in Conns \ {c}})
    /\ owed' = IF mine[c] = results THEN owed \cup {Hit(c)} ELSE owed
    /\ UNCHANGED <<destVars, tagVars, results, mine, taken, batch>>

\* The map has the hit.  One that has been taken since is reported, or lost,
\* with what it had.
AlreadyThere(c) ==
    /\ Hit(c) \in content[mine[c]]
    /\ mine' = [mine EXCEPT ![c] = None]
    /\ content' = Keep(content, {results, taken} \cup {mine[d] : d \in Conns \ {c}})
    /\ owed' = IF mine[c] = results THEN owed \cup {Hit(c)} ELSE owed
    /\ UNCHANGED <<destVars, tagVars, results, taken, batch>>

WriteMap(c) ==
    /\ Hit(c) \notin content[mine[c]]
    /\ content' = [content EXCEPT ![mine[c]] = @ \cup {Hit(c)}]
    /\ UNCHANGED <<destVars, tagVars, results, mine, taken, batch, owed>>

\* The runtime stops the process when it sees another goroutine in a map that
\* one writes to.
Collides(c, writers) ==
    /\ mine[c] # None
    /\ \/ \E d \in writers \ {c} : mine[d] = mine[c]
       \/ taken = mine[c]

\* Mutant of StoreMap: a map that was in the table is taken to be still there.
StoreNothing(c) ==
    /\ mine' = [mine EXCEPT ![c] = None]
    /\ content' = Keep(content, {results, taken} \cup {mine[d] : d \in Conns \ {c}})
    /\ owed' = owed \cup {Hit(c)}
    /\ UNCHANGED <<destVars, tagVars, results, taken, batch>>

\* Store puts the map back, over one that may have come meanwhile.
StoreMap(c) ==
    /\ results' = mine[c]
    /\ mine' = [mine EXCEPT ![c] = None]
    /\ content' = Keep(content, {mine[c], taken} \cup {mine[d] : d \in Conns \ {c}})
    /\ owed' = {Hit(c)} \cup
         (owed \ (IF results = None THEN {} ELSE content[results] \ content[mine[c]]))
    /\ UNCHANGED <<destVars, tagVars, taken, batch>>

\* The same under a tag the Controller has left: nobody collects it.
LeakHit(c) ==
    /\ mine' = [mine EXCEPT ![c] = None]
    /\ content' = Keep(content, {results, taken} \cup {mine[d] : d \in Conns \ {c}})
    /\ UNCHANGED <<destVars, tagVars, results, taken, batch, owed>>

\* The connection is over.
Forget(c) ==
    /\ site' = [site EXCEPT ![c] = None]
    /\ byName' = byName \ {c} /\ heard' = heard \ {c}
    /\ judged' = [judged EXCEPT ![c] = None]
    /\ old' = old \ {c} /\ passing' = passing \ {c}
    /\ met' = [met EXCEPT ![c] = "set"]
    /\ UNCHANGED <<ruleVars, sameTag, leftTag, hitVars>>

-----------------------------------------------------------------------------
(* GetDetectResult and ReportIllegal.                                       *)

\* LoadAndDelete.
TakeResults ==
    /\ taken' = results
    /\ results' = None
    /\ UNCHANGED <<destVars, tagVars, content, mine, batch, owed>>

ReadResults ==
    /\ batch' = content[taken]
    /\ taken' = None
    /\ content' = Keep(content, {results} \cup {mine[c] : c \in Conns})
    /\ UNCHANGED <<destVars, tagVars, results, mine, owed>>

\* A report that fails is not repeated.
ReportIllegal ==
    /\ batch' = {}
    /\ owed' = owed \ batch
    /\ UNCHANGED <<destVars, tagVars, results, content, mine, taken>>

\* RemoveInbound, when the node is replaced.  The new tag is the old one, or
\* another: its connections are those of a tag without rules then.
RemoveInbound(live, same) ==
    /\ ruled' = "removed"
    /\ sameTag' = same
    /\ leftTag' = (leftTag \/ ~same)
    /\ old' = IF same THEN old ELSE old \cup live
    /\ passing' = passing \cup live
    /\ results' = None
    /\ content' = Keep(content, {taken} \cup {mine[c] : c \in Conns})
    /\ owed' = owed \ (IF results = None THEN {} ELSE content[results])
    /\ UNCHANGED <<destVars, told, met, mine, taken, batch>>

\* Mutant of UpdateRule: what sets no rules takes away those there are.
UpdateRuleForgets(outcome, eTag) ==
    /\ outcome = "same" => told
    /\ ruled' = outcome
    /\ told' \in {told, eTag}
    /\ UNCHANGED <<destVars, sameTag, leftTag, old, passing, met, hitVars>>

\* GetNodeRule and UpdateRule, in Start and in a poll.  With no list, an empty
\* one or an unmodified one the tag keeps what it has: nothing, if it is new.
\* A client with an ETag for rules (eTag) may have taken it from an answer it
\* could not read.
UpdateRule(outcome, eTag) ==
    /\ outcome = "same" => told
    /\ ruled' = IF ruled = "set" THEN "set" ELSE outcome
    /\ told' \in (IF outcome = "missed" THEN {told, eTag}
                  ELSE IF outcome = "set" THEN {eTag} ELSE {told})
    /\ UNCHANGED <<destVars, sameTag, leftTag, old, passing, met, hitVars>>

-----------------------------------------------------------------------------
AuditTypeOK ==
    /\ ruled \in States /\ met \in [Conns -> States]
    /\ {told, sameTag, leftTag} \subseteq BOOLEAN
    /\ old \cup passing \cup byName \cup heard \subseteq Conns
    /\ site \in [Conns -> Sites \cup {None}]
    /\ judged \in [Conns -> {"name", "address", None}]
    /\ {results, taken} \cup {mine[c] : c \in Conns} \subseteq Maps \cup {None}
    /\ content \in [Maps -> SUBSET Hits]
    /\ batch \cup owed \subseteq Hits
=============================================================================
