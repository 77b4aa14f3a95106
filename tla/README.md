# A verification of XrayR in TLA+

XrayR attaches proxy nodes (xray-core inbounds) to a panel: it fetches the
node's configuration and its users, puts them into xray-core, limits devices
and speed, audits destinations, and reports traffic and online addresses. This
directory holds TLA+ modules of its core logic, the TLC configurations that
check them, and theorems checked by TLAPS. Paths below are those of the
repository, under `src/`.

## 1. Inventory

| Component | State | Operations | Hard behaviour | What makes it correct |
|---|---|---|---|---|
| **Traffic reporting** (`service/controller`: `userInfoMonitor`, `pushMonitor`, `getTraffic`, `resetTraffic`) | xray-core's counters; `pendingTraffic` under `trafficMu`; the panel's total | sample, stash, take, report, reset | three periodic tasks and all connections run at once; a report can be refused, or booked and its answer lost | nothing that was carried is erased unbilled; nothing is billed twice; everything is billed in the end |
| **Synchronisation** (`nodeInfoMonitor`, `control.go`) | `nodeInfo`, `Tag`, `userList`; xray-core's handlers; limiter and rules per tag; the client's ETags | fetch, re-tag, add and remove users, update limiter and rules | every call can fail half way; ETags advance at once; edits during a poll | the Controller's books match what xray-core serves; nothing leaks; the node copies its panel |
| **Local device limit** (`common/limiter`) | `UserOnlineIP` (map of maps), `OldUserOnline`, `AliveList` | `GetUserBucket`, `GetOnlineDevice`, `SetAliveList` | lock-free maps shared by every connection and the sweep | the gate holds; refused addresses leave no trace; admitted ones are counted |
| **Speed limit buckets** (`limiter.go`, `rate.go`) | `UserInfo`, `BucketHub` | create, update, sweep | a bucket is dropped, or its record updated, while connections use or make it | one bucket per user, at the rate of the record |
| **Global device limit** (`globalLimit`, `pushIP`) | go-cache and redis | read, copy, write asynchronously | lost updates between connections and nodes; expiry; failures | at most one address too many |
| **Auto speed limit** (`limitUserLocked`, `unlockExpiredLimitsLocked`) | `limitedUsers`, `warnedUsers` | warn, limit, release | counters that no report has reset; polls and re-tags in between | only fast users are limited; a limit is neither lost nor forgotten |
| **Rule manager** (`common/rule`) | rules and hits per tag | update, detect, collect | a plain map used by many goroutines | every hit is reported; what a rule forbids does not get out |
| **Dispatcher** (`app/mydispatcher`) | links | dispatch, sniff, route | what a connection looked up is replaced under it | every link passes limiter, counters and rules |
| **Life cycle** (`Start`, `Close`, periodic tasks) | tasks | start, close | close before start; an error ends a task | after `Close` nothing runs |
| **Certificates** (`certMonitor`, `common/mylego`) | account key, registration, certificate and key, in files | obtain, renew | files written in place, jobs of several nodes, crashes | the files fit together |
| **Panel and reload** (`panel`, `cmd`) | core instance, services, the watched file | start, close, reload | monitors in flight, events discarded | the last configuration is the one running |
| **Panel clients** (`api/*`) | ETags, last answer, device counts, Xboard's fallback | GETs and POSTs | an ETag stored too early, two monitors in one client, answers that say no | requests mean what the Controller thinks |
| **Builders** (`inboundbuilder.go`, `outboundbuilder.go`, `userbuilder.go`) | none | translation | settings of panel and node combine in any way | what is served is what was meant, at least encrypted |

How they interact: `cmd` starts a `Panel`, which starts one `Controller` per
node. A Controller runs its monitors as `task.Periodic`s, each in its own
goroutine; they share the Controller's fields (partly under `trafficMu`), the
panel client, and the dispatcher's `Limiter` and `RuleManager`, which every
connection uses through `DefaultDispatcher.getLink` and `routedDispatch`.

## 2. Structure

| Module | Composes | Run | Proofs |
|---|---|---|---|
| `TrafficReport` | | `traffic_safety`, `traffic_live`, `traffic_superset` | `TrafficReportProofs` |
| `NodeSync` | implements `NodeReplica` | `sync_safety`, `sync_live`, `sync_not_modified` | `NodeSyncProofs` |
| `DeviceLimit` | | `device_safety`, `device_grace` | `DeviceLimitProofs` |
| `Connection` | `SpeedLimit`, `GlobalLimit`, `Audit` (over `NodeUsers`) | `connection` | `ConnectionProofs` |
| `Service` | `Certificates` | `service` | `ServiceProofs` |
| `PanelClient` | `Panels`: `SSPanel`, `NewV2board`, `PMPanel`, `ProxyPanel`, `V2RaySocks`, `GoV2Panel`, `BunPanel`, `Xboard` (each over `PanelApi`) | `panel` | `PanelsProofs`, `PanelClientProofs` |
| `Inbound` | `Builders`, `Panels` | `inbound` | `InboundProofs` (over `PanelsProofs`) |

Two compositions share a component's module: `Connection` puts the three parts
in the order of one connection's way, and lets their monitors meet; `Inbound`
puts the parser of every client before the builders. `DeviceLimit` stays
apart from `Connection`: its gate is a dozen map operations per
connection, which the other parts do not look at (only whether the user
is online, which `SpeedLimit` keeps).

What is left of the plan is in section 7.

## 3. The modules

`X.tla` is a component, `MCX.tla` gives TLC small sets for its constants, each
`X*.cfg` is one run, `XProofs.tla` holds its theorems. Operators called
"Mutant of ..." are faulty variants of the definition they precede; no
specification uses them. They are there to show that each property can tell the
code from a plausible mistake.

### TrafficReport

State: the counters by tag, user and direction; where the pull and the push
monitor are and the batch each holds; `pendingTraffic`; what the panel billed.
Every action is one atomic access: reading a counter takes two loads
(`PullCheck`, `PullLoad`) as in `getTraffic`, resetting is one `Set(0)` per
action, in the code's order (uplinks first). A report is sent (`PushTake`), booked by the
panel (`PanelBooks`) or refused (`PushRefused`), and answered (`PushAccepted`) or
not (`PushUnheard`). A refused report drops the batch, as the code does.
`Carry` lets any connection, old ones included, add a byte at any time.
`SetTag` and `SetUserList` are the critical sections of `nodeInfoMonitor`.

History variables: `exposed` counts the bytes that arrive while some batch
holds their counter, `overlap` the counters that were sampled while in a report,
`unheard` the bytes whose booking was not heard of. They delimit exactly what
the code cannot keep, so that the invariants are unconditional otherwise.

- `NothingLostUnlessExposed`: `carried <= billed + counter + exposed`.
- `OverbilledOnlyIfOverlapped`, `BilledAtMostThrice`: the two ways of billing
  twice, and the bound that holds in all interleavings (three is reached).
- `TrafficReported`: what a listed user's counter holds is reset by a report in
  the end, unless the user is unlisted or the node re-tagged first.
- `FreshIsSuperset` (violated): a comment in the code says that replacing a
  pending batch loses nothing. With a user unlisted in between it does.

### NodeSync

State: the panel's configuration and users; the client's ETags (as the content
last read) and its last response; the Controller's `nodeInfo`, `Tag`,
`userList`; the poll's local variables; handlers of xray-core, limiters and rules
by tag. One action per call of `nodeInfoMonitor`, with a failing variant for
each call that can fail; a failure in the middle of `addUsers` or
`removeUsers` leaves any subset the loop may have reached (the lists come from
maps or from the panel, in any order).

Abstractions: a tag is `type_ip_port`, so a port stands for it; a
configuration is a port and "settings"; a user is an id and an "account"
(everything else of `api.UserInfo`); the email derives from the id. A fetch of
the configuration that fails before an answer is read changes nothing and is a
stuttering step. Left out: Shadowsocks-Plugin's second inbound,
`DisableGetRule`, and the Controller's own `Port == 0` check, which the Xboard
client's comes before.

- `NothingLeftBehind`: no inbound, outbound, limiter or rule set under a tag
  that is not the Controller's, whatever fails.
- `BooksMatchCore`: between polls, while no call of an *update* has failed, the
  inbound is what `nodeInfo` and `userList` say, and the limiter knows each
  user as listed. Failing fetches are allowed. The code keeps no promise after
  a failed update (it replaces `userList` whatever happened), hence the
  history variable `intact`.
- `NotModifiedMeansCurrent` and `Converges`: see the runs. `sync_live` has them
  against edits between the calls of a poll; that a failing call breaks the first is
  what `sync_not_modified` shows.

### DeviceLimit

State: `UserOnlineIP`, a map of *map objects*: a goroutine that has loaded a
user's map goes on using it after the sweep, or a refused connection, took it
out. A map is named by the connection that made it. `OldUserOnline` by
address. Each action is one `sync.Map` operation of one goroutine; the sweep
follows the guarantees of `Range`, no more: keys that stay are passed once,
keys stored meanwhile may be passed. `Arrive` reads the limit and the alive list,
which is replaced at any time; so `full` is chosen there. What the sweep's
caller does with the result (the traffic threshold, the report) is left out.

History variables mark connections that met: `exposed` and `raced`.
The properties say what the code guarantees anyway:

- `OnlineOnlyIfAllowed`: unconditional; a refused connection leaves no address in
  its user's entry.
- `AdmittedIsCounted`: an admitted address is online until collected, except
  when it met an over-limit connection of its user, or the sweep.
- `OverLimitNeedsKnownAddress`: the gate can be passed over the limit only from
  an address that was admitted, or where somebody raced. TLC found each of the
  races that this names: two connections from one new address; a sweep
  that collects an address before its connection is refused (it even
  legitimises the very connection); and a sweep that still reads a map that
  was already withdrawn.
- `PreviouslySeenPasses` (violated): a test says previously seen addresses pass.
  Only the first of them in a period does.

### NodeReplica

What synchronisation promises, in seven actions: the node serves
nothing, or one description of the panel it has read, to users of the list it
read last or of the one it goes by; it changes the description only by
stopping first. `NodeSync` implements it (`ImplementsReplica`) under
`readNode <- etagNode`, `served <- inbounds[Tag]`, for every set of faults.
`Grant` allows both lists because the code needs it: a poll that breaks off
between reading and applying leaves a list read that a later poll applies, and
a re-tag adds the users the Controller goes by. Liveness is not part of the
refinement; `Converges` states it for the run without faults.

### Connection: SpeedLimit, GlobalLimit, Audit

`Connection` is one connection's way through the dispatcher (`arrived`, `gate`,
`bucket`, `linked`, `judge`, ...), and the monitors beside it.

`SpeedLimit` has the records (`UserInfo`), the buckets and their rates, per
`InboundInfo`; `UpdateInboundLimiter` in its two writes per user (`UpdateRecord`,
`UpdateBucket`) by two tasks that no lock keeps apart; the sweep that deletes
buckets in two (`SweepLook`, `SweepDrop`); the auto speed limit in the order of
`userInfoMonitor`, with counters that only an accepted report resets. A re-tag
replaces the `InboundInfo`; connections keep the one they looked up.
Traffic is 0, 1 or 2: nothing, within, or beyond a period's worth at the limit.

- `OnlineShareBucket`: a user's connections share one bucket at the rate of the
  record. The excuses are the code's races: `detached` (a sweep looked before
  the user came online, or the limit was lifted) and `raced` (a bucket made
  from a record read before an update; two updates that cross). A
  connection that the sweep no longer counts, as one that outlives a period
  without a new TCP connection, has no say: the user's bucket is deleted at
  every sweep, and the next connection gets a second one. UDP-only users are
  never counted.
- `RecordExplained`: between updates the record is the panel's limit, or the
  lower one while the user is limited. A poll that changes the user, or a
  re-tag, while there is a limit lifts it (any change of the record does, a device
  quota that SSPanel recomputes too); these are in `disturbed`.
- `InnocentNotLimited`: who is limited moved more than the limit in one
  period, or had bytes in the counters that an earlier pull had read already.

`GlobalLimit` has one user's entry in go-cache and redis; entries of two users
never meet. `pushIP` writes the one and then the other after the
lock is released; the chain's `Get` writes redis' value back on its own
(`Fill`). `GlobalBound`: the user gets in from at most one address more than
the limit, unless something happened that the code does not provide for
(`letIn` is `None` then). With redis down and nothing in go-cache, everybody
passes and nothing is written.

`Audit` has the rules of the tag, what a connection asks for and
what the sniffer finds, and `Detect` by its map operations, on Go maps that
`GetDetectResult` takes out. `MapFault` is the runtime's "concurrent map
writes", which ends the process.

- `HitAccounted`: a hit recorded stays in the tag's table, or with the push,
  until reported; a late `Store` of an older map over a newer, and the
  removal of a node's table, are the losses the code has (`owed` leaves them out).
- `EscapeHasCause`: a forbidden domain is reached only if it was not named and
  not sniffed; by connections under way in a re-tag, or that come while there is
  no inbound, from sessions that outlived it; or by connections that came while
  the tag had no rules. Why it had none is kept in `ruled`: `Start` serves the
  users first and had not asked yet (`unasked`); `GetNodeRule` failed or had an
  empty list (`missed`), which is printed or skipped, and the users are added all
  the same; or the client holds the rules not modified (`same`, SSPanel), though
  `RemoveInbound` has dropped them. What the property claims beside the
  causes: in a re-tag rules are asked for before the users come back, and rules once
  set are taken away by no failing, empty or unmodified answer.

Abstractions: a sniffed domain is the site's real one (a client may lie); `DestOverride` is
what the builders always set and `RouteOnly` never is; FakeDNS is never
configured. Parts that a connection only passes one after the other are
configured one at a time (`Settings`), for the states would only multiply. A
node with the global limit is not replaced (`SettingsAssumption`): the go-cache is
its limiter's, and that of a new limiter would be empty.
`Connection` begins where `Start` has served the users: there is no
limiter yet (`SpeedInit`), no rules, and no task.

### Service: Certificates

`Service` is the process: boot, `Panel.Start` under its mutex, the watcher's
callback with its three seconds, `Close`, signals and crashes at any point; each
Controller leaves periodic tasks, started in goroutines of their own.
`Certificates` is `common/mylego`: jobs that obtain or renew, step by step on four files
written in place (`Torn` while a write is under way).

- `PairMatches`, `AccountMatches`: the files on disk fit together when
  nobody writes; the excuses are a save that was cut by the end of the process
  (`Close` does not wait) or met another (`spoiled`), and an account key
  that two jobs made at the same time (`rekeyed`).
- `StaleOnlyIfDiscarded`: the configuration running is the file's, or an
  event was discarded within three seconds.
- `ClosedStaysClosed`: a task of a closed Controller fires again only if its
  goroutine called `Start` after `Close` (`late`), which the code allows.

A directory lists one domain; the ACME protocol is a step that succeeds or
fails. That a certificate is renewed in time is not claimed.

### Panels and PanelClient

Each package under `api` is a module of functions: settings, client state and
answer to next client state and result. `Panels` puts them behind one interface.
`PanelClient` runs one of them with its two monitors against a panel that is
edited, refuses, loses or garbles answers, or lacks the V2 API. The packages
differ in what they take for an answer, so answers have eight statuses
(`Statuses`). Four are 2xx: `ok`; `empty`, a body that parses and holds
nothing, as `"data": null` where an envelope is checked and an error object where
none is; `nulls`, a list of users with a null entry; and `garbled`, which does not
parse, or whose envelope says no. The others are 304, 400, 404, and no
answer or an error of the server. `Content` and `Listed` are what
`json.Unmarshal` leaves of an answer that holds nothing: zeros, no users. A node of
sspanel's old format has a string that may lack what the parsers index (`raw`).

- `StaleOnlyIfDropped`: a client that will be told 304 has handed over what the
  panel has (`current`, gained only by an `ok` answer), or has read it and made
  an error of it (`dropped`: the ETag is stored first). The five packages of
  `TakeEmpty` may also have taken an answer that holds nothing for a node or an
  empty list (`mistaken`): the ETag, of that answer or of one before, keeps it so. The
  other three never do.
- `DeathHasCause`: panics come from rules that do not compile; from sspanel's
  old-format parsers (`sspanel.go:423-456`, `556-557`, `647-656`) on a string without
  its parts; from pmpanel's nil list (`pmpanel.go:228-232`); from null users of
  ProxyPanel, NewV2board, GoV2Panel and Xboard; and from the configuration of
  V2RaySocks, absent after an answer that was refused, lost or had none.
- `OneRacerLost`: Xboard's switch to V1 costs at most one failed call. A report
  whose 404 is swallowed returns nil and is not counted.
- `NilMeansBooked`: counters are reset only for traffic the panel has booked;
  four clients' gaps are named (`Unread`; V2RaySocks takes a 400, or an error object
  with the status 200, for success).
- `NoOvergrant`, `LeavesForCause`: the device quota of SSPanel and BunPanel; and
  which packages' user lists an answer without a list can empty (`Emptied`).

### Builders and Inbound

`Builders` translates NodeInfo, users and local settings into handlers;
`Inbound` starts a node and edits it once, for every package, node type and
combination of settings. The properties say what an operator would be
surprised by, and the runs show every cause named is real:

- `ClearOnlyForCause`: a node the panel wants encrypted is served in the clear
  only with `CertMode: none`, or when REALITY was wanted and the client does not
  pass it on. (Xboard serves a Trojan node without TLS if the panel says so.)
- `AccountsMatchInbound`, `AccountsJoin`: accounts fit their inbound; keys
  of Shadowsocks 2022 do not for GoV2Panel and BunPanel (UUIDs), nor for an
  upper-case method where keys are cut from UUIDs.
- `CrashHasCause`: the process panics over a node only if `Start` could not add
  the tag (`logger.Panic`, `controller.go:116`), if sspanel's old-format string
  lacks its parts, or over a missing `CertConfig` or `REALITYConfigs`.
- `RenewedUnlessLate`: the certificate monitor exists unless TLS came after
  `Start`, or the local REALITY switch is on without effect.

Met while modelling, and visible in the definitions: no client yields a
Shadowsocks-Plugin node that xray-core builds (`PluginNeverRuns`, proved); only the
upper inbound of such a pair can be given port 0, where the port wraps; a REALITY section of the panel
replaces the local private key even if empty; after a re-tag that was broken off,
`removeOldTag` fails until a restart.

## 4. The runs

| Run | Instance | Shows | Distinct states |
|---|---|---|---|
| `traffic_safety` | 2 users, 1 tag, 2 bytes, 1 unheard | the four invariants | 805 000 |
| `traffic_live` | 1 user, 2 tags, 1 byte, fairness | `TrafficReported`, with re-tags | 13 000 |
| `traffic_superset` | 2 users, 1 tag | `FreshIsSuperset` fails | - |
| `sync_safety` | 2 ports, 2 settings, 2 ids, 3 accounts (1 malformed), all faults, 3 edits | the three invariants and the refinement | 1 888 000 |
| `sync_live` | 2 accounts, no faults, 2 edits, fairness | `NotModifiedMeansCurrent`, `Converges` | 183 000 |
| `sync_not_modified` | failing user list requests | `NotModifiedMeansCurrent` fails in five steps | - |
| `device_safety` | 3 connections, 2 users, 2 addresses, any number of sweeps | three invariants and the gate | 1 227 000 |
| `device_grace` | 4 connections, 1 user, 2 addresses | `PreviouslySeenPasses` fails | - |
| `connection` | 2 connections of a user; seven settings (limits, auto limit, global limit, rules; re-tags; a rules ETag) | records, buckets, cache, hits, rules | 1 465 000 |
| `service` | 2 Controllers, 1 edit, 1 crash or signal, 2 busy tasks, 3 account keys, 5 certificates | files, reload, close | 1 440 000 |
| `panel` | 8 clients, sspanel in both formats, 1 account, 2 devices, 4 nodes, 1 edit, 1 fault | ETags, fallback, quotas, panics, bookings | 1 126 000 |
| `inbound` | 8 clients, 14 node types and formats, 22 local settings, 11 node answers, 1 edit | security, accounts, crashes, renewal | 222 000 |

**Why the bounds are enough.** Two bytes and two users let a counter grow
before, between and after two batches that overlap; three billings of a byte
need one byte. Two ports, two settings and three edits give a change, a change of mind
during the poll, and a change after a failed update (which needs two); two ids let a loop stop after
one user with one left, and a third account
lets a user change whom such a loop left behind (so that an email is there already). In `DeviceLimit` a race takes two goroutines on one
map and a third that observes the outcome; two addresses and two users make
an address shared or foreign.
In `Connection` two connections of one user make a race on a bucket, a table or
the cache; with re-tags or the auto limit one suffices, as the other party is a monitor.
Two speeds are a limit and none. Three addresses exceed a limit of one by two. The
constraint `Telling` stops where the history, which is never taken back, excuses all that the
properties of a setting say; with the auto limit, reports and the sweeps after them are
followed only while it excuses neither limits nor counters. `MaxFills` and `MaxFailures` are one each: one is an
excuse already.
In `Service` one edit and two generations let a reload meet the tasks of the
Controller it replaces; certificates and keys are told apart as often as jobs
can make them. In `panel` one edit and one fault are a lost change, and each way of
dying takes one answer; the second of the four nodes has a rule that does not
compile, the third no port, the fourth a string that is cut. The first node is a sound one. A push has always all to report: with less it only
skips requests. Shadowsocks-Plugin's string, the third that is indexed, is in `inbound`. In `inbound` one edit gives any node
after any other.
Symmetry is used in safety runs only, on sets
whose elements no definition names; action properties are kept out of it except
`OverLimitNeedsKnownAddress` and `PreviouslySeenPasses`, which are symmetric
themselves and concern single steps.

Deadlock is checked where the system runs for ever: traffic, sync, device and
service. It is off in `connection` (a map fault ends the process), `panel` (a
panic does, and port 0 ends the poll) and `inbound` (nothing is left to do).

**Fairness.** `TrafficReport`: weak fairness of the pull and the push task (a
`task.Periodic` re-arms itself while `Execute` returns nil, and both monitors
always do), strong fairness of the panel booking a report and of its answer
arriving: it is a statement about the panel and the network, "not every
report fails", without which nothing can be promised. `NodeSync`: weak fairness of
the monitor; every call returns, since the HTTP client has a timeout.
Connections, the operator and the other tasks owe nothing, and the other
modules claim no liveness.

## 5. What is proved

For every value of the constants that satisfies the modules' assumptions (that
numbers are numbers, placeholders are no elements, and sets that are counted
are finite):

- `TrafficReportProofs`: `TypeCorrect`; `NothingLost`; `AmountsReferenced`
  (amounts of a batch are covered by its references, a lemma worth a name);
  `NoOverbillWithoutOverlap`; `AtMostThrice`. `NothingLost` rests on `LossInv`: until a batch is
  booked, its amount covers what a reset of its counter would erase, and from then
  on the panel's total does, up to what is in `exposed`. `AtMostThrice` needs one that bounds the
  three copies of a byte (report in flight, stashed batch, reading under way)
  against what was carried.
- `NodeSyncProofs`: `NoLeftovers` is inductive almost as it stands (the tag
  changes only in the step that empties the registries). `SyncTypeCorrect`
  contains that no inbound ever has two users of one email, through the failing
  loops. `BooksMatch` needs `BooksInv`: what the inbound, the outbound and the
  limiter are *at each step* of an update, and what the poll's locals are worth
  there; the core is the lemma `CompareUserList`: taking the deleted users out
  and putting the added ones in gives the new list.
  `SyncRefinesReplica`, `Spec => ImplementsReplica`: the
  step simulation needs what the poll's locals are worth at each step: the
  configuration and the list it holds are those read last or those in use, and
  after `removeOldTag` nothing is served.
  `NotModifiedIsCurrent` has an assumption of its own: no call fails but the one
  for the alive list, and no account is malformed; then `CurrentInv` says at each step
  whether the list and the configuration of the ETags are the Controller's
  already or the poll's still.
- `DeviceLimitProofs`: `DeviceTypeCorrect`; `RefusedLeavesNothing` by three
  invariants: who may hold a map (`MapsInv`), that a published map's maker has not
  been refused (`PublishedInv`), and that each address in a map is its
  maker's or a joiner's who was not refused (`StoredInv`). `AdmittedStaysCounted`: a connection
  that is not exposed meets no deletion while it is decided (`AloneInv`), so it holds its user's map
  (`HeldInv`); later ones over the limit find that map and delete nothing of it, and a sweep has the
  address before it when it takes the map out (`RivalInv`). `OverLimitIsKnown`: whatever the gate takes for an old address is
  known (`KnownInv`), since those that meet have raced (`MetInv`).
- `ConnectionProofs`: `GlobalBoundHolds` (`GlobalInv`: what was let in is in
  what the next connection reads, or in all that is about to be written there;
  a cardinality argument bounds it); `InnocentNotLimitedHolds` (`TrafficInv`:
  counters hold this period's bytes, or were read); `HitAccountedHolds` and
  `EscapeHasCauseHolds` (`AuditInv`: whose each Go map is, and what the rules were when
  a connection came, as against what they are now); `RecordExplainedHolds` (`RecordInvariant`: an
  update on its way sets what is due, in the limiter of now, and without one it
  has been set).
  `OnlineShareBucketHolds`, by `BucketInv`. An online connection's bucket
  is the one in the `BucketHub` until it is detached, since a sweep about to delete one has found
  nobody online (`Counting`, `Sharing`); no two users have one bucket, and its rate is the record's, or
  an update is half way to setting it (`Rated`), which needs that updates, connections
  and buckets belong to an InboundInfo that was made before (`Using`): the next is not in use.
  `TypeCorrect` puts the parts' invariants together and adds what they leave
  open (`SpeedRest`, `AuditRest`).
- `ServiceProofs`: `StaleOnlyIfDiscardedHolds` and `ClosedStaysClosedHolds`
  (`PanelInv`: what the watcher read is what runs or will; a task that is on is
  the Panel's or late); `PairMatchesHolds` and `AccountMatchesHolds` (`CertInv`:
  what the files hold at each step of a job that is alone); `TypeCorrect`, which
  includes that the Panel's mutex is held by exactly who starts its services.
- `PanelsProofs` and `PanelClientProofs`. `PanelsProofs` has a lemma for each package's
  parser: what it hands over is a NodeInfo, of a type the package is
  for, that keeps the panel's wish for TLS or REALITY where the package does
  (`NodePromise`), and a list of UserInfos (`UsersPromise`). `PanelClientProofs` adds what a
  reply does to the client, package by package, then one lemma per action on `IInv`: types,
  who races for the missing V2 API (`RaceInv`), that the devices remembered for the
  quota are those reported (`MemoryInv`), and where a rule that does not compile or a
  missing configuration can come from (`RuleInv`). `NodePanics` and the lemmas on
  `Content` and `Listed` say which parsers panic, and on what. From it
  `TypeCorrect`, `OnlyDroppedIsStale`, `PanicsHaveCauses`, `OneCallIsLost`, and the action properties
  `NilOnlyIfBooked`, `QuotaNeverOvergrants` and `UsersLeaveForCause`, for all
  eight packages and any nodes, limits, edits and faults.
- `InboundProofs`: a handler is `BuiltOf` the NodeInfo it was made from, accounts are
  those of the inbound's protocol (`Accounts`), and each step of an update keeps
  that for what it leaves (`TagAdded`, `UsersAdded`, `OldTagRemoved`), also when it is
  broken off. `IInv` says so of the registries in every state and names the cause of a
  break and of a crash; it implies the five properties and the types.
  `PluginNeverRuns`: for a Shadowsocks-Plugin node no package hands over both a cipher its
  lower inbound needs and a transport its upper one knows, so `Start` fails.

Only model-checked: the liveness properties `TrafficReported` and `Converges`,
which are out of the prover's reach (as is ENABLED). The three runs that
expect a violation are counterexamples and stand for themselves. Every other property of a
run is a theorem. TLC and the proofs use the same modules.

What the assumptions on constants ask for (`ApiConstants`, `BuilderConstants`, `SpeedAssumption`,
...) is only that placeholders (`None`, `Error`, `Panic`) are none of the values
they stand beside, that limits and bounds are numbers, and that answers and settings have
the fields the code reads. `PanelConstants` and `InboundConstants` add that a port can be
missing in sspanel's answers only, where it is a part of a string; `PanelConstants`,
that `MaxDevices`, the most devices of an account here or elsewhere, also bounds the
limits that settings and answers give.

## 6. Findings

1. `service/controller/controller.go:625-634`: a pending batch is replaced
   by one that lacks a user unlisted in between; the comment claims a superset.
2. `api/xboard/parser.go:51` with `controller.go:267`: an ETag is stored before
   the poll succeeds. When the user list then fails, the configuration change
   is lost until the panel changes again.
3. `common/limiter/limiter.go:219-223`: an address of the previous period is
   refused once its user has an entry for the new one; the limiter's test says
   such addresses pass.

## 7. Not modelled

- Protocol recognition in the sniffers, the ACME protocol and its DNS providers,
  redis and go-cache inside, the rate library's tokens (`WaitN` fails at once for
  more than the burst, and its error is ignored, `rate.go:31`): libraries, or
  quantities a state machine does not tell apart.
- `loadCore`'s translation of the process configuration, host names, paths and
  headers of transports: copied unchanged.
- The threshold filter of `pushMonitor` on online addresses: it selects what is
  reported and changes nothing.
- Server status and the command line read the operating system or print.
- Windows the code leaves open on purpose or by accident, for which it
  promises nothing that could be stated: no limiter between `addNewUser` and
  `AddInboundLimiter`, no alive list after a re-tag. They are behaviours of the
  models, and the hazards list in `PROJECT.json` names them.
