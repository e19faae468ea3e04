# Verification of the sync server

The sync server keeps *pools* of devices connected. Each device of a pool opens
a websocket; the server arranges the connected nodes in a tree of small
clusters, tells every client which other nodes to link with (peer to peer), and
relays the messages that set a link up. Users join and leave pools over HTTP.

This directory holds TLA+ models of the server's own logic, the TLC runs that
check them on small instances, and proofs of what holds for every size.

    tlc -workers 2 -config tree.cfg MCClusterTree.tla   # one run
    tlapm ClusterTreeProofs.tla                              # the proofs

`PROJECT.json` lists the components, the runs, the source lines behind every
definition (`map`), the faults each property is known to catch (`mutants`), the
hazards of the code and the findings.

## 1. Inventory

| Component | State | Operations | Hard because |
|---|---|---|---|
| Cluster tree, `pool/pool.go` | panels with three slots, clusters of panels, levels; `NodeMap`; a node's panel, partner number, age | `AddNode`, `RemoveNode`, `addNewClusterTreeLevel` | long histories; chains of promotions; index arithmetic |
| Positions and links, `pool.go` `updateNodePosition`, `node_manager.go` `updateNodePosition` | each manager's `curNodePosition` and `nodeStates` | one message for the node itself, one per neighbour | every manager decides alone; two copies of one truth |
| Connection lifecycle, `websocket.go`, `node_manager.go`, `pool/manager.go` | three goroutines per connection, a read-write lock per pool, unbuffered channels | join, read, forward, leave, close, tick, relay | rendezvous under a lock; closing hand-shake |
| Registry and membership, `pool/manager.go`, `store/pool.go`, `store/db.go` | `ActivePools`, one `store.Pool` per loaded pool, the database record | `JoinPool`, `LeavePool`, `ConnectToPool`, `DisconnectFromPool`, `UserExistsInPool` | lookup outside the lock; failing updates |
| Node manager protocol, `node_manager.go` | `nodeStates`, `ackPending`, `curReports`, `curReportsCount`, `clientErr` | offer, answer, verify, report, timeout | messages relayed without order; reports that cross; counters shared by all nodes |
| Sessions, tokens, devices, `auth/`, `store/session.go`, `ttl_cache.go`, `user_device.go` | two maps with expiry in memory, one database | begin and finish of a registration or a login, verify and refresh, clean | requests of one device overlap; answers are lost; cleaners; restarts |
| Invite links, `pool/invite_link.go` | links with a number of uses and an expiry | generate, use, clean | only in parts the program does not use |
| HTTP API, set-up, protobuf | none of their own | parsing, routing, marshalling | not concurrent |

**How they interact.** A websocket goroutine (the *reader*) authenticates, starts
the *node manager* and its *timer*, and calls `ConnectToPool`. Under the pool's
write lock that updates the membership, puts the node into the tree and sends
positions and announcements to the other managers, each send a rendezvous. The
reader then forwards what the client sends to its own manager; the manager
answers over the websocket, and hands messages for other nodes to short-lived
goroutines that take the pool's read lock. When the read fails, the reader takes
the node out in the same way and stops the manager.

**What makes each part correct.** The tree: records, slots and `NodeMap` agree,
no node is below a free slot, both operations find what they look for. Links: the
copies are the tree, both ends agree, and the links hold the pool together even
when one node is lost. Lifecycle: nobody who holds the lock waits for somebody
who is gone, every client knows who is in the pool, and a client that falls
silent is closed. Registry: an answered change is not lost, and connected devices meet in
one pool. Protocol: a link that both managers keep is never left alone: it is
connected, or something is under way for it; reports go when what they are about
is over; a client is closed for its reports only after as many failures in a row.
Accounts: a challenge is answered once and a token accepted once; a token is
always of a device on disk; a registered device gets in again whatever is left
over from earlier attempts.

## 2. Modules

| Module | Models | Composes |
|---|---|---|
| `ClusterTree` | the tree and its two operations | |
| `ClusterTreeProofs` | theorems about it: the invariants, and that both operations find what they look for | `ClusterTree`, `TLAPS` |
| `NodeLifecycleProofs`, `PoolRegistryProofs`, `NodeProtocolProofs`, `DeviceAuthProofs` | theorems about the module of the name | that module, `TLAPS` |
| `PoolTopologyProofs` | that the managers' copies are the tree and their links agree | `PoolTopology`, `ClusterTreeProofs` (instance) |
| `NodeProtocolLinkProofs` | that no link is forgotten | `NodeProtocolProofs` |
| `NodeProtocolFirstLinkProofs` | that a client is closed for its reports only after as many failures | `NodeProtocolProofs` |
| `NodePosition` | what a manager works out from its position (operators only) | |
| `ClusterLinks` | all managers of one cluster side by side, for every occupancy | `NodePosition` |
| `PoolTopology` | tree, position messages, managers' copies and links | `ClusterTree` (instance), `NodePosition` |
| `NodeLifecycle` | the goroutines, the lock and the channels of the connections to one pool | implements `PoolMembership` |
| `PoolRegistry` | `ActivePools`, database record and requests of one pool | |
| `PoolMembership` | what the clients of a pool are promised about its members (abstract) | |
| `NodeProtocol` | node managers, their clients and the relays between them | |
| `DeviceAuth` | clients, sessions, tokens, the device database, cleaners, restarts | |
| `MCClusterTree`, `MCPoolTopology`, `MCNodeLifecycle`, `MCPoolRegistry` | bounds, scenarios and constants for TLC | the module of the name |

**ClusterTree.** A panel is named by its position (`<<0>>`, `<<0, 1>>`, ...), a
cluster by its connector panel. `nodes[p][j]` is slot `j` of panel `p`; `node[c]`
holds the fields of PoolNode `c` (`ContainerNodePanel`, `PartnerInt`, `NodeID`);
PoolNodes are numbered by creation, which is all that `Created` is used for.
`AddNode` takes the slot the code's loops find (first level with room, emptiest
cluster and panel, ties as the code's `<=` resolves them). `RemoveNode` states
the promotion loop as a *route* from the vacated panel down to the panel where
the loop ends, with the slot emptied in each, instead of iterating it; this
keeps the module free of recursion, and `RemovalDefined` says that the loop the
route stands for always comes to its end. `PanelSize` is 3 in the code.

**NodePosition, ClusterLinks.** The cases of the manager's `updateNodePosition` as
sets of nodes: `Opposite`, `OthersInPanel`, `ChildLinks`, `AloneLinks`,
`PairLinks`; `Initiates` is the value under a key of `connectNodes`. ClusterLinks
puts the managers of one cluster next to each other, with slots taken and freed
in any order, so that every occupancy occurs and not only those that AddNode and
RemoveNode reach.

**PoolTopology.** The calls of `updateNodePosition` that one change of the tree
ends in are made one after the other over the final tree, each message handled
before the next is sent; the whole change is one step, since it happens under
the write lock and every send is a rendezvous. The managers are those of connected
clients: with `clientErr` set a manager drops its messages (`node_manager.go:126`), and
its client is asked for nothing more. `Path` models the `[]int` that
`append` makes, with the array shared when the connector's has room.

**NodeLifecycle.** For each connection the place of its reader, manager and timer,
and the receivers a send loop still has before it. A send is one step with its
receive and needs the manager in `select`. The lock is `sync.RWMutex`: a waiting
writer keeps new readers out. At most nine nodes are in the pool at a time
(`CenterSlots`): they are all in the center cluster, where a node's position goes to
all the others; which of them hear of it in a deeper tree is `PoolTopology`'s subject.
`OneAtATime` says that a device has one connection in the pool at a time, which the
code leaves to the clients. The module follows one Pool from its first connection on.
`pool` says whether it is still in `ActivePools`, from which it is removed whenever a join
is refused or a node has left and `NodeMap` is empty. After that a connection that starts
is given another Pool and is "elsewhere", one that leaves returns early (`LeaveNothing`),
and a relay finds nothing (`RelayFindsNoPool`). A connection that found the Pool before
it was removed, and waits for its lock, joins it all the same. The module has this
step; `NoneStranded` says that it does not come to that, as the invariants need.
Otherwise nobody takes the node out of the tree again, and a further connection that
waited as well can hang on its manager; whether it comes to that is what `PoolRegistry`
is about. `roster` counts what a manager was handed, also when its client has failed and
it drops the message. What handling a message leads to is left open:
nothing, a failed client, a relay.

**PoolRegistry.** A request is at `get`, `load`, `register` or `lock`; between
these others run. A Pool that was unregistered is still a Pool to those who found
it (`pools` keeps all of them). Users are told by their devices. `granted` is what
the answers promised; it is not a state of the program. `Calm` says when requests
overlap: while a device stays connected, or while all of them are first connections
that the pool admits; otherwise they come one at a time. `CalmSpec` is the
specification under which nothing is lost.

**PoolMembership** is the abstract specification behind `ConnectToPool` and
`DisconnectFromPool`: nodes enter and leave one at a time, of each change every
client that stays is told before the next change, the newcomer last and of
everybody. `NodeLifecycle!Membership` maps it to the goroutines: `members` are the
keys of `NodeMap`, `list` what each client was told, and `news` is the node of the
writer from the moment the tree is changed and the neighbours have their positions
until the lock is given back. A goroutine's step is a step of `PoolMembership` or
one that no client notices.

**NodeProtocol.** `states[n]` are the active entries of a manager's `nodeStates`,
`reports` and `count` its `curReports` and `curReportsCount`, `closed` its
`clientErr`. `asked[n][<<m, op>>]` counts the keys in `ackPending` that wait for an
answer `op` about `m`: a key is the right to one answer, and an answer without one
closes the client. `relays` counts the goroutines that carry a message, so that
they overtake each other; a relay finds whatever manager is there when it arrives.
`Link` and `Unlink` change both ends at once, since the pool tells them under the
write lock that keeps relays out and `PoolTopology` shows that they agree.
`Outcome` is `reportNode`, case by case. A client connects only to one whose
manager has the link too; `joined` are the connections there are.

**DeviceAuth.** A request runs through its stages (received, session taken, device
put, answered), and others run in between. `sessions` and `tokens` are the maps in
memory; `Nil` is the pointer that a failed `Upsert` leaves. `seen` is what a cleaner
copied with `IterBuffered` and has not looked at yet; whether it is past its
expiry is left open, time is not modelled. Challenges and tokens are random in the
code and here the least number nobody holds. `Panic` is the dereference of a nil;
it ends the process like a `Crash`, which leaves the devices on disk and what the
clients hold. `GenerateAndStoreAuthToken` overwrites, `StoreSessionData` does not.
A test connection (`test=true`) skips all this and is left out.

### External code

The clients in `NodeProtocol` and `DeviceAuth` are modelled from the answers the
handlers accept; WebAuthn by whether the challenge in the answer is the session's.

`sync.RWMutex` (lock, unlock) and the concurrent map's `Get`, `Upsert`, `Remove`,
each atomic; pogreb's `Put`, `Get`, `Delete`, each atomic, a failed one without
effect.

## 3. Runs

| Run | Module, bounds | Shows | States |
|---|---|---|---|
| `tree` | two-slot panels; 9 connections, any removals; 20 connections (three levels), 2 removals | tree invariants, both operations defined, promotions over two levels | 44 000 |
| `links` | all 2^9 + 2^6 occupancies of a cluster | managers agree; links survive a loss | 576 |
| `topo` | up to 11 connections with 2 removals at any point; 28 connections (three levels), then 2 removals | tree and managers together | 5 700 |
| `life_three` | three devices, no relays, while nobody joins a Pool just unregistered | safety of the lock and the sends; `PoolMembership` is implemented | 545 000 |
| `life_fair` | two devices, one relay, fairness | connections are answered, silent ones closed, relays end, news spreads | 30 000 |
| `reg_calm` | three devices of two users, two requests, two loads of the pool | no update lost, one Pool, while requests do not race for an idle pool | 569 000 |
| `proto` | two managers, 2 links, 3 failures or losses, `MAX_REPORTS` 3 | no link forgotten, reports end, links get connected | 132 000 |
| `auth` | one device, two requests at a time, 2 answers lost, 1 restart, 1 entry looked at by a cleaner | challenges and tokens good once; a device gets in again | 318 000 |
| `topo_alias` | a pool that grows to 76 nodes | **violated**: finding 1 | |
| `life_shared` | one device twice, another one before and after it, one course of events | **violated**: finding 2 | |
| `reg_race` | two requests, nobody stays connected | **violated**: finding 3 | |
| `auth_nil` | one device, two requests, no faults | **violated**: finding 4 | |

**Why the bounds are enough.** What AddNode and RemoveNode do depends on the level
that is being filled, on the two child panels of a panel, and on ties: two levels
and two slots show all the branches of the loops, three levels the iteration of
the promotion loop (the two courses of `tree`), and `topo` has the code's
three slots. The proofs then remove the bounds for the invariants. A cluster
is all that a manager sees, and `links` enumerates it completely. The lifecycle
has three roles: one who holds the lock, one who waits for it, one who is sent
to; `life_three` has all three with every role taken by every connection, and
symmetry is sound because the connections carry nothing but their identity. A
lost update needs two requests, and a user with two devices and one with one tell
the two levels of the user list apart. The hand-shake is between two managers: a
third one shares only `curReportsCount` with them (which makes its clearing more
generous) and the limit on the nodes reported, which two nodes do not reach;
`MaxReports` is 3 instead of 5 so that the limit is reached by 3 failures, and a
second link meets what is left of the first. For `auth`, two requests at a time are
enough for a retry to overtake what it retries, and two lost answers for a session
and a token that nobody waits for. The runs stop where their bound on
connections or pools is reached, hence `CHECK_DEADLOCK FALSE`; the lifecycle runs
that pass check for deadlock, with termination allowed only when all goroutines
have ended (`Over`).

**Scenarios.** The tree and topology runs take each connection from a device that
has no other (`FreshSpec`); the proofs do not assume that. The second course of
`topo`, and `topo_alias`, grow the pool first. `life_fair` relays to connection 2
only, whose client sends nothing, and lets connection 1 be closed by its client
only (`OneWay`): the two roles of a relay, its manager at the one end and its
target at the other, each with a way to close; `life_three` has no such restriction.
`life_three` does not look past a state in which somebody is about to join a Pool that has
been unregistered (`CONSTRAINT NoneStranded`); `life_fair` does, with its two devices.
It has a relay, which `life_three` has not: the clauses of `TypeOK` and `SendsAreTaken`
about relays are left to the theorems.
`life_shared` follows one course of events (`InTurn`), with everything the
goroutines do in between left free: connection 3 comes first and keeps the Pool
registered, 1 and 2 come from one device, then 1 goes. Without 3, the Pool would be
empty and unregistered when 1 has gone, and nobody would be sent to any more. `reg_calm` lets requests overlap
calmly (`CalmSpec`: which device stays connected is left open, and may change), with a
pool that is dropped and loaded a second time; `reg_race` shows that the restriction is needed.

In `proto`, connections are lost in the calm way only (`Calm`): one client finds out
and reports, and nothing else about the link is under way. This is needed. With
`Calm = FALSE` `NoLinkForgotten` fails: when both clients report one loss, each
manager drops the other's notification, because it has a report of that node
already (`node_manager.go:426`), and nobody connects them again; likewise when a
connection breaks before its verification was handled, which then clears the
report. `ClosedAfterFailures` is about a first link: relays left over from an earlier
one may be counted against the next.

**Fairness** (`NodeLifecycle!Fairness`). Weak fairness for a step that stays possible:
goroutines are scheduled. Strong fairness where a step can be possible now and
again: sends to a manager compete for its `select`, which chooses at random among
the ready cases, and `sync.RWMutex` admits waiting writers before new readers.
A read returns, because it has a deadline (`websocket.go:141`): `ClientStep` is fair, with
no say in whether it is a message or an error. Nothing more is assumed of the client.
In particular the reader does not look at `clientErr`, and a closed websocket still
delivers what the client sends until the handler returns, so a client that was given
up, ignores CLOSE and keeps sending is never closed, whatever the comment at
`websocket.go:147-150` hopes for; this is listed as a hazard. `EventuallyClosed` says
what the code does guarantee: a client that does not send for ever (`[]<>` of `Read`)
ends up closed, with all three goroutines gone, given up or not. A handled
message ends: this assumes that a write to the websocket returns. The code sets
no write deadline, so a client that stops reading without closing can hold its
manager, and who sends to it, until TCP gives up; this is listed as a hazard.

In `NodeProtocol` every relay runs, every manager handles what its client sent, and
a client answers its requests in the end or is closed by the timer, which is what
`ackPending` is for; no fairness for failures. In `DeviceAuth` a request is served
and answered unless the process ends, and a client that is out tries again; giving
up, crashes and cleaners are not fair. `EventuallyIn` is checked for one device:
restarts by the panics of finding 4 are bounded by its own requests, whereas
another device could cause them for ever.

## 4. Findings

1. `topo_alias`: from the fourth level on the two child panels of a panel share
   one `Path` array (`append` at `pool.go:213`), both take themselves for panel 1,
   and the 76th node is told to connect to itself.
2. `life_shared`: a device that connects again while its first connection is up
   leaves a node in the tree that `NodeMap` has forgotten, with a manager that ends.
   When another device has kept the Pool registered, the next change of the tree sends
   that node a position and waits forever, with the pool's lock held; in the run, it is
   that other device that leaves.
3. `reg_race`: between `fetchPool` and the lock the Pool may be unregistered, and
   between `GetStoredPool` and `Upsert` the record may be written: an answered
   join or leave is lost, or devices meet in different Pools.
4. `auth_nil`: two requests of one client that show the same token leave nil in
   `authTokenStore`; the next request that shows a token of this device, or the
   daily cleaner, panics and ends the process.

Besides, `RemoveDevice` does not undo the removal of the user when the database
cannot be written (`store/pool.go:153`): `reg_calm` with `MayFail = {"leave"}` finds
`MemoryMatchesStore` violated.

## 5. Proofs

The theorems hold for every value of the constants that the named assumption of the
module allows, not only for the instances of the runs. Each invariant was checked by
TLC, together with the strengthening it needs, before it was proved. A step of every
module is taken apart action by action, and a theorem about behaviours follows from the
steps by propositional temporal logic.

**ClusterTreeProofs**, for every `PanelSize` >= 1, every set of NodeIDs (with a
device connecting any number of times) and every bound on connections:

- `TypeCorrect`, `SlotsAlwaysMatch`, `MapAlwaysLeadsIntoTree`, `AlwaysFullAbove`:
  the invariants of the runs;
- `RemovalAlwaysHasCandidate`: whenever the promotion loop goes on, one of the two
  child panels holds a node, although the code asks about their whole subtrees;
- `RemovalLiftsOneLevel`: the action property `OneLevelUp`.

The only assumption is `TreeAssumption` (sizes are numbers, a panel has a slot).
The inductive invariant `TreeInv` is the conjunction of `TypeOK`, `SlotsMatchNodes`,
`MapLeadsIntoTree` and `FullAbove`. None of these is inductive alone: a promotion
empties the right slot only because records and slots agree; the loop's end
condition re-establishes `FullAbove` at the panel left with a vacancy only because
nothing was below a free slot before; and `NodeMap` stays good after a removal
because every promoted node keeps its record. `AddNode` keeps `FullAbove` because
`FreeLevel` has every panel above the chosen level full, and every panel below it
is empty by `FullAbove` itself. For a removal, the route is a path of panels that
are all full but for the one slot being refilled; the lemmas about routes say
which panel follows which, and that promoted nodes are distinct.

On the same terms, from `TreeInv`, what the code takes for granted when it uses
`target_node`, `target_panel` or `new_node` without asking for nil:

- `RemovalAlwaysDefined`: the loop of promotions ends for every node in `NodeMap`. Of the
  panels that the loop can reach (there is a path of promotions from the removed node's
  slot) take a lowest one: if it had nodes in its subtree, the loop would go on to one
  of its children, which is lower. Each promotion is of one node: two candidates
  are never equally late, because two slots hold different nodes.
- `PlacementAlwaysDefined`: there is a level with a free slot, since a level below the
  deepest node is empty, and hence a least one. All clusters of a level have
  the same size, so the emptiest of them has a free panel, and the emptiest panel in it a
  free slot; the first or last of the candidates, where the code scans for it, is unique.

Both would be inductions over the levels; a least number (`LeastNumber`) does the same
without a theorem that takes an operator.

**PoolTopologyProofs**, for any number of connections (`TopologyAssumption`: it is a
number) and any sequence of joins and leaves, in every state in which the tree has at most
three levels, 63 nodes. From the fourth level on panels share a `Path` array and both
properties fail (finding 1), so the hypothesis `depth <= 3` is the code's own limit. A
tree never loses a level, so it has had no more before either.

- `ViewsAlwaysMatch`: the invariant `ViewsMatchTree`;
- `LinksAlwaysAgree`: the invariant `LinksAgree`.

A manager sees a change of the tree one slot at a time, and the tree has changed
altogether before the first message is sent. The calls of a change name the node that is
*now* in the slot they are about, they are about every slot that has changed, and a node
that is new or has moved is named by one of them (`Told`; for a removal, the calls are the
panels on the way of the promotions, `RouteCalls`). A view is right but for the slots of
the calls still to come (`FollowsBut`). A call closes its slot (`HandleFollows`): it
reaches exactly the managers that have the slot in their view, under the position the slot
has there (`Heard`), and `updateNodePosition`, which first clears the node it places from
the slot it was in, can only clear it from one that is not its own any more, since a node
has one slot in the tree. That last fact, and what the two operations do, come from
`ClusterTreeProofs`, by an instance. `After` is a recursive function over the calls, of
which there are three at most in such a tree; it is unrolled for these.

With the views known to be the tree, agreement is about the tree alone. The links of a
view are stated slot by slot (`LinksAre`: when is the node in slot `t` of one panel linked
with the one in slot `y` of another). Within a cluster this relation is symmetric, in
every occupancy (`BothWays`). A connector works out its links with the cluster below by another
loop than the nodes there work out theirs with the connectors; the two agree because the
connector panel is full whenever somebody is below it (`WithConnector`, from `FullAbove`).

**NodeLifecycleProofs**, for any connections, NodeIDs and relays, and any assignment of
devices to connections (`LifecycleAssumption`: every connection has a NodeID, and
`None` is neither). `TypeCorrect` holds of `Spec`: the lock has one writer, who is the
one reader in the middle of a change, and no relay is in the pool meanwhile. The others
have two hypotheses. `[]OneAtATime` is needed, as `life_shared` shows (finding 2); it
holds in `life_three`, and for a device that comes again once its old connection is out of
the pool. `[]NoneStranded`, that the Pool stays registered for those who have found it,
is needed too: TLC finds `SendsAreTaken` violated in `life_three` without the constraint,
by three connections that wait for one Pool of which the first is refused.

- `SendsAlwaysTaken`, `PositionComesFirst`, `AlwaysGoneForGood`: the safety invariants;
- `MembershipImplemented`: the refinement `MembershipKept`. Initial states map to initial
  states, and each of the goroutines' actions is shown to be a step of `PoolMembership`
  or to leave what it sees unchanged.

The inductive invariant `LifeInv` has six parts: an entry of `NodeMap` is of a connection
that has its position and whose reader has not taken it out (`Registered`); a panel holds
a connection just while `NodeMap` does, or while it is being placed (`InPool`); what a
reader still has to send to are other nodes in `NodeMap`, and only in the middle of a
change (`Receivers`); a manager takes messages until its reader is done (`Serving`);
a relay that is at the lock has a message (`Carried`); and a Pool that is no longer
registered has nobody in its `NodeMap` (`Deserted`), so that an early return leaves no
node behind. `SendsAreTaken` is not inductive by
itself: that the receivers stay what they were when the loop began is because nobody
else can change `NodeMap` under the lock, and that a relay's target still listens
because `NodeMap` loses a node before its manager is told to close. The refinement needs
more (`TellInv`): whom the loop under way has told already, and
that everybody else knows what was true before it.

**PoolRegistryProofs**, for any devices, users and owners, any requests under way at
once, and any number of Pool objects (`RegistryAssumption`). `TypeCorrect` holds of
`Spec`: a request that is about to lock a Pool has one. The others are about `CalmSpec`,
because they fail without (`reg_race`, finding 3), and assume that the database does not
fail a leave, because then `RemoveDevice` breaks `MemoryMatchesStore` by itself (see
above); any other update may fail.

- `DatabaseKeepsAnswers`, `ActivePoolAgrees`, `ConnectedMeet`, `GoneFromEveryPool`: the
  four safety invariants of `reg_calm`.

The inductive invariant `RegInv` adds two parts to them. `Claims`: a connection that is
being made or ended is so by one request, so that no answer is given twice. `Current`: a
request that waits for a lock waits for the Pool that is registered, and a copy of the
record that will be registered is the record. `Current` is the heart: a Pool is
unregistered only when it is left without nodes, and then `Quiet` (at most one request,
or somebody is connected, or only first connections) leaves no other request that holds
it. With a failed `Upsert` in a leave the two would differ at once.

**NodeProtocolProofs**, for any nodes, `MaxReports` >= 1, `MaxUniqueReports`, and any
number of links and losses, calm or not (`ProtocolAssumption`):

- `TypeCorrect`: in particular a manager counts up to `MAX_REPORTS` and not past it;
- `ReportsOfLinksOnly`: it has reports only of nodes it has a link with.

The strengthening is `Counting`: an open manager has room for a report, because the report
that fills the count closes the client, and a closed client's manager counts nothing.

**NodeProtocolLinkProofs**, for any nodes, links and losses, and any limits, when
connections are lost in the calm way (`Calm`; without it both fail, see section 3):

- `LinksNeverForgotten`, `SlateAlwaysClean`: the invariants `NoLinkForgotten` and
  `CleanSlate`.

The invariants of the run say that something is under way, which no step preserves: the
message a step consumes may have been the last. `LinkInv` says of both ends of a link
which message it is. While a manager keeps a report, a request to connect, a verification
or the other client's report is under way, and the last of these clears it
(`WillClear`). Clients that keep a link and are not connected are trying to, are
verifying, or one of them has told of it (`WillConnect`). A client's report travels
alone (`ReportAlone`): nothing is under way that its manager would take it for a
repetition of, or that would clear it when it should not; this is what `Calm` gives,
and why `nodeReported` may drop a report it has already. A client handles what it is sent
in order, so nothing about a node comes before a report of it (`ReportFirst`).
Every step is about one link, and the lemma `OnePair` leaves only the two ends of that to
be looked at.

**NodeProtocolFirstLinkProofs**, for any nodes, `MAX_REPORTS` and losses, `Calm`, and
`MaxUniqueReports` >= 2:

- `ClosedOnlyAfterFailures`: the invariant `ClosedAfterFailures`. On a first link, a
  client that its manager closed for its reports has failed `MAX_REPORTS` times in a row.

The inductive invariant `FirstInv` weighs, at both ends of the link, what the manager
counted and what it is still going to count against the client's failures. At most one
thing is under way (`OneThing`); the count and the failure still to be counted (`Due`)
are no more than the failures in a row, unless what is under way clears the count
(`Clears`). A client is asked to verify only while it is connected (`Verifiable`), two
open managers both have the link (`Mutual`), and whoever failed is not connected
(`Separate`), so that nobody's failure is counted for the other's attempt. Once a client is
closed for its reports, nothing of the link happens any more (`WhenOver`), and the
failures stay what they were. Both conditions are needed. A loss that both clients report
(not `Calm`) is counted twice. With `MaxUniqueReports` = 1 the second report of
the only link is too wide already, which the code's 3 rules out.

**DeviceAuthProofs**, for any finite sets of devices and of requests under way, and any
number of losses, sweeps and restarts (`AuthAssumption`; finite, because numbers have to
suffice), for all behaviours:

- `TypeCorrect`, with `Numbers \ InUse # {}`: the stand-in for randomness is sound, there
  is always a number nobody holds. A device has four places for one and a request two, so
  at most 4|Devices| + 2|Conns| are in use, and there is one more;
- `OneAnswer`, `OneAcceptance`, `TokensOfDevices`: the three safety invariants of `auth`,
  which finding 4 does not affect: the nil in the store ends the process, but lets nobody
  in.

The invariants speak of numbers in use; what makes them inductive (`AuthInv`) is where
these come from. A challenge that a request has taken is in no session, and a token that
was accepted is not stored (`Sound`); no two sessions, tokens, takers or accepted requests
share one (`Apart`); a request that is past `RegisterUserDevice`, or will be answered with
a token, is of a device on disk (`Sound` again), and a client that is in has a token. The
lemma `ChangeInv` says once what a step has to show for this, given that it changes one
request at most and stores nothing but fresh numbers.

**Only model-checked.**

- `ClusterLinks`: it has no constants; the 576 states of `links` are all there are.
- `LinksMade`, `LinksKept` and `PoolSurvivesOneLoss` of `PoolTopology`. The first two are
  about what clients were told in the course of a change, and not only at its end; the
  third is about paths through the pool, the values of a recursive function.
- All liveness, and whatever needs `ENABLED`: out of reach of the proof system.

## 6. Not modelled

- Invite links: the program makes unlimited ones only, an entry of a map that is set
  once. The counted links, whose counter is decremented without a lock, are marked
  "Not in use" and have no caller.
- The messages of `JoinPool` and `LeavePool` about users: sends under the same lock to
  the same managers as in `NodeLifecycle`.
- Time: expiry of sessions, tokens and links, the interval of a timer. Whatever may be
  late is late at any moment.
- The shared `PoolUserInfo` pointers (a data race that no step of the server reads
  back), the order of the user list.
- HTTP parsing and validation, `CreatePoolApi`, WebAuthn's cryptography, generated
  protobuf code, start-up.

## 7. Plan

What is left open:

1. `LinksMade` and `LinksKept` of `PoolTopology`, from the views in the middle of a
   change, which `FollowsBut` says something about already.
2. `PoolSurvivesOneLoss` for a pool of any size, with the paths stated without recursion.
