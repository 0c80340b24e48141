# ryan_cache: TLA+ models, checks and proofs

`ryan_cache` is a cache written in Go: a thread-safe LRU cache, a
consistent-hash ring that spreads keys over one such cache per node and moves
them when nodes come and go, a cluster of HTTP nodes built on the two, a
client, monitoring, and a tutorial. This directory models it in TLA+, checks the
models with TLC on small instances and proves the central results for every
instance with TLAPS.

To check one run: `tlc -config <file>.cfg <module>`. To check the proofs:
`tlapm <module>.tla` for each of the eight modules whose names end in `_proofs`.
`PROJECT.json` lists the runs, the line ranges every definition stands for, the
hazards and the mutants: for each property of a passing run, a variation of the model,
of the kind a coding slip would make, that breaks it.

## 1. The system

| Component | Source | State | Operations | Modules |
|---|---|---|---|---|
| LRU cache | `core/lrucache.go` | linked list, hash table, size, memory usage, deadlines, statistics, one mutex, one cleanup goroutine | Set, SetWithTTL, Get, Delete, SetMulti, GetMulti, DeleteMulti, cleanup, Close | `LRU`, `LRUCache`, `BoundedCache` |
| Distributed cache | `core/distributed_cache.go` | ring, sorted hashes, node list, one LRU cache per node, migration statistics, one RWMutex | Set, Get, Delete, AddNode, RemoveNode and their migrations | `DistributedCache` |
| Distributed node | `distributed/distributed_node.go` | own ring, own LRU cache, addresses of the others | local or forwarded Set, Get, Delete | `Cluster` |
| Cluster manager | `distributed/cluster_manager.go` | members with their health | announce, health check, add, remove, leave | `Cluster` |
| Cluster coordinator | `distributed/cluster_coordinator.go` | none beyond a mutex | join, leave, broadcast, migration over HTTP | `Cluster` |
| Node API and server | `distributed/api_handlers.go`, `node_server.go` | HTTP server | one handler per request, start, shutdown | `Cluster`, partly |
| Client | `distributed/client.go` | round robin index, per-node health and failure counts, health check goroutines | Set, Get, Delete and batches with retries, health checks, Close | `Client` |
| Ring monitor, integration | `monitoring/hash_ring_monitor.go`, `integration.go` | bounded snapshot history, tracked keys, two switches, one RWMutex | capture, update of the distribution, enable, disable, events | `Monitoring` |
| Migration tracker | `monitoring/migration_tracker.go` | sessions, records, counters | start, track, update, end | no |
| Monitoring output | `monitoring/monitoring_api.go`, `ring_visualizer.go` | none | handlers, rendering | `Monitoring` has the four handlers that change the monitor |
| Tutorial: patterns | `tutorial/02-patterns/` | cache, database, dirty data, flusher | Get, Set, Delete, flush, Close of three services | `Patterns` |
| Tutorial: problems | `tutorial/03-problems/` | caches over a database, circuit breaker | loading, refreshing, null values, breaker | `Patterns`, partly |
| Tutorial: multilevel | `tutorial/05-multilevel/` | two cache levels over a database | Get, Set, Delete, eviction, expiry | `Patterns`, partly |
| Tutorial: hash rings | `tutorial/04-consistent-hash/` | sorted hashes, nodes, weights | add, remove, lookup, replicas | `HashRings` |
| Core HTTP server, command line programs, basics, quiz | `core/server.go`, `cmd/`, `tutorial/01-basics/`, `tutorial/06-interview/` | none, or a plain map | I/O | no (the validation of a configuration is an assumption of `Cluster`) |

How they interact. A client sends a request to any node. The node's handler
asks the node's ring for the owner and serves the request from its own LRU cache
or forwards it over HTTP. A node that starts announces itself; the member that
hears of it updates its ring, sends the keys the newcomer now owns, and
broadcasts the change to the members it believes healthy. Inside one process,
`DistributedCache` does the same with one LRU cache per node behind a
readers-writer lock; the monitor reads it under that lock.

What is hard, component by component, and what makes it correct:

* **LRU cache.** Six code paths keep five structures together by hand; expiry is
  discovered by three of them; a goroutine cleans up beside the callers.
  Correct: the structures agree, the accounting is exact, eviction follows the
  order of use and takes what it must, live entries stay, expired ones go, the
  goroutine ends.
* **Distributed cache.** A call takes the lock twice and uses the cache it found
  outside of it; a migration writes to two caches, one key at a time; positions
  can collide. Correct: the ring routes to members, changes move no more keys
  than they must, completed writes survive migrations, calls and changes end.
* **Cluster.** Every node has its own view; broadcasts are sent once, can be lost,
  can reach the newcomer itself; a migration is a snapshot, a PUT and a delete, by
  several nodes at once; nodes crash and come back empty. Correct: views converge
  when messages arrive, a migration loses nothing whatever is lost on the way,
  every key ends on its owner, coordinators do not wait for each other.
* **Client.** An index and verdicts shared by goroutines, changed by calls and by
  checks in any order. Correct: the index stays in range, verdicts and counts
  agree, every call returns, a node that comes back is used again.
* **Monitoring.** Two locks, taken one inside the other, while nodes change.
  Correct: a snapshot is one state of the ring, and no lock is left behind.
* **Patterns.** Two or three stores without a common lock, readers that fill
  caches behind writers. Correct: what can be stale, and only that; a value
  accepted by write-back is not lost; a missing entry is loaded once; the breaker
  decides.
* **Hash rings of the tutorial.** Wrapping searches over distinct nodes,
  collisions. Correct: replicas are the nearest nodes, weights hold, a change
  leaves the others alone.

## 2. The modules

### GoMap
Writes and deletions on Go maps as TLA+ functions.

### LRU
The data structure as operators on one record. `order` is the doubly linked list
between the sentinels as a sequence, most recent first; `val` the hash table;
`size`, `mem`, `ttl` and the statistics are the fields of those names.
A deadline is kept as the time left, so that time does not grow without
bound; -1 is "past". The eviction loop of `SetInternal` is `Keep`: the longest
prefix of the list that fits, which is what evicting from the tail until it fits
leaves. One operator per code path: `SetInternal`, `Get`, `Delete`,
`GetMultiOne` (which does not look at deadlines), `CleanupOne`. Lengths of keys
and values are functions given as constants, because only they matter to the
memory accounting; `+ 64` is the code's own constant.

### LRUCache
The same behind its mutex. An operation on one key is one step, since it holds
`lru.mu` from beginning to end. The operations that loop keep the mutex over
their iterations: `call` is the loop in progress, each iteration is a step, and
time and the ticker go on meanwhile. `cleaner` is the place of
`startCleanupRoutine` (in its select, waiting for the mutex, cleaning,
returned); `ticker` is the `time.Ticker` with its channel of capacity one. The
three constructors are the three settings of `HasTTL` and `MemoryLimit`.
`newer` is history: the order in which keys were last used, against which the
order of the list is judged. `answer` is what the last read returned.

### BoundedCache
What a client may rely on: the cache forgets as it likes, never holds more than
`Capacity` entries, and a hit answers the value last put under the key.
`LRUCache` implements it with `content <- lru.val`.

### DistributedCache
The ring (`HashRing`, `SortedHashes`), the node list and the caches, and the two
kinds of operations on them. A call of Set, Get or Delete is three steps:
`GetNodeForKey` and `FetchCache`, each under the read lock, and `UseCache`,
under no lock of this module. `AddNode` and `RemoveNode` hold the lock for
writing until `EndChange`: `AddNode` changes the ring and then, per virtual node
of the new node (`ScanVirtualNode`), takes the old owner's data and moves key
after key (`MigrateSet`, `MigrateDelete`); `RemoveNode` changes the ring and
hands its data out key by key (`redistributeDataBasic`). The error path of a call
(its node is gone) and the two panics on an empty ring are steps too. A cache is
named by the order of its creation, so that a call can hold one that has since
been removed or replaced. Hashes are positions on a ring, chosen in `Init` from
`Layouts`: the properties depend on their order and on collisions only. The
per-node caches are maps, because those made here have neither TTL nor memory
limit; eviction from a full one (1000 entries) is not modelled here but in
`LRUCache`. `acked` and `racing` are history: what the completed writes add up
to, and the keys that had a write in flight when some change began.

### Cluster
All the nodes, each with its own `ring` (the members of its hash ring), `members`
and `healthy` (the cluster manager's map), `addr` (`clusterNodes`) and `store`
(the local cache). A `task` is a request of one node to another while it is
handled there: a join or a leave, under the coordinator's mutex (`CcFree`), or
the broadcast of one, under none. A join goes through the migration (`Snapshot`,
then per key `migrateKeyToNode` and `DeleteMoved`, or `SkipKey`, or `PutFails`)
and the broadcast, one target after the other, before it is answered. `Start`,
`Leave`, `Exit` and `Crash` are the life of a node; `notify` is what it has still
to announce. A call is `Route`, by the ring of the node that was asked, and
`Execute` at the target (the internal API does not route again) or `CallFails`: the
target is down. A forwarded request that never gets there, without an address, lost or
timed out, has no effect and is one step (`ForwardFails`). (One that is executed and
whose answer is lost is `Execute`: the client is told of a failure, and the write
counts.) A health
check finds those running nodes healthy that answer in time; one that does not is no
fault, and only counts towards `MaxEvents` (`events`). A node
that announces itself ranges over its member map as it is then: one that is added
meanwhile may be met (`MayMeet`), one that is removed is not.
`TimesOut` and `PutFails` are the faults: the request was lost, or is executed
although its sender has given up. Who owns a key among a set of members is an order
of the nodes per key, chosen in `Init`: the ring itself is `DistributedCache`'s
matter. History: `acked`, the completed writes; `spoiled`, the keys the code
does not protect (written while something is changing, held by a node that left or
crashed, held by a node that was told of its own join); `overtaken`, that a node
left before its announcement was over.

### Client
`call` is the place of each goroutine in `executeWithRetry`: `GetHealthyNodes`
lists the nodes under one lock, `getNextHealthyNode` takes the next under another,
so that the list can be old when it is used; then the request is answered
(`RequestSucceeds`) or not (`RequestFails`), with no lock held. A batch is several
requests. Of the failure counts only what is below the threshold matters. `checks`
are the goroutines of the health check per node: asking, answered well, answered
badly; they are applied later (`ApplyGood`, `ApplyBad`). `unasked` is history for
one property.

### Monitoring
Extends `DistributedCache` with the monitor: `hrm` is the holder of its lock, `job`
what each observer (the integration, a handler) is doing. A capture takes the
monitor's lock and then the cache's read lock (`Reading` holds a change of nodes up)
for all that it reads: the node list, then the caches one after the other
(`CountCache`), between which calls go on, then the ring. What it has counted is kept
as a set of entries, `<<node, key>>`, so that a property can say which keys were seen;
the snapshot has their number. `UpdateDataDistribution` takes the read lock key by key,
and may panic on an empty ring. A change of the integration's key list and its events
ask the monitor's flag a second time (`UpdateAfterTracking`, `CaptureAfterEvent`), when
a handler may have cleared it.

### Patterns
The tutorial's services differ in the order in which they touch their stores, so a
call is the list of the steps it has still to make (`Look`, `Put`, `Lock`, `Copy`
and so on), and each operation of each service is such a list, next to its
siblings: `AsideWrites`, `ThroughWrites`, `BackWrites`, `MultilevelWrites`,
`InvalidatingWrites`, and the `Get...` of each. `store` holds the caches, the dirty
data and the database; there is one key, since keys do not meet. The flusher of
write-back, expiry and eviction, the logical expiry with its asynchronous refresh
and the circuit breaker are actions of their own. `tainted` is history: caches
that were filled late (`Late`). A rollback of write-through puts back a value that is
as late as it was when it was saved (`late` of the call), so that a rollback over a
write of another call would be seen. The caches with a `Set` for preheating start with
the current value (`Preloaded`).

### HashRings
The two rings of the tutorial: `nodes` is the map of either, `sorted` its sorted list.
`Placed` puts the virtual nodes of a node one after the other, each at the first of
its hashes that is free; `FindsFree`, a guard of `AddVirtualNode`, says that each of
them finds one; otherwise the loop of `AddNode` does not end. `Search` and `Visit` are
the binary search and the walk that collects replicas.

The `MC` modules only give constants their values.

## 3. The runs

| Run | Expected | Question |
|---|---|---|
| `lru_memory` | pass | accounting and eviction under a capacity and a memory limit |
| `lru_ttl` | pass | deadlines, the cleanup goroutine, refinement, liveness |
| `dist_data` | pass | ring and data under calls interleaved with changes of nodes |
| `dist_live` | pass | calls and changes end; the migration count |
| `dist_overlap` | violation | do all completed writes survive a change of nodes? |
| `cluster` | pass | rings and data of nodes that join, leave, crash and return |
| `cluster_read` | violation | can a completed write be read through every node? |
| `client` | pass | calls, retries and health checks of one client |
| `client_gives_up` | violation | does a request ask every healthy node before it fails? |
| `monitoring` | pass | snapshots and locks while nodes change |
| `patterns` | pass | staleness, loss and loading in the services of the tutorial |
| `hash_rings` | pass | the rings of the tutorial |

What the passing runs show:

* **`lru_memory`.** `MemoryExact`: memoryUsage is the memory of the entries
  present. `RequestsAddUp`: every request is a hit or a miss.
  `OrderedByUse`: the list is in the order of use, whichever operation used a key.
  `EvictsLeastRecentlyUsed`, `EvictsOnlyWhatItMust`, `InsertionRestoresLimit`: an
  insertion evicts the right entries, no more and no fewer. Three keys and values
  of three sizes: three small entries fit in memory but two in the table, a
  medium one displaces two small ones, a large one is rejected; loops of up to
  two keys. That is every way the two conditions of the eviction loop can
  combine.
* **`lru_ttl`.** `TypeOK` and `ListMatchesTable`: list, table and size are one
  set of entries. `LeavesForAReason`: an entry goes only by eviction, by name or
  past the deadline `ttlMap` has under its key at that moment, in particular not
  because it expired and was refreshed before the cleanup pass came to it. (The
  deadline may be one that an earlier entry of the key left: see the known limits.)
  `ImplementsBoundedCache`: refinement.
  `ExpiredIsCleaned`, `CloseEndsCleaner`: liveness. Two keys and capacity one,
  so that a key is evicted with its deadline left behind; TTLs of 0 and 1
  against an interval of 2, so that an entry expires before, at and after a tick.
* **`dist_data`.** For every placement of two virtual nodes of each of three
  nodes on six positions, and of a key: `RingServesMembers` (the four structures
  agree and routing finds a cache), `RingIsRebuilt` (additions and removals leave
  the ring that the constructor would build), `MinimalDisruption`.
  `UnracedWritesSurvive`: between changes, the cache a key is routed to holds what
  its completed writes add up to, unless a write of that very key was in flight
  when a change began. `OneCopy`: no other cache holds it. One value suffices: a
  Delete is a write that differs from it. One client suffices: during a change no
  call can be routed or fetch a cache, calls of different keys touch different
  entries, and a second write of the same key in flight only makes the key raced,
  which the first has already done. Node names are exchangeable (symmetry).
* **`dist_live`.** Two nodes with two virtual nodes each and two keys, so that a
  scan meets keys that an earlier scan has moved. `CountsWhatMoved`,
  `CallsReturn`, `ChangesEnd`.
* **`cluster`.** Nodes a and b run; c, configured with all three, starts, leaves or
  crashes, and starts again. `MaxEvents` = 2: two starts without a fault, or one
  start and one fault (a request lost or late, a crash in the middle of an
  announcement) or one health check with late answers anywhere. a and b have checked
  each other's health before (`Checked`); in `cluster_read` they have not. No other
  node announces itself, so that nobody is met in the middle of an announcement
  (`MayMeet`): two joins at once are left to `CopiesSafe` and `WaitsSafe`, which assume
  nothing of who comes and goes. One write and one key, which c owns when it is there,
  or a does. `CopySurvives`: at every moment of every migration an unspoiled value is on
  a running node, whatever puts are lost. `ViewsConverge`, `OwnerHoldsKey`: once
  settled without faults, all running nodes have the ring of the running nodes
  and the key is on its owner alone, also after a crash and a restart.
  `NoCircularWait`: some request can always go on.
* **`client`.** Two nodes, one goroutine with single requests and one with batches
  of two, two attempts, a threshold of two, so that nodes are excluded and the lists
  of two callers differ in length. `TypeOK` (the index is in range of every list),
  `HealthMatchesCount`, `CallsReturn`, `ExclusionsEnd`.
* **`monitoring`.** Two nodes whose virtual nodes alternate, one key that the second
  one takes over, the integration and a handler as observers, a history of one.
  `SnapshotIsOneRing`. `CapturesCountOnce`: every cache a capture asks has the keys
  that belong to its node, and none of them is or will be counted elsewhere; a call
  that completes between two caches is counted or not. `HolderIsNotStuck`.
* **`patterns`.** Three clients, two values, each of eleven services in turn (chosen
  in `Init`). `StaleOnlyIfLate`: when no call is running a cache agrees with the
  database unless it was filled late, and no refresh has left its mark behind.
  `DirtyIsNotLost`, `DirtyIsFlushed` for write-back, `NoNeedlessLoad` for the cache
  with a mutex per key, `BreakerDecides`.
* **`hash_rings`.** Four nodes, two of them with one virtual node, one with two, one
  too light for any, on five positions, with every combination of hashes
  (collisions included on the ring that handles them). `ReplicasAreNearest`,
  `WeightsHold`, `ChangesKeepOrder`.

Bounds. `MaxBatch` (keys in a Multi call), `MaxRequests` (reads are counted by
the code without limit; in `Client`, requests of a batch), `MaxRuns` (cleanup
statistics saturate), `MaxCaches` (caches ever created; it limits the number of
additions), `MaxCalls`, `MaxEvents` and `Checking` of `Cluster`, `MaxChecks` of
`Client` (checks of a node under way), `MaxFailures` (the breaker's count). Each is
a constant that appears in guards and nowhere else; the theorems hold for all
values of theirs.

### Findings

Three runs end in a counterexample; in each the code disagrees with what the
repository says of it. The quotations are in `PROJECT.json`.

1. `dist_overlap`: a `Set` that fetched its cache before `AddNode` and writes
   after the migration returns success, and the value is not found again.
   `dist_data` shows that only such keys are affected.
2. `cluster_read`: a node that receives an announcement puts the newcomer on its
   ring but not into `clusterNodes`; it then routes keys to a node it has no address
   for. The broadcast from another member repairs it only where one arrives.
3. `client_gives_up`: the index is kept modulo the length of a list that shrinks when
   a node is marked; a request can ask one node twice, another never, and report that
   no node is available.

### Known limits of the code

Disagreements met while modelling that no run is spent on. Where a property would
be broken by one, the property or the run says that it is excepted.

* LRU cache. Overwriting an entry with a larger value exceeds the memory limit, since
  only the insert branch evicts (`lrucache.go:222`); the next insertion repairs it.
  `GetMulti` ignores deadlines (`lrucache.go:338`). A `Get` that removes an expired
  entry leaves its bytes in memoryUsage (`lrucache.go:270`): with TTLs `MemoryExact`
  does not hold, without them it is a theorem. A plain `Set` keeps the deadline that
  `ttlMap` has under its key, be it that of the entry it overwrites
  (`lrucache.go:210`) or one that eviction left behind (`lrucache.go:241`), and its
  entry is removed by that deadline; `LeavesForAReason` accepts this, since nothing
  in the repository says what `Set` should do with a deadline. `Size` and `GetCleanupStats` read
  without the mutex.
* Distributed cache. The old owner of a virtual node is looked up in the new ring
  (`distributed_cache.go:394`): if the new node takes over an existing position, the
  keys before it stay with a node that is no longer asked; `CleanLayouts` leaves
  collisions out. Adding a member again replaces its cache by an empty one
  (`distributed_cache.go:120`): `ReAdd` is FALSE in the runs.
* Cluster. A leaving node does not hand its keys over, although `docs/ARCHITECTURE.md`
  describes it. A node told of its own join puts its keys to itself and then deletes
  them (`cluster_coordinator.go:261`). A node that leaves before its announcement is
  over can stay in a ring. A change that a node misses is never repeated. Two nodes
  that join at once may never learn of each other: neither is a healthy member to the
  coordinator yet when the other's join is broadcast. `ViewsConverge` therefore holds
  where one node moves (`OnlyMoves`), which the run's `MC` module assumes and TLC
  evaluates. `announceToCluster` ranges over the member map without the lock.
  `IsHealthy` rounds its half down (`cluster_manager.go:278`). The health check holds
  the manager's lock for as long as it asks (`cluster_manager.go:145`).
* Client. Every error is taken for a network error, and a write whose answer was lost
  is sent again, possibly over a newer one.
* Monitoring. `GetLatestSnapshot` hands out a snapshot whose map
  `UpdateDataDistribution` goes on writing to; `ValidateDataMigration` reads the
  caches without the lock; a session that ends is deleted although a comment says that
  it is moved to the history.
* Tutorial. Cache-aside, write-through and the multilevel cache can keep a value that
  a reader brought late (`StaleOnlyIfLate` says that there is no other way), although
  `02-patterns/README.md:69` says of write-through that the cache is always current.
  Delete of write-through and write-back empties the cache before the database. A Set
  of write-back after Close has flushed may never be written. Two refreshes of one
  item can run at once. `CacheWithTTL.Get` (`01-basics/simple_cache.go:113`) finds an
  item expired, unlocks, and deletes whatever is there by then. `AddNode` of the ring
  with virtual nodes does not end when every hash it tries is taken; a node of small
  weight has no virtual node at all; on the basic ring, removing a node that was
  skipped for its hash removes the other one.

## 4. Fairness

`LRUCache`: weak fairness of time, of a loop in progress and of the goroutine's
receive from the ticker: the scheduler runs what can run. Strong fairness of taking the
mutex, because others may take it in between: a Go mutex is handed to a waiter
that has been starved for a millisecond. Strong fairness of the stop branch: `select`
chooses among ready cases at random, so it does not pass over a closed channel for
ever. No client action is fair.

`DistributedCache`: weak fairness of a migration's steps and of `UseCache`;
strong fairness of `FetchCache`, because a writer's `Unlock` admits the readers
that wait before the next writer. Neither calls nor changes are fair: nobody has
to start one.

`Client`: weak fairness of a call's steps (a request is answered or times out), of
applying an answered check and of the ticker. Strong fairness of a good answer: a node
that is checked again and again answers some check well. That is an assumption
about the nodes, not the client; without it an exclusion rightly lasts. The health
check is assumed to be enabled, as it is by default.

`Patterns`: weak fairness of the flusher's tick and of who holds the mutex; strong
fairness of the flusher's steps, for the mutex as above. Nobody has to call anything.

`Cluster`, `Monitoring` and `HashRings` have safety properties only.
`NoCircularWait` and `HolderIsNotStuck` say that something can go on, in every
reachable state; `Cluster` has one fault at most, so liveness would add little.

## 5. The theorems

| Theorem | Module | Statement |
|---|---|---|
| `TypeCorrect` | `LRUCache_proofs` | `Spec => []TypeOK` |
| `StructureSafe` | `LRUCache_proofs` | `Spec => []ListMatchesTable` |
| `RequestsSafe` | `LRUCache_proofs` | `Spec => []RequestsAddUp` |
| `MemorySafe` | `LRUCache_proofs` | `~HasTTL => (Spec => []MemoryExact)` |
| `OrderSafe` | `LRUCache_proofs` | `Spec => []OrderedByUse` |
| `EvictionOrderSafe` | `LRUCache_proofs` | `Spec => EvictsLeastRecentlyUsed` |
| `EvictionNeedSafe` | `LRUCache_proofs` | `Spec => EvictsOnlyWhatItMust` |
| `LimitSafe` | `LRUCache_proofs` | `Spec => InsertionRestoresLimit` |
| `LeavesSafe` | `LRUCache_proofs` | `Spec => LeavesForAReason` |
| `Refinement` | `LRUCache_proofs` | `Spec => ImplementsBoundedCache` |
| `RoutingSafe` | `DistributedCache_proofs` | `~ReAdd => (Spec => []RingServesMembers)` |
| `DisruptionMinimal` | `DistributedCache_proofs` | `Spec => MinimalDisruption` |
| `TypeCorrect` | `Migration_proofs` | `Spec => []TypeOK` |
| `RebuiltSafe` | `Migration_proofs` | `~ReAdd /\ NoCollision => (Spec => []RingIsRebuilt)` |
| `WritesSafe` | `Migration_proofs` | `~ReAdd /\ NoCollision => (Spec => []UnracedWritesSurvive)` |
| `OneCopySafe` | `Migration_proofs` | `~ReAdd /\ NoCollision => (Spec => []OneCopy)` |
| `CountSafe` | `Migration_proofs` | `~ReAdd /\ NoCollision => (Spec => CountsWhatMoved)` |
| `ClientTypeCorrect` | `Client_proofs` | `Spec => []TypeOK` |
| `HealthSafe` | `Client_proofs` | `Spec => []HealthMatchesCount` |
| `CopiesSafe` | `Cluster_proofs` | `Spec => []CopySurvives` |
| `ViewsSafe` | `Cluster_proofs` | `\A c \in Node : OnlyMoves(c) => (Spec => []ViewsConverge)` |
| `OwnersSafe` | `Cluster_proofs` | `\A c \in Node : OnlyMoves(c) => (Spec => []OwnerHoldsKey)` |
| `WaitsSafe` | `Cluster_proofs` | `Spec => []SomeoneGoesOn` |
| `BreakerSafe` | `Patterns_proofs` | `Spec => []BreakerDecides` |
| `LoadsSafe` | `Patterns_proofs` | `Spec => []NoNeedlessLoad` |
| `DirtySafe` | `Patterns_proofs` | `Spec => DirtyIsNotLost` |
| `StaleSafe` | `Patterns_proofs` | `Spec => []StaleOnlyIfLate` |
| `WatchingIsHarmless` | `Monitoring_proofs` | `SpecMonitoring => Spec` |
| `SnapshotsSafe` | `Monitoring_proofs` | `~ReAdd /\ NoCollision => (SpecMonitoring => []SnapshotIsOneRing)` |
| `CountsSafe` | `Monitoring_proofs` | `~ReAdd /\ NoCollision => (SpecMonitoring => CapturesCountOnce)` |
| `HolderSafe` | `Monitoring_proofs` | `SpecMonitoring => []HolderGoesOn` |
| `WeightsSafe` | `HashRings_proofs` | `Spec => []WeightsHold` |
| `ReplicasSafe` | `HashRings_proofs` | `Spec => []ReplicasAreNearest` |
| `OrderSafe` | `HashRings_proofs` | `Spec => ChangesKeepOrder` |

They hold for all keys, values, lengths, capacities, limits, TTLs, nodes,
placements, clients, observers, thresholds and bounds, under the assumptions the
modules name. LRU cache: the capacity is positive, lengths and limits are
natural numbers, a constructor with TTLs sets no memory limit. Distributed
cache: every node has a finite, nonempty set of positions and a constructor's
node list does not repeat. Client: the configured nodes are a list without
repetitions, not empty. Cluster: every node is configured with itself, some
node runs to begin with, and the order in which the ring of a key meets the nodes
names all of them. Patterns: the services are the eleven of the tutorial. Hash rings:
the nodes are finitely many, every virtual node has a first hash to try, and the
names of the basic ring have different hashes. The
set of keys may be infinite: that a cache is finite is part of the invariants.

Three hypotheses are in the statements because the code does not do without them
(section 3, known limits): `~ReAdd`, no member is added again; `NoCollision`, two
nodes never have a virtual node at the same position; and `OnlyMoves(c)`, one node of
the cluster comes and goes, configured with all, while the others stay. `dist_data`
and `monitoring` run under the first two, `cluster` under the third. What a collision
or a repeated addition cannot break is stated without: types, minimal disruption and,
under collisions, routing.

**LRU cache.** The inductive invariant `CoreInv` says that the cache record is
well formed (its structures agree, `Good`), that requests add up, that without a
`ttlMap` the memory is exact, and that the loop in progress is well typed, has
a key left to read or delete, and cleans only keys past their deadlines. The parts
need each other: that removing a node from the list and from
the table keeps them equal needs that the list does not repeat, that eviction
keeps the size counter right needs both, and exactness needs to know that no
deadline exists, since the path that drops an expired entry breaks it.
`LRUCache_proofs` begins with the lemmas: what the list operations return, how `Bytes`
changes with an entry (a sum over a set, stated as a cardinality so that the
library's theorems apply), and one lemma per code path saying that it preserves
`Good`, `Counted` and `Accounted`. `CoreStep` then goes through the actions.
`OrderedByUse` is not inductive alone: `UseInv` adds that the history `newer` never
has both `<<j, k>>` and `<<k, j>>`. The eviction theorems combine it with what the
loop of `SetInternal` leaves: `Keep` is a prefix of the list, it fits, and one entry
more would not. `LeavesSafe` needs of `CoreInv` that the keys a cleanup pass has still
to delete are expired, which is what the mutex held over the pass is for.
`Refinement` maps every step to a step of `BoundedCache` or a stutter.

**Ring.** `RingInv` (sorted list and ring agree, positions are numbers, every
position leads to a node with a cache) is inductive for every placement, collisions and
repeated additions included. `MembersInv` (the node list names the nodes with caches,
each once) needs `~ReAdd`. `MinimalDisruption` rests on two facts about the successor of
a hash: adding positions changes it only to an added one (`AddMovesToNew`), removing
positions only if it was removed (`RemoveMovesFromOld`, from `SuccessorStable`).
That minima exist is `MinLemma`, from the well-foundedness of the naturals.

**Migration.** `ExactInv`: without collisions the positions of the ring are those of
the members, each leading to its node; it gives `RingIsRebuilt`. The data invariant
`DataInv` follows every key that has not been raced, at every step of a change
(`KeyOK`): a cache has only its current value, and only where it is routed to or is
leaving from (`OnlyCurrent`); what a change carries is the current value, from the
node it leaves (`CarriesCurrent`); what has to leave is still to be scanned, carried
or about to be deleted (`WillLeave`); a written value is somewhere
(`IsSomewhere`); and a write in flight goes to the owner's cache, which means that
no change is on (`WritesToOwner`). The step that needs the ring is
`ScansTheOldOwner`: that the old owner of the virtual node a key is now routed to, by the
old list of positions in the new ring, is the old owner of the key itself. That is
where a collision would break it. `WritesSafe` and `OneCopySafe` are `DataInv` between
changes. `CountInv` adds that the new node has exactly the counted keys, plus the one
whose old copy is about to be deleted, and that what has arrived is nowhere else,
so that no later scan finds it again.

**Client.** `HealthSafe` is a short induction (`HealthInv`). For the type invariant
`CallOK` bounds the list each call has taken by the configured one. That the list of
healthy nodes (`healthyUpTo`, the loop of `GetHealthyNodes`) is never longer is a fact
about a recursion; it is proved by taking the least prefix for which it fails.

**Cluster.** A migration deletes a key after its copy has arrived, but the node that
received it may be passing it on in a migration of its own. `TaskHeld` excludes the
circle: what a migration is about to delete has a copy at a running node that the ring
of the key meets earlier (`Pos`). With it, `AgreeInv` (all copies of a followed key,
and what migrations carry, have the value last written) and `HeldInv` are inductive,
for any number of simultaneous joins, leaves, crashes and losses: `MaxEvents` does not
limit the theorem as it limits the run.

`ViewsSafe` follows one node c. `FrameInv` is what holds whatever is lost: c's own ring is
complete and the rings of the others contain each other. `CleanInv` holds as long as no
request was lost or overtaken: every other node that has not heard of c's arrival or
departure has it on its way, in c's list of announcements or as a request that waits
(`JoinInv`, `LeaveInv`); a broadcast that is being answered has a coordinator that waits for
it (`HeardInv`); and when c has gone, nothing of it is left (`GoneInv`). Joins and leaves of c
therefore do not mix, which is what would leave one node with an old ring.
`OwnersSafe` adds `PlaceOK`: a node that stays holds a key only if it owns it among those that
stay, and if it has heard that c owns it now, it is in the middle of moving it.

`NoCircularWait` says ENABLED, which the prover cannot expand. `SomeoneGoesOn` says
the same with the guards of the steps written out (`CanGoOn`). A request that waits
for a mutex waits for a coordinator that moves keys or broadcasts; moving waits for
nobody; a broadcast waits for the answer to a sync request, which takes no mutex and
so moves or ends. That only joins and leaves broadcast (`BroadcastInv`) is what closes
the argument.

**Patterns.** `MutexInv` and `BackInv` list the steps a call of the mutex cache and of the
write-back cache can have left, and what is true there: a call that is about to query the
database has the mutex and the entry is missing; a flush that is about to forget the
dirty value has the mutex and the database has the value. `StaleInv` does this for all
services, in five groups: those whose calls only look, query and fill, and write or
invalidate (`PlainHere`), write-through, write-back, the mutex cache and logical
expiry. In each it says, for a call that is about to fill a cache, what the database
holds or that the fill will count as late, and for a cache at rest that it agrees with
the database or is tainted. For a call of write-through that may roll back it also says
that the value it has saved was late or still agrees with the database (`SavedOK`),
which is what its mutex is for.

**Monitoring.** `WatchingIsHarmless` maps every step of the monitor to a step of the
cache or a stutter, so the theorems about the cache hold while it is watched.
`JobsInv` says that an observer between its reads still knows the node list, since
it holds the read lock, and `HistoryInv` that every snapshot taken is of one ring.
`CountedInv` says that no change is under way while a capture reads, that what it has
counted is where the ring puts it and that it came from caches no longer to be asked;
with `DataInv` that gives what the next cache adds (`CountLemma`). `HolderGoesOn` is `HolderIsNotStuck` with the guards written out:
`HolderInv` says that exactly the observer between its lock and its unlock has `hrm`,
and `WorkInv` that what a change has still to look at is on the ring, so that its
holder waits at most for a change of nodes, and the change for nobody.

**Hash rings.** `RingInv`: the sorted list names the positions of the ring in increasing
order, each once, and a node of the basic ring is at its own hash. `Sort` is defined by rank,
so that its result is a bijection onto the positions (`Lists`). `WeightsSafe` counts the
positions a placement adds: the first free hash is new, one position for each
virtual node. For `ReplicasSafe` the walk from the searched position meets the positions
by their distance from the key, and `Visit` keeps the first of each node; facts about its
recursion are proved by taking the least counterexample. `OrderSafe` follows: the replicas
without one node are the other nodes by distance, and a change of that node does not move
theirs.

**Only model-checked.** The liveness properties (`ExpiredIsCleaned`, `CloseEndsCleaner`,
`CallsReturn`, `ChangesEnd`, `ExclusionsEnd`, `DirtyIsFlushed`) and the two that
say ENABLED (`NoCircularWait`, `HolderIsNotStuck`): the prover has no support for
either. Their guard forms are the theorems `WaitsSafe` and `HolderSafe`; that the guards
are the enabling conditions is left to a reader, who finds them in `TaskStep` and in the
actions of the observers and of a change. All other invariants and action properties
of the runs are theorems.

## 6. Not modelled

* Size, GetStats, GetMemoryUsage, HitRate, GetCleanupStats, the statistics of the
  distributed cache, of the nodes and of the client: they read and change nothing.
* SHA-1, FNV and the sorting of the hashes: a layout is any placement, and in
  `DistributedCache` a sorted list without its order is a set, in which repeated
  hashes change no lookup.
* `monitoring/migration_tracker.go`: a table of what it is told, under one lock, that
  nothing decides by. Angles and load-balance scores.
* Of the tutorial: the Bloom filter (a pure structure over hashes), the random TTLs, the
  metrics, the multi-key calls of level 2 that nothing uses, `01-basics` (a map and a
  map with TTLs, the questions about which are asked of `core/`), the quiz and the
  demonstrations.
* HTTP encoding, headers, routes, logging, rendering, flags and configuration files
  (`core/server.go`, `cmd/`, `monitoring/ring_visualizer.go`). The local cache of a
  cluster node is a map: its eviction is `LRUCache`'s matter.

## 7. Plan

Left to do: a statement about several nodes that move at once. `ViewsConverge` does not hold
there (section 3, known limits); what does is weaker, that each running node's ring is
right about the nodes that have not moved, and would be worth stating once the code repeats
changes that were missed. The migration tracker, if something comes to depend on it.
