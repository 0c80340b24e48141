------------------------------ MODULE Cluster -------------------------------
(***************************************************************************)
(* distributed/: the nodes of a cluster.  Each node has its own hash ring, *)
(* its own list of members with their health (ClusterManager), its own     *)
(* table of addresses (clusterNodes) and its local cache.  A node that     *)
(* starts announces itself to the members of its configuration, one after  *)
(* the other; the node that handles the announcement (the coordinator)     *)
(* holds its mutex while it adds the newcomer, hands it the keys it now    *)
(* owns and broadcasts the change to the members it believes healthy, one  *)
(* after the other; each of them adds the newcomer and hands over its      *)
(* keys, without that mutex.  A node that shuts down announces that it     *)
(* leaves in the same way, and its data goes with it.                      *)
(*                                                                         *)
(* A task is a request of one node to another while it is handled there.   *)
(* Requests can be lost and time out before or after they are handled, and *)
(* nodes can crash and be started again.                                   *)
(*                                                                         *)
(* The owner of a key on a ring is the first node that the ring meets from *)
(* the key on: for each key, an order of all nodes, chosen in Init,        *)
(* decides it for every set of members (DistributedCache.tla has the ring  *)
(* in detail).  The caches of the rings themselves stay empty, and a ring  *)
(* is its set of members.  A health check holds the manager's mutex while  *)
(* it asks every member in turn: nobody sees the verdicts before it ends,  *)
(* so that it is one step.  Of a status only "healthy" is ever asked for,  *)
(* and never a node's own.                                                 *)
(***************************************************************************)
EXTENDS Integers, Sequences, FiniteSetsExt, Functions, GoMap

CONSTANTS
    Node, Key, Value,
    Config,         \* node -> the cluster_nodes of its configuration
    Running,        \* the nodes that have been running for long
    Fresh,          \* those of them that have still to announce themselves
    Checked,        \* those of them whose health ticker has fired
    Movable,        \* the nodes that may be started and shut down
    Checking,       \* bound: the nodes whose health ticker fires
    Orders,         \* the orders in which a ring can meet the nodes
    MaxCalls,       \* bound: Set and Delete calls
    MaxEvents       \* bound: starts, late checks and faults (requests of the cluster
                    \* lost or timed out, crashes during an announcement) together

(* cmd/node/main.go refuses any other configuration. *)
validateConfig(n) == Config[n] # {} /\ n \in Config[n]

ASSUME ConfigAssumption ==
    Config \in [Node -> SUBSET Node] /\ \A n \in Node : validateConfig(n)
ASSUME NodesAssumption ==
    /\ Fresh \cup Checked \subseteq Running /\ Running \subseteq Node /\ Running # {}
    /\ Movable \cup Checking \subseteq Node
ASSUME OrdersAssumption == \A o \in Orders : o \in Seq(Node) /\ Range(o) = Node
ASSUME BoundsAssumption == MaxCalls \in Nat /\ MaxEvents \in Nat

VARIABLES
    order,      \* key -> the nodes in the order the ring meets them
    phase,      \* node -> "down", "crashed", "running" or "leaving"
    ring,       \* node -> the members of its hashRing
    members,    \* node -> the others in its cluster.nodes
    healthy,    \* node -> those of them whose Status is "healthy"
    addr,       \* node -> the nodes its clusterNodes has an address for
    store,      \* node -> its localCache
    tasks,      \* the requests between nodes that are being handled
    notify,     \* node -> what it has still to announce: <<"join" or "leave", to whom>>
    call,       \* the Set or Delete on its way to a cache
    calls,      \* Set and Delete calls so far
    events,     \* starts and late checks so far
    acked,      \* history: what the completed writes add up to
    spoiled,    \* history: keys written during a change, or kept by a node that is gone
    overtaken,  \* history: some node left before its announcement was over
    faults      \* history: faults so far

nodeVars == <<phase, ring, members, healthy, addr>>
callVars == <<call, calls, events>>
history == <<acked, spoiled, overtaken, faults>>
vars == <<order, nodeVars, store, tasks, notify, callVars, history>>

Up == {n \in Node : phase[n] \in {"running", "leaving"}}

Owner(k, S) == order[k][Min({i \in 1 .. Len(order[k]) : order[k][i] \in S})]

(***************************************************************************)
(* `data' is what a migration has still to look at, `moved' the key it has *)
(* put and not yet deleted, `targets' whom a broadcast has still to tell.  *)
(* `heard' says that the sender still waits for the answer.                *)
(***************************************************************************)
Task(kind, at, node, from) ==
    [kind |-> kind, at |-> at, node |-> node, from |-> from, pc |-> "wait",
     data |-> EmptyMap, moved |-> {}, targets |-> {}, heard |-> TRUE]

NoCall == [op |-> "none"]

Announcements(n) == {"join"} \X (Config[n] \ {n})

(***************************************************************************)
(* Some keys may have been written before: each is on its owner.           *)
(***************************************************************************)
Init ==
    /\ order \in [Key -> Orders]
    /\ phase = [n \in Node |-> IF n \in Running THEN "running" ELSE "down"]
    /\ ring = Config
    /\ members = [n \in Node |-> Config[n] \ {n}]
    /\ healthy = [n \in Node |-> IF n \in Checked THEN (Config[n] \ {n}) \cap Running ELSE {}]
    /\ addr = Config
    /\ acked \in UNION {[S -> Value] : S \in SUBSET Key}
    /\ store = [n \in Node |-> RestrictDomain(acked, LAMBDA k : n = Owner(k, Running))]
    /\ tasks = {}
    /\ notify = [n \in Node |-> IF n \in Fresh THEN Announcements(n) ELSE {}]
    /\ call = NoCall
    /\ calls = 0
    /\ events = 0
    /\ spoiled = {}
    /\ overtaken = FALSE
    /\ faults = 0

-----------------------------------------------------------------------------
(***************************************************************************)
(* Set and Delete at node n: route by its own ring, then use its own cache *)
(* or forward to the owner, whose internal API does not route again.       *)
(* A call that is forwarded may never get there: there is no address for   *)
(* the owner, or the request is lost or times out before it is executed.   *)
(***************************************************************************)
Requests == [op : {"Set"}, key : Key, val : Value] \cup [op : {"Delete"}, key : Key]

Effect(r, m) == IF r.op = "Set" THEN With(m, r.key, r.val) ELSE Without(m, r.key)

Changing ==
    \/ tasks # {} \/ \E n \in Node : notify[n] # {}
    \/ \E m, n \in Up : ring[m] # ring[n]

MayHappen == events + faults < MaxEvents

CanForward(n, m) == m = n \/ m \in addr[n]

Route(n, r) ==
    /\ call = NoCall /\ n \in Up /\ calls < MaxCalls
    /\ LET target == Owner(r.key, ring[n])
       IN  /\ CanForward(n, target)
           /\ call' = [op |-> r.op, req |-> r, target |-> target]
    /\ calls' = calls + 1
    /\ spoiled' = IF Changing THEN spoiled \cup {r.key} ELSE spoiled
    /\ UNCHANGED <<order, nodeVars, store, tasks, notify, events, acked, overtaken, faults>>

ForwardFails(n) ==
    /\ call = NoCall /\ n \in Up /\ calls < MaxCalls
    /\ \E r \in Requests : Owner(r.key, ring[n]) # n
    /\ calls' = calls + 1
    /\ UNCHANGED <<order, nodeVars, store, tasks, notify, call, events, history>>

(* A write that finds a copy astray from a failed migration is not followed. *)
(* One whose answer is lost, or comes too late, is executed all the same.    *)
Execute ==
    /\ call # NoCall /\ call.target \in Up
    /\ store' = [store EXCEPT ![call.target] = Effect(call.req, @)]
    /\ acked' = Effect(call.req, acked)
    /\ spoiled' = IF \E n \in Node \ {call.target} : call.req.key \in DOMAIN store[n]
                  THEN spoiled \cup {call.req.key} ELSE spoiled
    /\ call' = NoCall
    /\ UNCHANGED <<order, nodeVars, tasks, notify, calls, events, overtaken, faults>>

(* The owner that the call was routed to is down. *)
CallFails ==
    /\ call # NoCall /\ call.target \notin Up
    /\ call' = NoCall
    /\ UNCHANGED <<order, nodeVars, store, tasks, notify, calls, events, history>>

(* Get at node n: whether it finds the key *)
Get(n, k) == LET o == Owner(k, ring[n]) IN CanForward(n, o) /\ o \in Up /\ k \in DOMAIN store[o]

(* A write in flight when a node changes its ring is not followed either. *)
SpoilCall == spoiled' = IF call # NoCall THEN spoiled \cup {call.req.key} ELSE spoiled

-----------------------------------------------------------------------------
(***************************************************************************)
(* The cluster manager.  The answers of running nodes may come too late:   *)
(* those nodes count as unhealthy until the next check.                    *)
(***************************************************************************)
performHealthCheck(n) ==
    /\ n \in Up \cap Checking
    /\ \E late \in SUBSET (members[n] \cap Up) :
         /\ late # {} => MayHappen
         /\ events' = IF late = {} THEN events ELSE events + 1
         /\ healthy' = [healthy EXCEPT ![n] = (members[n] \cap Up) \ late]
    /\ UNCHANGED <<order, phase, ring, members, addr, store, tasks, notify, call, calls, history>>

NewDistributedNode(n) ==
    /\ ring' = [ring EXCEPT ![n] = Config[n]]
    /\ addr' = [addr EXCEPT ![n] = Config[n]]

NewClusterManager(n) ==
    /\ members' = [members EXCEPT ![n] = Config[n] \ {n}]
    /\ healthy' = [healthy EXCEPT ![n] = {}]

Configure(n, p) ==
    /\ phase' = [phase EXCEPT ![n] = p]
    /\ NewDistributedNode(n)
    /\ NewClusterManager(n)

StartManager(n) == notify' = [notify EXCEPT ![n] = Announcements(n)]

(* A node is started: nothing of an earlier life is left. *)
Start(n) ==
    /\ n \in Movable \ Up /\ MayHappen
    /\ events' = events + 1
    /\ Configure(n, "running")
    /\ StartManager(n)
    /\ SpoilCall
    /\ UNCHANGED <<order, store, tasks, call, calls, acked, overtaken, faults>>

Announcing(n) == notify[n] # {} \/ \E t \in tasks : t.node = n

(* Shutdown begins with Leave; the announcement may still be under way. *)
Leave(n) ==
    /\ n \in Movable /\ phase[n] = "running"
    /\ phase' = [phase EXCEPT ![n] = "leaving"]
    /\ notify' = [notify EXCEPT ![n] = @ \cup {"leave"} \X members[n]]
    /\ overtaken' = (overtaken \/ Announcing(n))
    /\ UNCHANGED <<order, ring, members, healthy, addr, store, tasks, callVars, acked, spoiled,
                   faults>>

Waits(n, kind) == \E t \in tasks : t.from = n /\ t.kind = kind /\ t.heard

(* A request to one node; the next is sent when it has been answered. *)
Notify(n, kind, m) ==
    /\ <<kind, m>> \in notify[n] /\ ~Waits(n, kind)
    /\ notify' = [notify EXCEPT ![n] = @ \ {<<kind, m>>}]
    /\ tasks' = IF m \in Up THEN tasks \cup {Task(kind, m, n, n)} ELSE tasks
    /\ UNCHANGED <<order, nodeVars, store, callVars, history>>

notifyNodeJoin(n, m) == Notify(n, "join", m)
notifyNodeLeave(n, m) == Notify(n, "leave", m)

Down(n, p) ==
    /\ Configure(n, p)
    /\ store' = [store EXCEPT ![n] = EmptyMap]
    /\ notify' = [notify EXCEPT ![n] = {}]
    /\ spoiled' = spoiled \cup DOMAIN store[n]

(* The server waits for the requests it is handling, and the process ends. *)
Exit(n) ==
    /\ phase[n] = "leaving" /\ ~Waits(n, "leave")
    /\ \A m \in Node : <<"leave", m>> \notin notify[n]
    /\ \A t \in tasks : t.at # n
    /\ Down(n, "down")
    /\ UNCHANGED <<order, tasks, callVars, acked, overtaken, faults>>

(***************************************************************************)
(* What it was handling is gone; what it asked others for goes on there.   *)
(* In the middle of an announcement a crash counts as a fault.             *)
(***************************************************************************)
Crash(n) ==
    /\ n \in Movable \cap Up /\ (Announcing(n) => MayHappen)
    /\ Down(n, "crashed")
    /\ tasks' = {[t EXCEPT !.heard = @ /\ t.from # n] : t \in {u \in tasks : u.at # n}}
    /\ faults' = IF Announcing(n) THEN faults + 1 ELSE faults
    /\ UNCHANGED <<order, callVars, acked, overtaken>>

-----------------------------------------------------------------------------
(***************************************************************************)
(* The coordinator.  A join or a leave is handled under cc.mu; the answer  *)
(* is sent when the broadcast is over.                                     *)
(***************************************************************************)
CcFree(n) ==
    \A t \in tasks : t.at = n /\ t.kind \in {"join", "leave"} => t.pc = "wait"

Replace(t, u) == tasks' = (tasks \ {t}) \cup {u}
Reply(t) == tasks' = tasks \ {t}

(***************************************************************************)
(* announceToCluster ranges over the live map of members: one that is      *)
(* added before it is over may still be met, one that is removed is not.   *)
(***************************************************************************)
Unmet(t) ==
    {m \in {t.node} \ (members[t.at] \cup {t.at}) :
        Waits(t.at, "join") \/ \E o \in Node : <<"join", o>> \in notify[t.at]}

MayMeet(t) ==
    \E S \in SUBSET Unmet(t) : notify' = [notify EXCEPT ![t.at] = @ \cup {"join"} \X S]

DoesNotMeet(t) == notify' = [notify EXCEPT ![t.at] = @ \ {<<"join", t.node>>}]

AddMember(t) ==
    /\ MayMeet(t)
    /\ members' = [members EXCEPT ![t.at] = @ \cup ({t.node} \ {t.at})]
    /\ healthy' = [healthy EXCEPT ![t.at] = @ \ {t.node}]
    /\ ring' = [ring EXCEPT ![t.at] = @ \cup {t.node}]

AddClusterNode(t) == addr' = [addr EXCEPT ![t.at] = @ \cup {t.node}]
RemoveClusterNode(t) == addr' = [addr EXCEPT ![t.at] = @ \ {t.node}]

(* GetAllData, of the local cache *)
Snapshot(t) == Replace(t, [t EXCEPT !.pc = "move", !.data = store[t.at]])

(* AddNodeToCluster, up to the migration: clusterNodes is left alone. *)
AddNodeToCluster(t) ==
    /\ t.kind = "join" /\ t.pc = "wait" /\ CcFree(t.at)
    /\ AddMember(t)
    /\ Snapshot(t)
    /\ SpoilCall
    /\ UNCHANGED <<order, phase, addr, store, callVars, acked, overtaken, faults>>

(* Mutant: the broadcast is handled under the coordinator's mutex. *)
SyncAddNodeLocked(t) ==
    /\ t.kind = "sync-add" /\ t.pc = "wait" /\ CcFree(t.at)
    /\ AddMember(t)
    /\ AddClusterNode(t)
    /\ Snapshot(t)
    /\ SpoilCall
    /\ UNCHANGED <<order, phase, store, callVars, acked, overtaken, faults>>

(* SyncAddNode, up to the migration: no mutex *)
SyncAddNode(t) ==
    /\ t.kind = "sync-add" /\ t.pc = "wait"
    /\ AddMember(t)
    /\ AddClusterNode(t)
    /\ Snapshot(t)
    /\ SpoilCall
    /\ UNCHANGED <<order, phase, store, callVars, acked, overtaken, faults>>

(***************************************************************************)
(* performNetworkDataMigration, key by key: a key that the new node owns   *)
(* is put there, and deleted here when the put has been answered.  One     *)
(* that could not be put stays.                                            *)
(***************************************************************************)
Moves(t, k) == k \in DOMAIN t.data /\ t.moved = {} /\ Owner(k, ring[t.at]) = t.node

SkipKey(t, k) ==
    /\ t.pc = "move" /\ k \in DOMAIN t.data /\ t.moved = {}
    /\ Owner(k, ring[t.at]) # t.node \/ t.node \notin Up
    /\ Replace(t, [t EXCEPT !.data = Without(@, k)])
    /\ UNCHANGED <<order, nodeVars, store, notify, callVars, history>>

migrateKeyToNode(t, k) ==
    /\ t.pc = "move" /\ Moves(t, k) /\ t.node \in Up
    /\ store' = [store EXCEPT ![t.node] = With(@, k, t.data[k])]
    /\ Replace(t, [t EXCEPT !.data = Without(@, k), !.moved = {k}])
    /\ UNCHANGED <<order, nodeVars, notify, callVars, history>>

(* Mutant: the key is deleted although the put has failed. *)
PutFailsDeleted(t, k) ==
    /\ t.pc = "move" /\ Moves(t, k) /\ MayHappen
    /\ store' = [store EXCEPT ![t.at] = Without(@, k)]
    /\ Replace(t, [t EXCEPT !.data = Without(@, k)])
    /\ faults' = faults + 1
    /\ UNCHANGED <<order, nodeVars, notify, callVars, acked, spoiled, overtaken>>

(* The put is not answered: it was lost, or executed all the same. *)
PutFails(t, k) ==
    /\ t.pc = "move" /\ Moves(t, k) /\ MayHappen
    /\ store' \in {store, [store EXCEPT ![t.node] =
                                IF t.node \in Up THEN With(@, k, t.data[k]) ELSE @]}
    /\ Replace(t, [t EXCEPT !.data = Without(@, k)])
    /\ faults' = faults + 1
    /\ UNCHANGED <<order, nodeVars, notify, callVars, acked, spoiled, overtaken>>

(* Mutant: the key is left here. *)
DeleteNothing(t, k) ==
    /\ t.pc = "move" /\ k \in t.moved
    /\ Replace(t, [t EXCEPT !.moved = {}])
    /\ UNCHANGED <<order, nodeVars, store, notify, callVars, history>>

(* A node that is told of its own join puts its keys to itself first. *)
DeleteMoved(t, k) ==
    /\ t.pc = "move" /\ k \in t.moved
    /\ store' = [store EXCEPT ![t.at] = Without(@, k)]
    /\ Replace(t, [t EXCEPT !.moved = {}])
    /\ spoiled' = IF t.at = t.node THEN spoiled \cup {k} ELSE spoiled
    /\ UNCHANGED <<order, nodeVars, notify, callVars, acked, overtaken, faults>>

(* GetNodes, of the cluster manager, and those a change is broadcast to *)
GetNodes(n) == members[n]
broadcastTargets(n) == GetNodes(n) \cap healthy[n]

(* The end of the migration: a coordinator goes on to the broadcast. *)
EndMigration(t) ==
    /\ t.pc = "move" /\ DOMAIN t.data = {} /\ t.moved = {}
    /\ IF t.kind = "join"
       THEN Replace(t, [t EXCEPT !.pc = "broadcast", !.targets = broadcastTargets(t.at)])
       ELSE Reply(t)
    /\ UNCHANGED <<order, nodeVars, store, notify, callVars, history>>

(***************************************************************************)
(* RemoveNodeFromCluster and SyncRemoveNode.  For a node that is not on    *)
(* the ring they return an error before anything else.                     *)
(***************************************************************************)
(* Mutant: the node stays on the ring. *)
RemoveMemberOnly(t) ==
    /\ DoesNotMeet(t)
    /\ members' = [members EXCEPT ![t.at] = @ \ {t.node}]
    /\ healthy' = [healthy EXCEPT ![t.at] = @ \ {t.node}]
    /\ UNCHANGED ring

RemoveMember(t) ==
    /\ DoesNotMeet(t)
    /\ ring' = [ring EXCEPT ![t.at] = @ \ {t.node}]
    /\ members' = [members EXCEPT ![t.at] = @ \ {t.node}]
    /\ healthy' = [healthy EXCEPT ![t.at] = @ \ {t.node}]

RemoveNodeFromCluster(t) ==
    /\ t.kind = "leave" /\ t.pc = "wait" /\ CcFree(t.at)
    /\ IF t.node \in ring[t.at]
       THEN /\ RemoveMember(t)
            /\ Replace(t, [t EXCEPT !.pc = "broadcast", !.targets = broadcastTargets(t.at) \ {t.node}])
       ELSE Reply(t) /\ UNCHANGED <<ring, members, healthy, notify>>
    /\ SpoilCall
    /\ UNCHANGED <<order, phase, addr, store, callVars, acked, overtaken, faults>>

SyncRemoveNode(t) ==
    /\ t.kind = "sync-remove"
    /\ IF t.node \in ring[t.at]
       THEN RemoveMember(t) /\ RemoveClusterNode(t)
       ELSE UNCHANGED <<ring, members, healthy, addr, notify>>
    /\ Reply(t)
    /\ SpoilCall
    /\ UNCHANGED <<order, phase, store, callVars, acked, overtaken, faults>>

(***************************************************************************)
(* broadcastNodeChange: one target after the other, each answered, down or *)
(* timed out before the next.                                              *)
(***************************************************************************)
SyncKind(t) == IF t.kind = "join" THEN "sync-add" ELSE "sync-remove"

Answered(t) ==
    \A u \in tasks : ~(u.kind = SyncKind(t) /\ u.from = t.at /\ u.node = t.node /\ u.heard)

sendNodeChangeRequest(t, m) ==
    /\ t.pc = "broadcast" /\ Answered(t) /\ m \in t.targets
    /\ tasks' = (tasks \ {t}) \cup {[t EXCEPT !.targets = @ \ {m}]}
                  \cup {Task(SyncKind(t), u, t.node, t.at) : u \in {m} \cap Up}
    /\ UNCHANGED <<order, nodeVars, store, notify, callVars, history>>

EndBroadcast(t) ==
    /\ t.pc = "broadcast" /\ Answered(t) /\ t.targets = {}
    /\ Reply(t)
    /\ UNCHANGED <<order, nodeVars, store, notify, callVars, history>>

(* The sender of a request gives up: it was lost, or it is handled later. *)
TimesOut(t) ==
    /\ t.heard /\ MayHappen
    /\ tasks' \in {(tasks \ {t}) \cup {[t EXCEPT !.heard = FALSE]}}
                    \cup {tasks \ {u} : u \in {v \in {t} : v.pc = "wait"}}
    /\ faults' = faults + 1
    /\ UNCHANGED <<order, nodeVars, store, notify, callVars, acked, spoiled, overtaken>>

-----------------------------------------------------------------------------
TaskStep(t) ==
    \/ AddNodeToCluster(t) \/ RemoveNodeFromCluster(t) \/ SyncAddNode(t) \/ SyncRemoveNode(t)
    \/ \E k \in Key : SkipKey(t, k) \/ migrateKeyToNode(t, k) \/ DeleteMoved(t, k)
    \/ EndMigration(t) \/ EndBroadcast(t)
    \/ \E m \in Node : sendNodeChangeRequest(t, m)

Notifies(n) == \E m \in Node : notifyNodeJoin(n, m) \/ notifyNodeLeave(n, m)

Next ==
    \/ \E n \in Node : \/ \E r \in Requests : Route(n, r)
                       \/ ForwardFails(n) \/ performHealthCheck(n) \/ Notifies(n)
                       \/ Start(n) \/ Leave(n) \/ Exit(n) \/ Crash(n)
    \/ Execute \/ CallFails
    \/ \E t \in tasks : TaskStep(t) \/ TimesOut(t) \/ \E k \in Key : PutFails(t, k)

Spec == Init /\ [][Next]_vars

-----------------------------------------------------------------------------
(***************************************************************************)
(* Nothing is changing, there was no fault, every node that crashed has    *)
(* been started again, and no node left in the middle of its announcement. *)
(***************************************************************************)
Settled ==
    /\ tasks = {} /\ call = NoCall /\ faults = 0 /\ ~overtaken
    /\ \A n \in Node : notify[n] = {} /\ phase[n] \in {"running", "down"}

(***************************************************************************)
(* One node comes and goes, and the configurations are right: it is        *)
(* configured with all nodes, the others with those that run.              *)
(***************************************************************************)
OnlyMoves(c) ==
    /\ Movable \subseteq {c} /\ Fresh = {} /\ Running \in {Node, Node \ {c}}
    /\ Config[c] = Node /\ \A m \in Node \ {c} : Config[m] = Running

(***************************************************************************)
(* A value whose write was completed outside a change is held by a running *)
(* node, at every moment of every migration and whatever puts and answers  *)
(* are lost: nothing is deleted before its copy has arrived.  (Excepted: a *)
(* key whose node left or crashed, and a key of a node that was told of    *)
(* its own join.)                                                          *)
(***************************************************************************)
CopySurvives ==
    \A k \in DOMAIN acked \ spoiled :
        \E n \in Up : k \in DOMAIN store[n] /\ store[n][k] = acked[k]

(***************************************************************************)
(* Once settled, all running nodes have the same ring, that of the running *)
(* nodes: also after a node has left and come back, or crashed and come    *)
(* back to members that never removed it.                                  *)
(***************************************************************************)
ViewsConverge ==
    Settled => \A n \in Up : ring[n] = Up

(***************************************************************************)
(* Then every such key is on its owner and nowhere else: not lost, not     *)
(* left behind by a migration, not brought back after it was deleted.      *)
(***************************************************************************)
OwnerHoldsKey ==
    Settled =>
        \A k \in Key \ spoiled, n \in Up :
            k \in DOMAIN store[n] <=> k \in DOMAIN acked /\ n = Owner(k, Up)

(***************************************************************************)
(* Once settled, a completed write can be read through every running node: *)
(* it forwards to the owner.                                               *)
(***************************************************************************)
ReadableEverywhere ==
    Settled =>
        \A k \in DOMAIN acked \ spoiled, n \in Up : Get(n, k)

(***************************************************************************)
(* The nodes never wait for each other in a circle: while a request is     *)
(* being handled, some request can go on, with no timeout to help.  The    *)
(* coordinators broadcast to each other with their mutexes held.           *)
(***************************************************************************)
NoCircularWait == tasks # {} => \E t \in tasks : ENABLED TaskStep(t)
=============================================================================
