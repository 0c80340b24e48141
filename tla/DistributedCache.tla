-------------------------- MODULE DistributedCache --------------------------
(***************************************************************************)
(* core/distributed_cache.go: the consistent-hash ring, one LRU cache per  *)
(* node, and the migration of data when a node is added or removed.        *)
(*                                                                         *)
(* dc.Mu is a readers-writer lock.  A client call takes it for reading     *)
(* twice, once to route the key (GetNodeForKey) and once to fetch the      *)
(* node's cache from LocalCaches, and uses that cache after the lock is    *)
(* released; AddNode and RemoveNode hold it for writing from beginning to  *)
(* end.  A call that has fetched its cache can therefore run between any   *)
(* two steps of a migration, and a change of nodes can happen between the  *)
(* steps of a call.                                                        *)
(*                                                                         *)
(* A hash is a position on the ring.  Where SHA-1 puts the keys and the    *)
(* virtual nodes is chosen once, in Init.  The caches are maps from keys   *)
(* to values: the caches made here have no TTL and no memory limit, and    *)
(* eviction from one that is full (1000 entries) is the subject of         *)
(* LRUCache.tla.  A cache is named by its place in the order of creation,  *)
(* so that a caller can keep one that has been replaced or removed.        *)
(***************************************************************************)
EXTENDS Integers, Sequences, FiniteSets, FiniteSetsExt, Functions, GoMap

CONSTANTS
    Node, Key, Value, Client,
    Layouts,     \* the hashes: [key : [Key -> Nat], vnodes : [Node -> SUBSET Nat]]
    Start,       \* the node lists NewDistributedCache may be given
    ReAdd,       \* AddNode may be called for a node that is a member
    MaxCaches,   \* bound: caches ever created
    NoNode       \* the empty string: no node has this name

ASSUME LayoutsAssumption ==
    \A l \in Layouts : /\ l \in [key : [Key -> Nat], vnodes : [Node -> SUBSET Nat]]
                       /\ \A n \in Node : l.vnodes[n] # {} /\ IsFiniteSet(l.vnodes[n])
ASSUME StartAssumption ==
    \A s \in Start : s \in Seq(Node) /\ \A i, j \in 1 .. Len(s) : s[i] = s[j] => i = j
ASSUME ReAddAssumption == ReAdd \in BOOLEAN
ASSUME MaxCachesAssumption == MaxCaches \in Nat
ASSUME NoNodeAssumption == NoNode \notin Node

VARIABLES
    layout,         \* where hashKey puts the keys and the virtual nodes
    HashRing,       \* position -> node
    SortedHashes,   \* the positions (sorted in the code, repetitions do not matter)
    Nodes,          \* the node list
    LocalCaches,    \* node -> its cache
    caches,         \* the caches in the order of their creation
    change,         \* the AddNode or RemoveNode that holds Mu
    thread,         \* the call each client is in
    MigratedKeys,   \* BasicMigrationStats.MigratedKeys
    acked,          \* history: what the completed writes add up to
    racing          \* history: keys with a write in flight when a change began

ringVars == <<HashRing, SortedHashes, Nodes, LocalCaches>>
vars == <<layout, HashRing, SortedHashes, Nodes, LocalCaches, caches, change, thread,
          MigratedKeys, acked, racing>>

Requests == [op : {"Set"}, key : Key, val : Value] \cup [op : {"Get", "Delete"}, key : Key]

NoChange == [op |-> "none"]
NoCall == [pc |-> "idle"]

MuFree == change = NoChange

-----------------------------------------------------------------------------
(***************************************************************************)
(* The ring.  Successor is the binary search: the first position at or     *)
(* after h, or the first of all.  A lookup that finds nothing is "".       *)
(***************************************************************************)
Successor(h, hashes) ==
    LET after == {p \in hashes : p >= h}
    IN  Min(IF after = {} THEN hashes ELSE after)

NodeAt(ring, hashes, h) ==
    LET p == Successor(h, hashes) IN IF p \in DOMAIN ring THEN ring[p] ELSE NoNode

(* Mutant: the node is taken from the list by the hash modulo its length. *)
getNodeByModulo(k) == Nodes[(layout.key[k] % Len(Nodes)) + 1]

getNodeForKeyUnsafe(k) == NodeAt(HashRing, SortedHashes, layout.key[k])

addNodeToHashRing(ring, n) ==
    [p \in DOMAIN ring \cup layout.vnodes[n] |-> IF p \in layout.vnodes[n] THEN n ELSE ring[p]]

(* Mutant: only the first virtual node is removed. *)
removeNodeFromHashRingOnce(ring, n) ==
    Restrict(ring, DOMAIN ring \ {Min({p \in DOMAIN ring : ring[p] = n})})

removeNodeFromHashRing(ring, n) == Restrict(ring, {p \in DOMAIN ring : ring[p] # n})

(***************************************************************************)
(* buildHashRing adds the nodes in the order of the list: on a position    *)
(* that several of them hash to, the last one wins.                        *)
(***************************************************************************)
buildHashRing(nodes, vnodes) ==
    [p \in UNION {vnodes[nodes[i]] : i \in 1 .. Len(nodes)} |->
        nodes[Max({i \in 1 .. Len(nodes) : p \in vnodes[nodes[i]]})]]

Init ==
    /\ layout \in Layouts
    /\ Nodes \in Start
    /\ HashRing = buildHashRing(Nodes, layout.vnodes)
    /\ SortedHashes = DOMAIN HashRing
    /\ LocalCaches = [n \in Range(Nodes) |-> CHOOSE i \in 1 .. Len(Nodes) : Nodes[i] = n]
    /\ caches = [i \in 1 .. Len(Nodes) |-> EmptyMap]
    /\ change = NoChange
    /\ thread = [c \in Client |-> NoCall]
    /\ MigratedKeys = 0
    /\ acked = EmptyMap
    /\ racing = {}

-----------------------------------------------------------------------------
(***************************************************************************)
(* Set, Get and Delete: route the key, fetch the cache, use it.  On an     *)
(* empty ring the routing panics; the deferred unlock leaves no trace.     *)
(***************************************************************************)
GetNodeForKey(c, r) ==
    /\ thread[c] = NoCall /\ MuFree
    /\ SortedHashes # {}
    /\ thread' = [thread EXCEPT ![c] =
                    [pc |-> "routed", req |-> r, node |-> getNodeForKeyUnsafe(r.key)]]
    /\ UNCHANGED <<layout, ringVars, caches, change, MigratedKeys, acked, racing>>

CallPanics(c) ==
    /\ thread[c] = NoCall /\ MuFree
    /\ SortedHashes = {}
    /\ UNCHANGED vars

(* Mutant: a node that has gone is waited for. *)
FetchCacheWaits(c) ==
    /\ thread[c].pc = "routed" /\ MuFree
    /\ thread[c].node \in DOMAIN LocalCaches
    /\ thread' = [thread EXCEPT ![c] = [pc |-> "fetched", req |-> thread[c].req,
                                        cache |-> LocalCaches[thread[c].node]]]
    /\ UNCHANGED <<layout, ringVars, caches, change, MigratedKeys, acked, racing>>

FetchCache(c) ==
    /\ thread[c].pc = "routed" /\ MuFree
    /\ thread' = [thread EXCEPT ![c] =
                    IF thread[c].node \in DOMAIN LocalCaches
                    THEN [pc |-> "fetched", req |-> thread[c].req,
                          cache |-> LocalCaches[thread[c].node]]
                    ELSE NoCall]
    /\ UNCHANGED <<layout, ringVars, caches, change, MigratedKeys, acked, racing>>

UseCache(c) ==
    /\ thread[c].pc = "fetched"
    /\ LET r == thread[c].req
           Effect(m) == CASE r.op = "Set" -> With(m, r.key, r.val)
                          [] r.op = "Delete" -> Without(m, r.key)
                          [] r.op = "Get" -> m
       IN  /\ caches' = [caches EXCEPT ![thread[c].cache] = Effect(@)]
           /\ acked' = Effect(acked)
    /\ thread' = [thread EXCEPT ![c] = NoCall]
    /\ UNCHANGED <<layout, ringVars, change, MigratedKeys, racing>>

-----------------------------------------------------------------------------
(***************************************************************************)
(* AddNode and RemoveNode, up to the first use of a cache.                 *)
(***************************************************************************)
WritesInFlight ==
    {thread[c].req.key : c \in {d \in Client : thread[d] # NoCall /\ thread[d].req.op # "Get"}}

(* Mutant: the node is given no cache. *)
AddNodeNoCache(n) ==
    /\ MuFree
    /\ ReAdd \/ n \notin DOMAIN LocalCaches
    /\ Len(caches) < MaxCaches
    /\ Nodes' = Append(Nodes, n)
    /\ LocalCaches' = With(LocalCaches, n, Len(caches) + 1)
    /\ HashRing' = addNodeToHashRing(HashRing, n)
    /\ SortedHashes' = SortedHashes \cup layout.vnodes[n]
    /\ change' = NoChange
    /\ racing' = racing \cup WritesInFlight
    /\ UNCHANGED <<layout, caches, thread, MigratedKeys, acked>>

(* Mutant: the ring is changed, the sorted list is not. *)
AddNodeUnsorted(n) ==
    /\ MuFree
    /\ ReAdd \/ n \notin DOMAIN LocalCaches
    /\ Len(caches) < MaxCaches
    /\ Nodes' = Append(Nodes, n)
    /\ caches' = Append(caches, EmptyMap)
    /\ LocalCaches' = With(LocalCaches, n, Len(caches'))
    /\ HashRing' = addNodeToHashRing(HashRing, n)
    /\ change' = [op |-> "AddNode", node |-> n, old |-> SortedHashes,
                  todo |-> {p \in DOMAIN HashRing' : HashRing'[p] = n},
                  from |-> 0, data |-> EmptyMap, moved |-> {}, count |-> 0]
    /\ racing' = racing \cup WritesInFlight
    /\ UNCHANGED <<layout, SortedHashes, thread, MigratedKeys, acked>>

AddNode(n) ==
    /\ MuFree
    /\ ReAdd \/ n \notin DOMAIN LocalCaches
    /\ Len(caches) < MaxCaches
    /\ Nodes' = Append(Nodes, n)
    /\ caches' = Append(caches, EmptyMap)
    /\ LocalCaches' = With(LocalCaches, n, Len(caches) + 1)
    /\ HashRing' = addNodeToHashRing(HashRing, n)
    /\ SortedHashes' = SortedHashes \cup layout.vnodes[n]
    /\ change' = [op |-> "AddNode", node |-> n, old |-> SortedHashes,
                  todo |-> {p \in DOMAIN HashRing' : HashRing'[p] = n},
                  from |-> 0, data |-> EmptyMap, moved |-> {}, count |-> 0]
    /\ racing' = racing \cup WritesInFlight
    /\ UNCHANGED <<layout, thread, MigratedKeys, acked>>

removeNodeFromNodes(nodes, n) ==
    LET i == Min({j \in 1 .. Len(nodes) : nodes[j] = n})
    IN  SubSeq(nodes, 1, i - 1) \o SubSeq(nodes, i + 1, Len(nodes))

(***************************************************************************)
(* GetAllData of a node's cache: none of its entries has a TTL.            *)
(***************************************************************************)
getAllDataFromCache(n) == caches[LocalCaches[n]]

(***************************************************************************)
(* For a node that is not a member RemoveNode returns an error and changes *)
(* nothing.  With the last position of the ring all data is given up.      *)
(***************************************************************************)
RemoveNode(n) ==
    /\ MuFree
    /\ n \in DOMAIN LocalCaches
    /\ Nodes' = removeNodeFromNodes(Nodes, n)
    /\ LocalCaches' = Without(LocalCaches, n)
    /\ HashRing' = removeNodeFromHashRing(HashRing, n)
    /\ SortedHashes' = SortedHashes \cap DOMAIN HashRing'
    /\ change' = [op |-> "RemoveNode", node |-> n, old |-> {}, todo |-> {}, from |-> 0,
                  data |-> getAllDataFromCache(n), moved |-> {}, count |-> 0]
    /\ racing' = racing \cup WritesInFlight
    /\ acked' = IF SortedHashes' = {} THEN EmptyMap ELSE acked
    /\ UNCHANGED <<layout, caches, thread, MigratedKeys>>

-----------------------------------------------------------------------------
(* Mutant: the new list of positions is searched. *)
findResponsibleNodeInNewRing(p) == NodeAt(HashRing, SortedHashes, p)

(***************************************************************************)
(* migrateDataForAddedNode, for the virtual node at p: find the node that  *)
(* was responsible for p (in the old list of positions, but in the ring as *)
(* it is now), take all its data, and move what now belongs to the new     *)
(* node, one key at a time: first set, then delete.                        *)
(***************************************************************************)
findResponsibleNodeInOldRing(p) ==
    IF change.old = {} THEN NoNode ELSE NodeAt(HashRing, change.old, p)

NothingPending == DOMAIN change.data = {} /\ change.moved = {}

ScanVirtualNode(p) ==
    /\ change.op = "AddNode" /\ NothingPending
    /\ p \in change.todo
    /\ LET old == findResponsibleNodeInOldRing(p)
       IN  change' = IF old \in DOMAIN LocalCaches \ {change.node}
                     THEN [change EXCEPT
                             !.todo = @ \ {p},
                             !.from = LocalCaches[old],
                             !.data = RestrictDomain(getAllDataFromCache(old),
                                        LAMBDA k : getNodeForKeyUnsafe(k) = change.node)]
                     ELSE [change EXCEPT !.todo = @ \ {p}]
    /\ UNCHANGED <<layout, ringVars, caches, thread, MigratedKeys, acked, racing>>

MigrateSet(k) ==
    /\ change.op = "AddNode" /\ change.moved = {}
    /\ k \in DOMAIN change.data
    /\ caches' = [caches EXCEPT ![LocalCaches[change.node]] = With(@, k, change.data[k])]
    /\ change' = [change EXCEPT !.data = Without(@, k), !.moved = {k}]
    /\ UNCHANGED <<layout, ringVars, thread, MigratedKeys, acked, racing>>

(* Mutant: the old copy is kept. *)
MigrateDeleteNothing(k) ==
    /\ change.op = "AddNode"
    /\ k \in change.moved
    /\ change' = [change EXCEPT !.moved = {}, !.count = @ + 1]
    /\ UNCHANGED <<layout, ringVars, caches, thread, MigratedKeys, acked, racing>>

MigrateDelete(k) ==
    /\ change.op = "AddNode"
    /\ k \in change.moved
    /\ caches' = [caches EXCEPT ![change.from] = Without(@, k)]
    /\ change' = [change EXCEPT !.moved = {}, !.count = @ + 1]
    /\ UNCHANGED <<layout, ringVars, thread, MigratedKeys, acked, racing>>

(***************************************************************************)
(* redistributeDataBasic, for one key.  On an empty ring it panics, and    *)
(* RemoveNode ends without its statistics.                                 *)
(***************************************************************************)
redistributeDataBasic(k) ==
    /\ change.op = "RemoveNode"
    /\ k \in DOMAIN change.data
    /\ SortedHashes # {}
    /\ LET target == getNodeForKeyUnsafe(k)
       IN  IF target \in DOMAIN LocalCaches
           THEN /\ caches' = [caches EXCEPT ![LocalCaches[target]] = With(@, k, change.data[k])]
                /\ change' = [change EXCEPT !.data = Without(@, k), !.count = @ + 1]
           ELSE /\ change' = [change EXCEPT !.data = Without(@, k)]
                /\ UNCHANGED caches
    /\ UNCHANGED <<layout, ringVars, thread, MigratedKeys, acked, racing>>

(* Mutant: the unlock is not deferred. *)
RedistributePanicsLocked ==
    /\ change.op = "RemoveNode"
    /\ DOMAIN change.data # {} /\ SortedHashes = {}
    /\ UNCHANGED vars

RedistributePanics ==
    /\ change.op = "RemoveNode"
    /\ DOMAIN change.data # {} /\ SortedHashes = {}
    /\ change' = NoChange
    /\ UNCHANGED <<layout, ringVars, caches, thread, MigratedKeys, acked, racing>>

(* updateBasicMigrationStats, and the unlock *)
EndChange ==
    /\ ~MuFree /\ change.todo = {} /\ NothingPending
    /\ MigratedKeys' = MigratedKeys + change.count
    /\ change' = NoChange
    /\ UNCHANGED <<layout, ringVars, caches, thread, acked, racing>>

-----------------------------------------------------------------------------
Call(c) == (\E r \in Requests : GetNodeForKey(c, r)) \/ CallPanics(c)

MigrationStep ==
    \/ \E p \in DOMAIN HashRing : ScanVirtualNode(p)
    \/ \E k \in Key : MigrateSet(k) \/ MigrateDelete(k) \/ redistributeDataBasic(k)
    \/ RedistributePanics
    \/ EndChange

Next ==
    \/ \E c \in Client : Call(c) \/ FetchCache(c) \/ UseCache(c)
    \/ \E n \in Node : AddNode(n) \/ RemoveNode(n)
    \/ MigrationStep

Spec == Init /\ [][Next]_vars

(***************************************************************************)
(* A goroutine that can run does, and one that waits to read-lock Mu gets  *)
(* it: the Unlock of a writer admits the waiting readers before the next   *)
(* writer.  Nobody has to call anything.                                   *)
(***************************************************************************)
Fairness ==
    /\ \A c \in Client : SF_vars(FetchCache(c)) /\ WF_vars(UseCache(c))
    /\ WF_vars(MigrationStep)

FairSpec == Spec /\ Fairness

-----------------------------------------------------------------------------
(***************************************************************************)
(* The type invariant.                                                     *)
(***************************************************************************)
IsCacheMap(m) == DOMAIN m \subseteq Key /\ m \in [DOMAIN m -> Value]

CallOK(t) ==
    \/ t = NoCall
    \/ t \in [pc : {"routed"}, req : Requests, node : Node]
    \/ t \in [pc : {"fetched"}, req : Requests, cache : 1 .. Len(caches)]

ChangeOK ==
    \/ change = NoChange
    \/ /\ change \in [op : {"AddNode", "RemoveNode"}, node : Node, old : SUBSET Nat,
                       todo : SUBSET Nat, from : 0 .. Len(caches),
                       data : [DOMAIN change.data -> Value], moved : SUBSET Key, count : Nat]
       /\ DOMAIN change.data \subseteq Key

TypeOK ==
    /\ layout \in Layouts
    /\ DOMAIN HashRing \subseteq Nat /\ HashRing \in [DOMAIN HashRing -> Node]
    /\ SortedHashes \subseteq Nat
    /\ Nodes \in Seq(Node)
    /\ caches \in Seq(UNION {[D -> Value] : D \in SUBSET Key})
    /\ DOMAIN LocalCaches \subseteq Node
    /\ LocalCaches \in [DOMAIN LocalCaches -> 1 .. Len(caches)]
    /\ ChangeOK
    /\ DOMAIN thread = Client /\ \A c \in Client : CallOK(thread[c])
    /\ MigratedKeys \in Nat
    /\ IsCacheMap(acked)
    /\ racing \subseteq Key

(***************************************************************************)
(* The ring routes to members only: every sorted hash is on the ring, the  *)
(* node found there has a cache, and the node list names the nodes that    *)
(* have one, each once.  Routing relies on all of it without checking      *)
(* (getNodeForKeyUnsafe, redistributeDataBasic), while AddNode and         *)
(* RemoveNode update the four structures one after the other.              *)
(***************************************************************************)
RingServesMembers ==
    /\ SortedHashes = DOMAIN HashRing
    /\ \A p \in DOMAIN HashRing : HashRing[p] \in DOMAIN LocalCaches
    /\ \A n \in DOMAIN LocalCaches : \E i \in 1 .. Len(Nodes) : Nodes[i] = n
    /\ \A i \in 1 .. Len(Nodes) : Nodes[i] \in DOMAIN LocalCaches
    /\ \A i, j \in 1 .. Len(Nodes) : Nodes[i] = Nodes[j] => i = j

(***************************************************************************)
(* The ring that additions and removals have left is the one that          *)
(* buildHashRing would build from the node list: the two incremental       *)
(* operations never drift from the constructor.  It needs that no two      *)
(* virtual nodes have the same hash.                                       *)
(***************************************************************************)
RingIsRebuilt == HashRing = buildHashRing(Nodes, layout.vnodes)

(***************************************************************************)
(* Consistent hashing: a change of nodes moves a key to the node that is   *)
(* added or away from the node that is removed, and no other key.          *)
(***************************************************************************)
MinimalDisruption ==
    [][\A k \in Key :
        LET before == getNodeForKeyUnsafe(k)
            after  == getNodeForKeyUnsafe(k)'
        IN  SortedHashes # {} /\ SortedHashes' # {} /\ before # after =>
                \/ change'.op = "AddNode" /\ after = change'.node
                \/ change'.op = "RemoveNode" /\ before = change'.node]_vars

-----------------------------------------------------------------------------
Quiet == MuFree /\ SortedHashes # {}

Agrees(k) ==
    LET m == caches[LocalCaches[getNodeForKeyUnsafe(k)]]
    IN  /\ k \in DOMAIN m <=> k \in DOMAIN acked
        /\ k \in DOMAIN m => m[k] = acked[k]

(***************************************************************************)
(* Between changes of nodes, the cache a key is routed to holds what the   *)
(* completed Sets and Deletes of the key add up to, for every key that had *)
(* no write in flight when a change began: a migration neither loses a     *)
(* value, nor brings back a deleted or overwritten one, nor leaves it      *)
(* where it is not looked for.                                             *)
(***************************************************************************)
UnracedWritesSurvive == Quiet => \A k \in Key \ racing : Agrees(k)

(***************************************************************************)
(* The same for every key: what the README calls safe under concurrency.   *)
(***************************************************************************)
CompletedWritesSurvive == Quiet => \A k \in Key : Agrees(k)

(***************************************************************************)
(* Between changes, a key with no raced write is in no other cache than    *)
(* the one it is routed to.  A copy left elsewhere is not read, but the    *)
(* removal of its node would write it over the current value.              *)
(***************************************************************************)
OneCopy ==
    Quiet => \A k \in Key \ racing, n \in DOMAIN LocalCaches :
        k \in DOMAIN caches[LocalCaches[n]] => n = getNodeForKeyUnsafe(k)

(***************************************************************************)
(* MigratedKeys grows by the number of keys the new node has received,     *)
(* however many of its virtual nodes took keys from the same old node.     *)
(***************************************************************************)
CountsWhatMoved ==
    [][change.op = "AddNode" /\ MuFree' /\ racing = {} =>
           MigratedKeys' - MigratedKeys
               = Cardinality(DOMAIN caches[LocalCaches[change.node]])]_vars

(***************************************************************************)
(* Every call returns, on the error path too, whatever happens to its node *)
(* meanwhile.                                                              *)
(***************************************************************************)
CallsReturn == \A c \in Client : (thread[c] # NoCall) ~> (thread[c] = NoCall)

(***************************************************************************)
(* Every change of nodes ends and gives up the lock, although calls that   *)
(* had fetched their caches go on changing them.                           *)
(***************************************************************************)
ChangesEnd == (~MuFree) ~> MuFree
=============================================================================
