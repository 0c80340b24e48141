-------------------------------- MODULE LRU --------------------------------
(***************************************************************************)
(* The data structure of core/lrucache.go as pure operators on one record. *)
(* LRUCache.tla runs it behind its mutex.                                  *)
(*                                                                         *)
(*   order   the doubly linked list between the two sentinels, as the      *)
(*           sequence of its keys, most recently used first                *)
(*   val     the hash table, key -> value                                  *)
(*   size    the counter lru.size                                          *)
(*   mem     lru.memoryUsage                                               *)
(*   ttl     lru.ttlMap, key -> time LEFT until the deadline; -1 once the  *)
(*           deadline has passed (Tick moves every entry)                  *)
(*   hits, misses, total   lru.stats                                       *)
(***************************************************************************)
EXTENDS Integers, Sequences, FiniteSets, Functions, GoMap

CONSTANTS
    Key, Value,
    KeyLen,       \* [Key -> Nat]: len(key)
    ValueLen,     \* [Value -> Nat]: len(value)
    Capacity,     \* lru.capacity
    MemoryLimit   \* lru.memoryLimit, 0 = no limit

ASSUME KeyLenAssumption == KeyLen \in [Key -> Nat]
ASSUME ValueLenAssumption == ValueLen \in [Value -> Nat]
ASSUME CapacityAssumption == Capacity \in Nat \ {0}
ASSUME MemoryLimitAssumption == MemoryLimit \in Nat

-----------------------------------------------------------------------------
calculateMemoryUsage(k, v) == KeyLen[k] + ValueLen[v] + 64

(***************************************************************************)
(* The sum of calculateMemoryUsage over the entries of a map, counted as   *)
(* the set of its bytes: byte b of the entry of key k is <<k, b>>.         *)
(***************************************************************************)
EntryBytes(k, v) == {k} \X (1 .. calculateMemoryUsage(k, v))
Bytes(m) == Cardinality(UNION {EntryBytes(k, m[k]) : k \in DOMAIN m})

NewLRUCache ==
    [order |-> <<>>, val |-> EmptyMap, size |-> 0, mem |-> 0, ttl |-> EmptyMap,
     hits |-> 0, misses |-> 0, total |-> 0]

(***************************************************************************)
(* The linked list.                                                        *)
(***************************************************************************)
addToHead(s, k) == <<k>> \o s

removeNode(s, k) ==
    LET i == CHOOSE j \in 1 .. Len(s) : s[j] = k
    IN  SubSeq(s, 1, i - 1) \o SubSeq(s, i + 1, Len(s))

moveToHead(s, k) == addToHead(removeNode(s, k), k)

-----------------------------------------------------------------------------
(***************************************************************************)
(* time.Now().After(ttlMap[k])                                             *)
(***************************************************************************)
Expired(c, k) == k \in DOMAIN c.ttl /\ c.ttl[k] < 0

(***************************************************************************)
(* The eviction loop of SetInternal.  When n nodes are left in the list,   *)
(* Keep(c, n) is the hash table, and MustEvict says whether the loop runs  *)
(* once more; KeptCount is the number of nodes it stops at.                *)
(***************************************************************************)
Keep(c, n) == Restrict(c.val, {c.order[i] : i \in 1 .. n})
Evicted(c, n) == Restrict(c.val, {c.order[i] : i \in n + 1 .. Len(c.order)})

(* Mutant: the loop looks at the usage before the insertion. *)
MustEvictLate(c, n, newMemory) ==
    LET size == c.size - (Len(c.order) - n)
        mem  == c.mem - Bytes(Evicted(c, n))
    IN  /\ size # 0
        /\ \/ MemoryLimit > 0 /\ mem > MemoryLimit
           \/ size >= Capacity

(* Mutant: the loop makes room for one entry too many. *)
MustEvictEarly(c, n, newMemory) ==
    LET size == c.size - (Len(c.order) - n)
        mem  == c.mem - Bytes(Evicted(c, n))
    IN  /\ size # 0
        /\ \/ MemoryLimit > 0 /\ mem + newMemory > MemoryLimit
           \/ size + 1 >= Capacity

MustEvict(c, n, newMemory) ==
    LET size == c.size - (Len(c.order) - n)
        mem  == c.mem - Bytes(Evicted(c, n))
    IN  /\ size # 0
        /\ \/ MemoryLimit > 0 /\ mem + newMemory > MemoryLimit
           \/ size >= Capacity

KeptCount(c, newMemory) ==
    CHOOSE n \in 0 .. Len(c.order) :
        /\ ~MustEvict(c, n, newMemory)
        /\ \A m \in n + 1 .. Len(c.order) : MustEvict(c, m, newMemory)

Rejects(k, v) == MemoryLimit > 0 /\ calculateMemoryUsage(k, v) > MemoryLimit

(* Mutant: an update does not count as a use. *)
UpdateInPlace(c, k, v) ==
    [c EXCEPT !.mem = @ - calculateMemoryUsage(k, c.val[k]) + calculateMemoryUsage(k, v),
              !.val = With(@, k, v)]

UpdateNode(c, k, v) ==
    [c EXCEPT !.mem = @ - calculateMemoryUsage(k, c.val[k]) + calculateMemoryUsage(k, v),
              !.val = With(@, k, v),
              !.order = moveToHead(@, k)]

InsertNode(c, k, v) ==
    LET newMemory == calculateMemoryUsage(k, v)
        n == KeptCount(c, newMemory)
    IN  [c EXCEPT !.order = addToHead(SubSeq(@, 1, n), k),
                  !.val = With(Keep(c, n), k, v),
                  !.mem = @ - Bytes(Evicted(c, n)) + newMemory,
                  !.size = @ - (Len(c.order) - n) + 1]

SetInternal(c, k, v) ==
    IF Rejects(k, v) THEN c
    ELSE IF k \in DOMAIN c.val THEN UpdateNode(c, k, v)
    ELSE InsertNode(c, k, v)

(***************************************************************************)
(* Get counts the request and looks the key up.  Found tells what it       *)
(* answers, Get what it leaves behind: an expired entry is unlinked, but   *)
(* its bytes stay in memoryUsage.                                          *)
(***************************************************************************)
Found(c, k) == k \in DOMAIN c.val /\ ~Expired(c, k)

CountHit(c)  == [c EXCEPT !.total = @ + 1, !.hits = @ + 1]
CountMiss(c) == [c EXCEPT !.total = @ + 1, !.misses = @ + 1]

DropExpired(c, k) ==
    [c EXCEPT !.order = removeNode(@, k),
              !.val = Without(@, k),
              !.ttl = Without(@, k),
              !.size = @ - 1]

(* Mutant: a hit does not move the node. *)
TouchNothing(c, k) == c

Touch(c, k) == [c EXCEPT !.order = moveToHead(@, k)]

(* Mutant: an expired entry is reported missing but left in place. *)
GetKeepsExpired(c, k) == IF Found(c, k) THEN Touch(CountHit(c), k) ELSE CountMiss(c)

Get(c, k) ==
    IF Found(c, k) THEN Touch(CountHit(c), k)
    ELSE IF k \in DOMAIN c.val THEN DropExpired(CountMiss(c), k)
    ELSE CountMiss(c)

(* Mutant: the memory of a deleted entry is not given back. *)
DeleteKeepsMemory(c, k) ==
    IF k \in DOMAIN c.val
    THEN [c EXCEPT !.order = removeNode(@, k),
                   !.val = Without(@, k),
                   !.ttl = Without(@, k),
                   !.size = @ - 1]
    ELSE c

(***************************************************************************)
(* Delete, and one iteration of the loop of DeleteMulti.                   *)
(***************************************************************************)
Delete(c, k) ==
    IF k \in DOMAIN c.val
    THEN [c EXCEPT !.mem = @ - calculateMemoryUsage(k, c.val[k]),
                   !.order = removeNode(@, k),
                   !.val = Without(@, k),
                   !.ttl = Without(@, k),
                   !.size = @ - 1]
    ELSE c

(* Mutant: a miss is not counted. *)
GetMultiOneSkipsMiss(c, k) ==
    IF k \in DOMAIN c.val THEN Touch(CountHit(c), k) ELSE [c EXCEPT !.total = @ + 1]

(***************************************************************************)
(* One iteration of the loop of GetMulti: it never looks at ttlMap.        *)
(***************************************************************************)
GetMultiOne(c, k) ==
    IF k \in DOMAIN c.val THEN Touch(CountHit(c), k) ELSE CountMiss(c)

(* Mutant: the deadline of an evicted key is left behind. *)
CleanupOnlyCached(c, k) == IF k \in DOMAIN c.val THEN Delete(c, k) ELSE c

(* Mutant: the size is not decremented. *)
CleanupKeepsSize(c, k) ==
    IF k \in DOMAIN c.val
    THEN [Delete(c, k) EXCEPT !.size = c.size]
    ELSE [c EXCEPT !.ttl = Without(@, k)]

(***************************************************************************)
(* One iteration of the loop of cleanupExpiredkeys, for an expired key.    *)
(***************************************************************************)
CleanupOne(c, k) ==
    IF k \in DOMAIN c.val
    THEN Delete(c, k)
    ELSE [c EXCEPT !.ttl = Without(@, k)]

-----------------------------------------------------------------------------
(***************************************************************************)
(* The type of a cache record.                                             *)
(***************************************************************************)
IsMap(m, S) ==
    /\ DOMAIN m \subseteq Key
    /\ m \in [DOMAIN m -> S]

IsCache(c) ==
    /\ c \in [order : Seq(Key), val : [DOMAIN c.val -> Value], size : Int, mem : Int,
              ttl : [DOMAIN c.ttl -> Int], hits : Nat, misses : Nat, total : Nat]
    /\ DOMAIN c.val \subseteq Key
    /\ DOMAIN c.ttl \subseteq Key

(***************************************************************************)
(* The list, the hash table and the counter describe one set of entries.   *)
(***************************************************************************)
Elems(s) == {s[i] : i \in 1 .. Len(s)}
NoDuplicates(s) == \A i, j \in 1 .. Len(s) : s[i] = s[j] => i = j

Linked(c) ==
    /\ NoDuplicates(c.order)
    /\ Elems(c.order) = DOMAIN c.val
    /\ c.size = Len(c.order)
    /\ c.size <= Capacity
=============================================================================
