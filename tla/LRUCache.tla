------------------------------ MODULE LRUCache ------------------------------
(***************************************************************************)
(* core/lrucache.go as a concurrent object.  Every exported operation runs *)
(* under lru.mu, so an operation on one key is one step.  The operations   *)
(* that loop (SetMulti, GetMulti, DeleteMulti and the cleanup pass) hold   *)
(* the mutex across their iterations: "call" is the loop in progress, and  *)
(* nobody else takes a locked step until it has ended.  Time passes, and   *)
(* the cleanup goroutine selects between its ticker and the stop channel.  *)
(*                                                                         *)
(* The three constructors are the three ways to set the constants:         *)
(* NewLRUCache (MemoryLimit = 0, ~HasTTL), NewLRUCacheWithMemoryLimit      *)
(* (MemoryLimit > 0, ~HasTTL), NewLRUCacheWithCleanup (HasTTL).            *)
(***************************************************************************)
EXTENDS LRU

CONSTANTS
    HasTTL,            \* ttlMap was made and the cleanup goroutine started
    Durations,         \* the ttl arguments of SetWithTTL
    CleanupInterval,   \* lru.cleanupInterval, in time units
    MaxBatch,          \* bound: keys in one Multi call
    MaxRequests,       \* bound: reads start only below this many requests
    MaxRuns,           \* bound: cleanup statistics saturate here
    Miss, NoAnswer

ASSUME HasTTLAssumption == HasTTL \in BOOLEAN /\ (HasTTL => MemoryLimit = 0)
ASSUME DurationsAssumption == Durations \subseteq Nat
ASSUME IntervalAssumption == CleanupInterval \in Nat \ {0}
ASSUME BoundsAssumption == MaxBatch \in Nat /\ MaxRequests \in Nat /\ MaxRuns \in Nat

VARIABLES
    lru,        \* the cache record of module LRU
    call,       \* the loop that holds lru.mu
    cleaner,    \* where startCleanupRoutine is
    ticker,     \* [phase: time units since the last tick, c: a tick waits in ticker.C]
    stop,       \* stopCleanup is closed
    runs,       \* lru.cleanupStats
    answer,     \* what the last step of a read answered
    newer       \* history: <<a, b>> iff a was used, and b not since then

vars == <<lru, call, cleaner, ticker, stop, runs, answer, newer>>
backgroundVars == <<cleaner, ticker, stop, runs>>

Idle == [op |-> "idle", data |-> EmptyMap, keys |-> <<>>, expired |-> {}, cleaned |-> 0]

Batches == UNION {[D -> Value] : D \in {S \in SUBSET Key : Cardinality(S) \in 1 .. MaxBatch}}
KeyLists == UNION {[1 .. n -> Key] : n \in 1 .. MaxBatch}

Saturate(n) == IF n > MaxRuns THEN MaxRuns ELSE n

Init ==
    /\ lru = NewLRUCache
    /\ call = Idle
    /\ cleaner = IF HasTTL THEN "select" ELSE "none"
    /\ ticker = [phase |-> 0, c |-> FALSE]
    /\ stop = FALSE
    /\ runs = [CleanedKeys |-> 0, CleanupRuns |-> 0]
    /\ answer = NoAnswer
    /\ newer = {}

-----------------------------------------------------------------------------
(***************************************************************************)
(* History: k is used now, after every other key.                          *)
(***************************************************************************)
Used(k) == {p \in newer : p[1] # k /\ p[2] # k} \cup {<<k, b>> : b \in Key \ {k}}

Unlocked == call.op = "idle"

Set(k, v) ==
    /\ Unlocked
    /\ lru' = SetInternal(lru, k, v)
    /\ answer' = NoAnswer
    /\ newer' = IF Rejects(k, v) THEN newer ELSE Used(k)
    /\ UNCHANGED <<call, backgroundVars>>

(* Mutant: SetWithTTL runs without the mutex. *)
SetWithTTLUnlocked(k, v, d) ==
    /\ lru' = [SetInternal(lru, k, v) EXCEPT !.ttl = With(@, k, d)]
    /\ answer' = NoAnswer
    /\ newer' = Used(k)
    /\ UNCHANGED <<call, backgroundVars>>

(***************************************************************************)
(* Without a ttlMap the assignment panics after SetInternal has run; the   *)
(* deferred Unlock still happens and the entry stays.                      *)
(***************************************************************************)
SetWithTTL(k, v, d) ==
    /\ Unlocked
    /\ lru' = IF HasTTL
              THEN [SetInternal(lru, k, v) EXCEPT !.ttl = With(@, k, d)]
              ELSE SetInternal(lru, k, v)
    /\ answer' = NoAnswer
    /\ newer' = IF Rejects(k, v) THEN newer ELSE Used(k)
    /\ UNCHANGED <<call, backgroundVars>>

GetOne(k) ==
    /\ Unlocked
    /\ lru.total < MaxRequests
    /\ lru' = Get(lru, k)
    /\ answer' = [key |-> k, val |-> IF Found(lru, k) THEN lru.val[k] ELSE Miss]
    /\ newer' = IF Found(lru, k) THEN Used(k) ELSE newer
    /\ UNCHANGED <<call, backgroundVars>>

DeleteOne(k) ==
    /\ Unlocked
    /\ lru' = Delete(lru, k)
    /\ answer' = NoAnswer
    /\ UNCHANGED <<call, newer, backgroundVars>>

-----------------------------------------------------------------------------
(***************************************************************************)
(* SetMulti ranges over a map: its keys come in any order.                 *)
(***************************************************************************)
SetMulti(data) ==
    /\ Unlocked
    /\ call' = [Idle EXCEPT !.op = "SetMulti", !.data = data]
    /\ answer' = NoAnswer
    /\ UNCHANGED <<lru, newer, backgroundVars>>

SetMultiStep(k) ==
    /\ call.op = "SetMulti"
    /\ k \in DOMAIN call.data
    /\ lru' = SetInternal(lru, k, call.data[k])
    /\ call' = IF DOMAIN call.data = {k} THEN Idle ELSE [call EXCEPT !.data = Without(@, k)]
    /\ answer' = NoAnswer
    /\ newer' = IF Rejects(k, call.data[k]) THEN newer ELSE Used(k)
    /\ UNCHANGED backgroundVars

GetMulti(keys) ==
    /\ Unlocked
    /\ lru.total < MaxRequests
    /\ call' = [Idle EXCEPT !.op = "GetMulti", !.keys = keys]
    /\ answer' = NoAnswer
    /\ UNCHANGED <<lru, newer, backgroundVars>>

DeleteMulti(keys) ==
    /\ Unlocked
    /\ call' = [Idle EXCEPT !.op = "DeleteMulti", !.keys = keys]
    /\ answer' = NoAnswer
    /\ UNCHANGED <<lru, newer, backgroundVars>>

NextKey == call' = IF Len(call.keys) = 1 THEN Idle ELSE [call EXCEPT !.keys = Tail(@)]

GetMultiStep ==
    /\ call.op = "GetMulti"
    /\ LET k == Head(call.keys)
       IN  /\ lru' = GetMultiOne(lru, k)
           /\ answer' = [key |-> k, val |-> IF k \in DOMAIN lru.val THEN lru.val[k] ELSE Miss]
           /\ newer' = IF k \in DOMAIN lru.val THEN Used(k) ELSE newer
    /\ NextKey
    /\ UNCHANGED backgroundVars

DeleteMultiStep ==
    /\ call.op = "DeleteMulti"
    /\ lru' = Delete(lru, Head(call.keys))
    /\ answer' = NoAnswer
    /\ NextKey
    /\ UNCHANGED <<newer, backgroundVars>>

-----------------------------------------------------------------------------
(***************************************************************************)
(* One unit of time: every deadline comes nearer, and the ticker puts a    *)
(* tick into its channel of capacity one every CleanupInterval units (a    *)
(* tick that finds the channel full is dropped).                           *)
(***************************************************************************)
Tick ==
    /\ HasTTL
    /\ lru' = [lru EXCEPT !.ttl = [k \in DOMAIN @ |-> IF @[k] < 0 THEN @[k] ELSE @[k] - 1]]
    /\ ticker' = LET p == (ticker.phase + 1) % CleanupInterval
                 IN  [phase |-> p, c |-> ticker.c \/ (p = 0 /\ cleaner # "returned")]
    /\ answer' = NoAnswer
    /\ UNCHANGED <<call, cleaner, stop, runs, newer>>

(***************************************************************************)
(* The select of startCleanupRoutine: with a tick waiting and the channel  *)
(* closed it may take either.  After a tick it waits for the mutex.        *)
(***************************************************************************)
CleanerTick ==
    /\ cleaner = "select" /\ ticker.c
    /\ cleaner' = "locking"
    /\ ticker' = [ticker EXCEPT !.c = FALSE]
    /\ answer' = NoAnswer
    /\ UNCHANGED <<lru, call, stop, runs, newer>>

(* Mutant: a waiting tick is served before the stop channel. *)
CleanerStopLast ==
    /\ cleaner = "select" /\ stop /\ ~ticker.c
    /\ cleaner' = "returned"
    /\ answer' = NoAnswer
    /\ UNCHANGED <<lru, call, ticker, stop, runs, newer>>

CleanerStop ==
    /\ cleaner = "select" /\ stop
    /\ cleaner' = "returned"
    /\ ticker' = [ticker EXCEPT !.c = FALSE]
    /\ answer' = NoAnswer
    /\ UNCHANGED <<lru, call, stop, runs, newer>>

CleanupLock ==
    /\ cleaner = "locking" /\ Unlocked
    /\ cleaner' = "cleaning"
    /\ call' = [Idle EXCEPT !.op = "cleanup",
                            !.expired = {k \in DOMAIN lru.ttl : Expired(lru, k)}]
    /\ answer' = NoAnswer
    /\ UNCHANGED <<lru, ticker, stop, runs, newer>>

(* Mutant: the count of cleaned keys runs the wrong way. *)
CleanupStepMiscounts(k) ==
    /\ call.op = "cleanup"
    /\ k \in call.expired
    /\ lru' = CleanupOne(lru, k)
    /\ call' = [call EXCEPT !.expired = @ \ {k}, !.cleaned = @ - 1]
    /\ answer' = NoAnswer
    /\ UNCHANGED <<newer, backgroundVars>>

CleanupStep(k) ==
    /\ call.op = "cleanup"
    /\ k \in call.expired
    /\ lru' = CleanupOne(lru, k)
    /\ call' = [call EXCEPT !.expired = @ \ {k}, !.cleaned = @ + 1]
    /\ answer' = NoAnswer
    /\ UNCHANGED <<newer, backgroundVars>>

CleanupEnd ==
    /\ call.op = "cleanup" /\ call.expired = {}
    /\ call' = Idle
    /\ cleaner' = "select"
    /\ runs' = [CleanedKeys |-> Saturate(runs.CleanedKeys + call.cleaned),
                CleanupRuns |-> Saturate(runs.CleanupRuns + 1)]
    /\ answer' = NoAnswer
    /\ UNCHANGED <<lru, ticker, stop, newer>>

(***************************************************************************)
(* Closing the channel again, or a nil one, panics and changes nothing.    *)
(***************************************************************************)
Close ==
    /\ HasTTL /\ ~stop
    /\ stop' = TRUE
    /\ answer' = NoAnswer
    /\ UNCHANGED <<lru, call, cleaner, ticker, runs, newer>>

-----------------------------------------------------------------------------
Client ==
    \/ \E k \in Key : \/ \E v \in Value : \/ Set(k, v)
                                          \/ \E d \in Durations : SetWithTTL(k, v, d)
                      \/ GetOne(k)
                      \/ DeleteOne(k)
    \/ \E data \in Batches : SetMulti(data)
    \/ \E keys \in KeyLists : GetMulti(keys) \/ DeleteMulti(keys)
    \/ Close

LoopStep ==
    \/ \E k \in Key : SetMultiStep(k) \/ CleanupStep(k)
    \/ GetMultiStep \/ DeleteMultiStep \/ CleanupEnd

Cleaner == CleanerTick \/ CleanerStop \/ CleanupLock

Next == Client \/ LoopStep \/ Cleaner \/ Tick

Spec == Init /\ [][Next]_vars

(***************************************************************************)
(* Time passes, a loop in progress ends, the goroutine runs, and it gets   *)
(* the mutex although others keep taking it (a Go mutex that has starved a *)
(* waiter for a millisecond is handed to it).  select picks among ready    *)
(* cases at random, so a closed stop channel is not passed over for ever.  *)
(* Nothing makes clients call.                                             *)
(***************************************************************************)
Fairness ==
    /\ WF_vars(Tick)
    /\ WF_vars(LoopStep)
    /\ WF_vars(CleanerTick)
    /\ SF_vars(CleanerStop)
    /\ SF_vars(CleanupLock)

FairSpec == Spec /\ Fairness

-----------------------------------------------------------------------------
(***************************************************************************)
(* The type invariant.                                                     *)
(***************************************************************************)
CallOK ==
    /\ call \in [op : {"idle", "SetMulti", "GetMulti", "DeleteMulti", "cleanup"},
                 data : [DOMAIN call.data -> Value], keys : Seq(Key),
                 expired : SUBSET Key, cleaned : Nat]
    /\ DOMAIN call.data \subseteq Key

TypeOK ==
    /\ IsCache(lru)
    /\ CallOK
    /\ cleaner \in {"none", "select", "locking", "cleaning", "returned"}
    /\ ticker \in [phase : 0 .. CleanupInterval - 1, c : BOOLEAN]
    /\ stop \in BOOLEAN
    /\ runs \in [CleanedKeys : 0 .. MaxRuns, CleanupRuns : 0 .. MaxRuns]
    /\ answer \in {NoAnswer} \cup [key : Key, val : Value \cup {Miss}]
    /\ newer \subseteq Key \X Key

(***************************************************************************)
(* The list, the hash table and the counter describe one set of entries,   *)
(* and there are never more than Capacity of them: no operation, loop or   *)
(* cleanup pass leaves a key in the one and not in the other               *)
(* (lrucache.go: SetInternal, Get, Delete, DeleteMulti,                    *)
(* cleanupExpiredkeys each update all three by hand).                      *)
(***************************************************************************)
ListMatchesTable == Linked(lru)

(***************************************************************************)
(* Every counted request is a hit or a miss, on each of the early returns  *)
(* of Get and in every iteration of GetMulti.                              *)
(***************************************************************************)
RequestsAddUp == lru.hits + lru.misses = lru.total

(***************************************************************************)
(* The list is ordered by use: a key nearer the head was used after every  *)
(* key behind it.                                                          *)
(***************************************************************************)
OrderedByUse ==
    \A i, j \in 1 .. Len(lru.order) :
        i < j => <<lru.order[i], lru.order[j]>> \in newer

(***************************************************************************)
(* memoryUsage is the memory of the entries present ("current memory       *)
(* usage", lrucache.go:38).  It holds without a ttlMap; the early return   *)
(* of Get for an expired key breaks it with one.                           *)
(***************************************************************************)
MemoryExact == lru.mem = Bytes(lru.val)

-----------------------------------------------------------------------------
Inserts == DOMAIN lru'.val \ DOMAIN lru.val
Victims == DOMAIN lru.val \ DOMAIN lru'.val
Survivors == DOMAIN lru.val \cap DOMAIN lru'.val

(***************************************************************************)
(* An insertion evicts in the order of use: every key it keeps was used    *)
(* after every key it evicts.                                              *)
(***************************************************************************)
EvictsLeastRecentlyUsed ==
    [][Inserts # {} => \A s \in Survivors, e \in Victims : <<s, e>> \in newer]_vars

(***************************************************************************)
(* An insertion evicts no more than it must: with the victim used last     *)
(* still there, the cache would exceed its capacity or its memory limit.   *)
(***************************************************************************)
EvictsOnlyWhatItMust ==
    [][\A k \in Inserts, e \in Victims :
        (\A x \in Victims \ {e} : <<e, x>> \in newer)
        => LET c == Cardinality(DOMAIN lru'.val) + 1
               m == Bytes(lru'.val) + calculateMemoryUsage(e, lru.val[e])
           IN  c > Capacity \/ (MemoryLimit > 0 /\ m > MemoryLimit)]_vars

(***************************************************************************)
(* An insertion leaves the entries within the memory limit, even when      *)
(* updates had pushed them over it before.                                 *)
(***************************************************************************)
InsertionRestoresLimit ==
    [][Inserts # {} /\ MemoryLimit > 0 => Bytes(lru'.val) <= MemoryLimit]_vars

(***************************************************************************)
(* An entry leaves the cache for a reason: it is evicted by an insertion,  *)
(* deleted by name, or past the deadline that ttlMap has under its key     *)
(* when it goes.  That deadline need not be the entry's own: eviction      *)
(* leaves it behind and a plain Set keeps it.  The cleanup pass decides    *)
(* what to remove when it starts; the mutex keeps a refreshed key out of   *)
(* it.                                                                     *)
(***************************************************************************)
LeavesForAReason ==
    [][\A e \in Victims :
        \/ Inserts # {}
        \/ Expired(lru, e)
        \/ DeleteOne(e)
        \/ DeleteMultiStep /\ e = Head(call.keys)]_vars

(***************************************************************************)
(* Until Close, an expired entry of ttlMap does not stay for ever, whatever*)
(* the clients do: the cleanup pass gets to it, even for a key that was    *)
(* evicted and whose ttlMap entry was left behind.                         *)
(***************************************************************************)
ExpiredIsCleaned ==
    \A k \in Key : (Expired(lru, k) /\ ~stop) ~> (~Expired(lru, k) \/ stop)

(***************************************************************************)
(* After Close the cleanup goroutine ends.                                 *)
(***************************************************************************)
CloseEndsCleaner == stop ~> (cleaner = "returned")

(***************************************************************************)
(* The cache implements the abstract bounded cache.                        *)
(***************************************************************************)
Abstract == INSTANCE BoundedCache WITH content <- lru.val

(***************************************************************************)
(* Refinement: reads, writes, evictions, expiry and the cleanup pass are   *)
(* the steps the abstract cache allows: no read ever answers a value that  *)
(* is not the last one accepted under the key.                             *)
(***************************************************************************)
ImplementsBoundedCache == Abstract!Spec
=============================================================================
