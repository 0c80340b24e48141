------------------------------ MODULE Patterns ------------------------------
(***************************************************************************)
(* The caching services of the tutorial: cache-aside, write-through and    *)
(* write-back (02-patterns), the multilevel cache (05-multilevel), and the *)
(* remedies of 03-problems: the cache that loads under a key's mutex (and  *)
(* the vulnerable one that does not), the cache of logical expiry, the     *)
(* two-level cache, the cache of null values and the circuit breaker.      *)
(*                                                                         *)
(* They differ in the order in which a call touches the stores, so a call  *)
(* is the list of steps it has still to do.  Each step is atomic (every    *)
(* store has its own lock); between two of them other calls run.  A        *)
(* service's own mutex is taken by a step and given up at the end of the   *)
(* call (defer).  Keys do not meet in any of these services: there is one. *)
(* Which service runs is chosen in Init.                                   *)
(***************************************************************************)
EXTENDS Naturals, Sequences

CONSTANTS
    Client, Value,
    Services,      \* the services to run
    Flusher,       \* the goroutine of the write-back cache
    Threshold,     \* the breaker's failureThreshold
    MaxFailures,   \* bound: the breaker's failureCount
    None,          \* not in the store
    Null,          \* the cached fact that the database has no value
    Nobody

ASSUME ServicesAssumption ==
    Services \subseteq {"aside", "through", "back", "multilevel", "invalidating",
                        "two levels", "vulnerable", "mutex", "logical", "null", "breaker"}
ASSUME ThresholdAssumption == Threshold \in Nat \ {0} /\ MaxFailures \in Nat
ASSUME NamesAssumption ==
    /\ Flusher \notin Client /\ Nobody \notin Client \cup {Flusher}
    /\ None \notin Value /\ Null \notin Value /\ None # Null

VARIABLES
    service,
    store,     \* the caches l1 and l2, the dirty data of write-back, the database;
               \* of a logical item whether it is expired and being updated
    mutex,     \* who holds the service's mutex
    call,      \* what each goroutine is doing; `saved' is the value it will roll
               \* back to, and `late' (history) whether that had come late
    closed,    \* write-back: stopCh is closed
    breaker,   \* the circuit breaker
    tainted    \* history: caches filled with an outdated value, see Late

vars == <<service, store, mutex, call, closed, breaker, tainted>>

Thread == Client \cup {Flusher}
Idle == [op |-> "idle", todo |-> <<>>, saved |-> None, late |-> FALSE]
Cache == {"l1", "l2"}

-----------------------------------------------------------------------------
(***************************************************************************)
(* The steps.  A deletion puts None; Copy writes the dirty value, if there *)
(* is one, to the database.                                                *)
(***************************************************************************)
Look(s) == [do |-> "look", at |-> s]
Put(s, v) == [do |-> "put", at |-> s, val |-> v]
Drop(s) == Put(s, None)
Lock == [do |-> "lock"]
Unlock == [do |-> "unlock"]
Copy == [do |-> "copy"]
(* The two levels of the multilevel cache *)
L1Get == Look("l1")
L2Get == Look("l2")
L1Set(v) == Put("l1", v)
L2Set(v) == Put("l2", v)
L1Delete == Drop("l1")
L2Delete == Drop("l2")
DatabaseGet == Look("db")
DatabaseSet(v) == Put("db", v)

Save == [do |-> "save"]
Restore == [do |-> "restore"]
Stop == [do |-> "close"]
GetLogical == [do |-> "get logical"]
IsUpdating == [do |-> "is updating"]
SetUpdating(b) == [do |-> "set updating", val |-> b]

(***************************************************************************)
(* The writes of each service: its operations and the steps they make.     *)
(* SetWithRollback fails for one key, the one modelled, and is rolled back *)
(* there; for any other key it makes the steps of Set.                     *)
(***************************************************************************)
(* Mutant: the cache is emptied before the database is written. *)
AsideWritesDropFirst ==
    {<<"Set", <<Drop("l1"), Put("db", v)>>>> : v \in Value}

(* The demonstrated strategy: other calls run during the delay. *)
DelayedDoubleDelete(v) == <<Drop("l1"), Put("db", v), Drop("l1")>>

AsideWrites ==
    {<<"Set", <<Put("db", v), Drop("l1")>>>> : v \in Value}
    \cup {<<"SetWithUpdate", <<Put("db", v), Put("l1", v)>>>> : v \in Value}
    \cup {<<"DelayedDoubleDelete", DelayedDoubleDelete(v)>> : v \in Value}
    \cup {<<"Delete", <<Drop("db"), Drop("l1")>>>>}

ThroughWrites ==
    {<<"Set", <<Lock, Put("l1", v), Put("db", v)>>>> : v \in Value}
    \cup {<<"SetWithRollback", <<Lock, Save, Put("l1", v), Restore>>>> : v \in Value}
    \cup {<<"Delete", <<Lock, Drop("l1"), Drop("db")>>>>}

(* Mutant: the values are written and forgotten without the mutex. *)
FlushUnlocked == <<Copy, Drop("dirty")>>

Flush == <<Lock, Copy, Drop("dirty")>>

BackWrites ==
    {<<"Set", <<Lock, Put("l1", v), Put("dirty", v)>>>> : v \in Value}
    \cup {<<"Delete", <<Lock, Drop("l1"), Drop("dirty"), Drop("db")>>>>,
          <<"Flush", Flush>>, <<"Close", Flush \o <<Unlock, Stop>>>>}

MultilevelDelete == <<L1Delete, L2Delete>>

MultilevelWrites ==
    {<<"Set", <<DatabaseSet(v), L2Set(v), L1Set(v)>>>> : v \in Value}
    \cup {<<"Delete", MultilevelDelete>>}

InvalidatingWrites ==
    {<<"Set", <<DatabaseSet(v)>> \o MultilevelDelete>> : v \in Value}
    \cup {<<"Delete", MultilevelDelete>>}

Writes ==
    CASE service = "aside"        -> AsideWrites
      [] service = "through"      -> ThroughWrites
      [] service = "back"         -> BackWrites
      [] service = "multilevel"   -> MultilevelWrites
      [] service = "invalidating" -> InvalidatingWrites
      [] OTHER                    -> {}

(***************************************************************************)
(* The reads: the stores a Get looks in, and the caches it fills with what *)
(* it found.                                                               *)
(***************************************************************************)
(* Mutant: no second look when the mutex has been acquired. *)
GetOrSetOnce == <<Look("l1"), Lock, Look("db")>>

GetOrSet == <<Look("l1"), Lock, Look("l1"), Look("db")>>

GetAside == <<Look("l1"), Look("db")>>
GetThrough == <<Look("l1"), Look("db")>>
GetBack == <<Look("l1"), Look("db")>>
GetVulnerable == <<Look("l1"), Look("db")>>
queryWithNullCache == <<Look("l1"), Look("db")>>
GetMultilevel == <<L1Get, L2Get, DatabaseGet>>
GetMultiLevelCache == <<Look("l1"), Look("l2"), Look("db")>>

(***************************************************************************)
(* The cache of logical expiry answers with the expired value, and         *)
(* refreshes it in a goroutine, which is the rest of the call here: that   *)
(* the caller goes on meanwhile is no more than another client.            *)
(***************************************************************************)
asyncUpdate == <<IsUpdating, SetUpdating(TRUE), Look("db"), SetUpdating(FALSE)>>

Get ==
    CASE service = "aside"                          -> GetAside
      [] service = "through"                        -> GetThrough
      [] service = "back"                           -> GetBack
      [] service = "vulnerable"                     -> GetVulnerable
      [] service = "null"                           -> queryWithNullCache
      [] service \in {"multilevel", "invalidating"} -> GetMultilevel
      [] service = "two levels"                     -> GetMultiLevelCache
      [] service = "mutex"                          -> GetOrSet
      [] service = "logical"                        -> <<GetLogical>>

FillsMultilevel == <<"l2", "l1">>
FillsMultiLevelCache == <<"l1", "l2">>

Fills(s) ==
    CASE s = "l1" -> <<>>
      [] s = "l2" -> <<"l1">>
      [] s = "db" /\ service \in {"multilevel", "invalidating"} -> FillsMultilevel
      [] s = "db" /\ service = "two levels"                     -> FillsMultiLevelCache
      [] OTHER                                                  -> <<"l1">>

(* What a database that has nothing leaves in the cache. *)
SetNull == Put("l1", Null)

PutAll(caches, v) == [i \in 1 .. Len(caches) |-> Put(caches[i], v)]

Expires ==
    service \in {"multilevel", "invalidating", "two levels", "vulnerable", "mutex", "null"}

-----------------------------------------------------------------------------
ClosedBreaker == [state |-> "CLOSED", failureCount |-> 0, waited |-> FALSE]

(* The caches that show a breakdown are loaded beforehand. *)
Preloaded(v) == IF service \in {"vulnerable", "mutex", "logical"} THEN v ELSE None

Init ==
    /\ service \in Services
    /\ \E v \in Value \cup {None} :
         store = [l1 |-> Preloaded(v), l2 |-> None, dirty |-> None, db |-> v,
                  expired |-> FALSE, updating |-> FALSE]
    /\ mutex = Nobody
    /\ call = [t \in Thread |-> Idle]
    /\ closed = FALSE
    /\ breaker = ClosedBreaker
    /\ tainted = {}

(* What the service would answer if it had no cache. *)
Current == IF store.dirty # None THEN store.dirty ELSE store.db

Agrees(v) == v = Current \/ (v = Null /\ Current = None)

(***************************************************************************)
(* A value comes late to a cache when it has been replaced meanwhile, or   *)
(* when another call is in the middle of a locked write.                   *)
(***************************************************************************)
Late(t, v) == mutex # t /\ (mutex # Nobody \/ ~Agrees(v))

(***************************************************************************)
(* Goroutine t goes on with the steps todo; after the last one the call    *)
(* ends and gives up the mutex.                                            *)
(***************************************************************************)
Continue(t, todo) ==
    /\ call' = [call EXCEPT ![t] = IF todo = <<>> THEN Idle ELSE [@ EXCEPT !.todo = todo]]
    /\ mutex' = IF todo = <<>> /\ mutex = t THEN Nobody ELSE mutex

Begin(t, op, todo) ==
    /\ call[t] = Idle
    /\ call' = [call EXCEPT ![t] = [Idle EXCEPT !.op = op, !.todo = todo]]
    /\ UNCHANGED <<service, store, mutex, closed, breaker, tainted>>

Next1(t) == Head(call[t].todo)
Rest(t) == Tail(call[t].todo)
Doing(t, what) == call[t].todo # <<>> /\ Next1(t).do = what

(***************************************************************************)
(* A look that finds something fills the caches it came past; one that     *)
(* finds nothing goes on, or caches that the database has nothing.         *)
(***************************************************************************)
DoLook(t) ==
    /\ Doing(t, "look")
    /\ LET s == Next1(t).at
           v == store[s]
       IN  Continue(t, CASE v # None /\ s # "db" -> PutAll(Fills(s), v)
                         [] v # None /\ s = "db" -> PutAll(Fills(s), v) \o Rest(t)
                         [] v = None /\ s = "db" /\ service = "null" -> <<SetNull>>
                         [] OTHER -> Rest(t))
    /\ UNCHANGED <<service, store, closed, breaker, tainted>>

Taint(s, late) == IF late THEN tainted \cup {s} ELSE tainted \ {s}

(* A new item replaces the old one with its marks. *)
SetLogical(v) == [store EXCEPT !.l1 = v, !.expired = FALSE, !.updating = FALSE]

DoPut(t) ==
    /\ Doing(t, "put")
    /\ LET s == Next1(t).at
           v == Next1(t).val
       IN  /\ store' = IF service = "logical" THEN SetLogical(v) ELSE [store EXCEPT ![s] = v]
           /\ tainted' = IF s \in Cache THEN Taint(s, v # None /\ Late(t, v)) ELSE tainted
    /\ Continue(t, Rest(t))
    /\ UNCHANGED <<service, closed, breaker>>

DoLock(t) ==
    /\ Doing(t, "lock") /\ mutex = Nobody
    /\ mutex' = t
    /\ call' = [call EXCEPT ![t].todo = Tail(@)]
    /\ UNCHANGED <<service, store, closed, breaker, tainted>>

DoUnlock(t) ==
    /\ Doing(t, "unlock")
    /\ mutex' = Nobody
    /\ call' = [call EXCEPT ![t].todo = Tail(@)]
    /\ UNCHANGED <<service, store, closed, breaker, tainted>>

DoCopy(t) ==
    /\ Doing(t, "copy")
    /\ store' = [store EXCEPT !.db = Current]
    /\ Continue(t, Rest(t))
    /\ UNCHANGED <<service, closed, breaker, tainted>>

DoSave(t) ==
    /\ Doing(t, "save")
    /\ call' = [call EXCEPT ![t].saved = store.l1, ![t].late = "l1" \in tainted,
                            ![t].todo = Tail(@)]
    /\ UNCHANGED <<service, store, mutex, closed, breaker, tainted>>

(* The old value is as late as it was when it was saved. *)
DoRestore(t) ==
    /\ Doing(t, "restore")
    /\ store' = [store EXCEPT !.l1 = call[t].saved]
    /\ tainted' = Taint("l1", call[t].late)
    /\ Continue(t, Rest(t))
    /\ UNCHANGED <<service, closed, breaker>>

DoClose(t) ==
    /\ Doing(t, "close")
    /\ closed' = TRUE
    /\ Continue(t, Rest(t))
    /\ UNCHANGED <<service, store, breaker, tainted>>

DoGetLogical(t) ==
    /\ Doing(t, "get logical")
    /\ Continue(t, IF store.l1 # None /\ store.expired THEN asyncUpdate ELSE <<>>)
    /\ UNCHANGED <<service, store, closed, breaker, tainted>>

DoIsUpdating(t) ==
    /\ Doing(t, "is updating")
    /\ Continue(t, IF store.updating THEN <<>> ELSE Rest(t))
    /\ UNCHANGED <<service, store, closed, breaker, tainted>>

DoSetUpdating(t) ==
    /\ Doing(t, "set updating")
    /\ store' = IF store.l1 # None THEN [store EXCEPT !.updating = Next1(t).val] ELSE store
    /\ Continue(t, Rest(t))
    /\ UNCHANGED <<service, closed, breaker, tainted>>

Step(t) ==
    \/ DoLook(t) \/ DoPut(t) \/ DoLock(t) \/ DoUnlock(t) \/ DoCopy(t)
    \/ DoSave(t) \/ DoRestore(t) \/ DoClose(t)
    \/ DoGetLogical(t) \/ DoIsUpdating(t) \/ DoSetUpdating(t)

-----------------------------------------------------------------------------
Read(c) == service # "breaker" /\ Begin(c, "Get", Get)

(* A second Close would panic, closing the channel again. *)
Write(c) ==
    \E w \in Writes :
        /\ w[1] = "Close" => ~closed /\ \A t \in Thread : call[t].op # "Close"
        /\ Begin(c, w[1], w[2])

(* Mutant: the pass takes the mutex and calls Flush, which takes it too. *)
autoFlushTwice == <<Lock>> \o Flush

autoFlush == Flush

(* The select of backgroundFlush may take a tick although stopCh is closed. *)
backgroundFlush == service = "back" /\ Begin(Flusher, "autoFlush", autoFlush)

backgroundStop ==
    /\ closed /\ call[Flusher] = Idle
    /\ call' = [call EXCEPT ![Flusher] = [Idle EXCEPT !.op = "stopped"]]
    /\ UNCHANGED <<service, store, mutex, closed, breaker, tainted>>

Forget(s) ==
    /\ Expires /\ store[s] # None
    /\ store' = [store EXCEPT ![s] = None]
    /\ tainted' = tainted \ {s}
    /\ UNCHANGED <<service, mutex, call, closed, breaker>>

(* An entry expires, is evicted to make room, or is cleared. *)
EvictLocal == Forget("l1")
ExpireShared == Forget("l2")

ExpireLogically ==
    /\ service = "logical" /\ store.l1 # None /\ ~store.expired
    /\ store' = [store EXCEPT !.expired = TRUE]
    /\ UNCHANGED <<service, mutex, call, closed, breaker, tainted>>

-----------------------------------------------------------------------------
(***************************************************************************)
(* The circuit breaker.  A query holds the breaker's lock to its end, so   *)
(* that it is one step.  Open, and not yet for the timeout, the breaker    *)
(* answers the default value and nothing changes.                          *)
(***************************************************************************)
TimeoutPasses ==
    /\ service = "breaker" /\ breaker.state = "OPEN"
    /\ breaker' = [breaker EXCEPT !.waited = TRUE]
    /\ UNCHANGED <<service, store, mutex, call, closed, tainted>>

(* Mutant: the failures are forgotten when the breaker is half open. *)
AdmittedForgets == IF breaker.state = "OPEN"
                   THEN [breaker EXCEPT !.state = "HALF_OPEN", !.failureCount = 0]
                   ELSE breaker

Admitted == IF breaker.state = "OPEN" THEN [breaker EXCEPT !.state = "HALF_OPEN"] ELSE breaker

QueryFails ==
    /\ service = "breaker" /\ (breaker.state = "OPEN" => breaker.waited)
    /\ breaker.failureCount < MaxFailures
    /\ LET failures == Admitted.failureCount + 1
       IN  breaker' = [state |-> IF failures >= Threshold THEN "OPEN" ELSE Admitted.state,
                       failureCount |-> failures, waited |-> FALSE]
    /\ UNCHANGED <<service, store, mutex, call, closed, tainted>>

QuerySucceeds ==
    /\ service = "breaker" /\ (breaker.state = "OPEN" => breaker.waited)
    /\ breaker' = [state |-> IF Admitted.state = "HALF_OPEN" THEN "CLOSED" ELSE Admitted.state,
                   failureCount |-> 0, waited |-> FALSE]
    /\ UNCHANGED <<service, store, mutex, call, closed, tainted>>

-----------------------------------------------------------------------------
Next ==
    \/ \E c \in Client : Read(c) \/ Write(c)
    \/ \E t \in Thread : Step(t)
    \/ backgroundFlush \/ backgroundStop
    \/ EvictLocal \/ ExpireShared \/ ExpireLogically
    \/ TimeoutPasses \/ QueryFails \/ QuerySucceeds

Spec == Init /\ [][Next]_vars

(***************************************************************************)
(* The ticker of the flusher fires again and again, who holds the mutex    *)
(* goes on, and the flusher gets the mutex it waits for (a Go mutex is     *)
(* handed to a waiter it has starved).  Nobody has to call anything.       *)
(***************************************************************************)
HolderStep == \E c \in Client : mutex = c /\ Step(c)

FairSpec ==
    /\ Spec
    /\ WF_vars(backgroundFlush)
    /\ SF_vars(Step(Flusher))
    /\ WF_vars(HolderStep)

-----------------------------------------------------------------------------
Quiet == \A t \in Thread : call[t].todo = <<>>

(***************************************************************************)
(* When no call is running, a cache holds nothing or what the database (or *)
(* the dirty data) holds, unless the value came late: the call that put it *)
(* there had read or written it before another call replaced it, or filled *)
(* the cache in the middle of a locked write.  In particular a write that  *)
(* no other call overlaps leaves nothing stale in any level, and so does   *)
(* one that failed and was rolled back.  Nor is an item left marked as     *)
(* being updated, although two refreshes can meet: the mark would keep an  *)
(* expired value for ever.                                                 *)
(***************************************************************************)
StaleOnlyIfLate ==
    Quiet => /\ \A s \in Cache \ tainted : store[s] = None \/ Agrees(store[s])
             /\ ~store.updating

(***************************************************************************)
(* Write-back never forgets an accepted value: it leaves the dirty data    *)
(* only for the database, for a newer value or by a Delete, although       *)
(* writers, manual flushes and the background flush meet.                  *)
(***************************************************************************)
DirtyIsNotLost ==
    [][store.dirty # None /\ store'.dirty = None =>
           \/ store.db = store.dirty
           \/ \E t \in Thread : mutex = t /\ call[t].op = "Delete"]_vars

(***************************************************************************)
(* An accepted value does not wait for ever: the dirty data are flushed    *)
(* again and again until the cache is closed.                              *)
(***************************************************************************)
DirtyIsFlushed == (store.dirty # None) ~> (store.dirty = None \/ closed)

(***************************************************************************)
(* The mutex cache queries the database only for an entry that is missing, *)
(* however many calls missed it together: those that waited for the key's  *)
(* mutex look again.                                                       *)
(***************************************************************************)
NoNeedlessLoad ==
    \A c \in Client :
        service = "mutex" /\ Doing(c, "look") /\ Next1(c).at = "db"
            => store.l1 = None /\ mutex = c

(***************************************************************************)
(* The breaker is open exactly when the threshold is reached, and no query *)
(* leaves it half open: the trial query closes it or opens it again.       *)
(***************************************************************************)
BreakerDecides ==
    /\ breaker.state # "HALF_OPEN"
    /\ breaker.state = "OPEN" <=> breaker.failureCount >= Threshold
=============================================================================
