--------------------------- MODULE Patterns_proofs ---------------------------
(***************************************************************************)
(* Theorems about the caching services of the tutorial, for every number   *)
(* of clients and values and every threshold of the breaker.               *)
(***************************************************************************)
EXTENDS Patterns, SequenceTheorems, TLAPS

-----------------------------------------------------------------------------
(***************************************************************************)
(* The circuit breaker.                                                    *)
(***************************************************************************)
BreakerInv ==
    /\ breaker \in [state : {"CLOSED", "OPEN", "HALF_OPEN"}, failureCount : Nat, waited : BOOLEAN]
    /\ BreakerDecides

(***************************************************************************)
(* After every query the breaker is open exactly when its failures have    *)
(* reached the threshold, and never half open: the query that was let      *)
(* through on trial has closed it or opened it again (Query).              *)
(***************************************************************************)
THEOREM BreakerSafe == Spec => []BreakerDecides
<1>0. Threshold \in Nat /\ Threshold > 0
    BY ThresholdAssumption
<1>1. Init => BreakerInv
    BY <1>0 DEF Init, BreakerInv, BreakerDecides, ClosedBreaker
<1>2. BreakerInv /\ [Next]_vars => BreakerInv'
  <2> SUFFICES ASSUME BreakerInv, [Next]_vars PROVE BreakerInv'
      OBVIOUS
  <2>1. CASE TimeoutPasses
      BY <2>1 DEF TimeoutPasses, BreakerInv, BreakerDecides
  <2>2. CASE QueryFails
    <3>1. Admitted.failureCount = breaker.failureCount
          /\ Admitted.state = IF breaker.state = "OPEN" THEN "HALF_OPEN" ELSE breaker.state
        BY DEF Admitted, BreakerInv
    <3> QED BY <1>0, <2>2, <3>1 DEF QueryFails, BreakerInv, BreakerDecides
  <2>3. CASE QuerySucceeds
    <3>1. Admitted.state = IF breaker.state = "OPEN" THEN "HALF_OPEN" ELSE breaker.state
        BY DEF Admitted, BreakerInv
    <3> QED BY <1>0, <2>3, <3>1 DEF QuerySucceeds, BreakerInv, BreakerDecides
  <2>4. CASE UNCHANGED breaker
      BY <2>4 DEF BreakerInv, BreakerDecides
  <2> QED BY <2>1, <2>2, <2>3, <2>4
      DEF Next, Read, Write, Begin, Step, DoLook, DoPut, DoLock, DoUnlock, DoCopy, DoSave,
          DoRestore, DoClose, DoGetLogical, DoIsUpdating, DoSetUpdating, backgroundFlush,
          backgroundStop, EvictLocal, ExpireShared, Forget, ExpireLogically, vars
<1>3. BreakerInv => BreakerDecides
    BY DEF BreakerInv
<1> QED BY <1>1, <1>2, <1>3, PTL DEF Spec

-----------------------------------------------------------------------------
(***************************************************************************)
(* The type of a call: the steps it is made of.  Only the write-back cache *)
(* has steps that put something among the dirty data.                      *)
(***************************************************************************)
V == Value \cup {None, Null}

Place == IF service = "back" THEN {"l1", "l2", "db", "dirty"} ELSE {"l1", "l2", "db"}

Bare == [do : {"lock", "unlock", "copy", "save", "restore", "close", "get logical", "is updating"}]
Looks == [do : {"look"}, at : {"l1", "l2", "db"}]
Puts == [do : {"put"}, at : Place, val : V]
Marks == [do : {"set updating"}, val : BOOLEAN]
Item == Bare \cup Looks \cup Puts \cup Marks

StoreType == [l1 : V, l2 : V, dirty : V, db : V, expired : BOOLEAN, updating : BOOLEAN]

Ops == {"idle", "stopped", "Get", "Set", "SetWithUpdate", "DelayedDoubleDelete", "SetWithRollback",
        "Delete", "Flush", "Close", "autoFlush"}

CallType == [op : Ops, todo : Seq(Item), saved : V, late : BOOLEAN]

TypeInv ==
    /\ service \in Services
    /\ store \in StoreType
    /\ service # "back" => store.dirty = None
    /\ call \in [Thread -> CallType]

LEMMA ItemLemma ==
    /\ {Lock, Unlock, Copy, Save, Restore, Stop, GetLogical, IsUpdating} \subseteq Item
    /\ \A b \in BOOLEAN : SetUpdating(b) \in Item
    /\ \A s \in {"l1", "l2", "db"} : Look(s) \in Item /\ Drop(s) \in Item
    /\ \A s \in {"l1", "l2", "db"}, v \in V : Put(s, v) \in Item
    /\ service = "back" => Drop("dirty") \in Item /\ \A v \in V : Put("dirty", v) \in Item
<1>1. {Lock, Unlock, Copy, Save, Restore, Stop, GetLogical, IsUpdating} \subseteq Bare
    BY DEF Lock, Unlock, Copy, Save, Restore, Stop, GetLogical, IsUpdating, Bare
<1>2. \A b \in BOOLEAN : SetUpdating(b) \in Marks
    BY DEF SetUpdating, Marks
<1>3. \A s \in {"l1", "l2", "db"} : Look(s) \in Looks
    BY DEF Look, Looks
<1>4. {"l1", "l2", "db"} \subseteq Place /\ None \in V /\ (service = "back" => "dirty" \in Place)
    BY DEF Place, V
<1>5. \A s \in Place, v \in V : Put(s, v) \in Puts
    BY DEF Put, Puts
<1>6. \A s \in {"l1", "l2", "db"}, v \in V : Put(s, v) \in Puts
    BY <1>4, <1>5
<1>7. \A s \in {"l1", "l2", "db"} : Drop(s) \in Puts
    BY <1>4, <1>6 DEF Drop
<1>8. service = "back" => Drop("dirty") \in Puts /\ \A v \in V : Put("dirty", v) \in Puts
    BY <1>4, <1>5 DEF Drop
<1> QED BY <1>1, <1>2, <1>3, <1>6, <1>7, <1>8 DEF Item

(***************************************************************************)
(* What a Get does to begin with, and what a write does.                   *)
(***************************************************************************)
LEMMA GetLemma == ASSUME service \in Services, service # "breaker" PROVE Get \in Seq(Item)
<1>1. Look("l1") \in Item /\ Look("l2") \in Item /\ Look("db") \in Item /\ Lock \in Item
      /\ GetLogical \in Item
    BY ItemLemma
<1>2. /\ GetAside \in Seq(Item) /\ GetThrough \in Seq(Item) /\ GetBack \in Seq(Item)
      /\ GetVulnerable \in Seq(Item) /\ queryWithNullCache \in Seq(Item)
    BY <1>1 DEF GetAside, GetThrough, GetBack, GetVulnerable, queryWithNullCache
<1>3. GetMultilevel \in Seq(Item) /\ GetMultiLevelCache \in Seq(Item)
    BY <1>1 DEF GetMultilevel, GetMultiLevelCache, L1Get, L2Get, DatabaseGet
<1>4. GetOrSet \in Seq(Item) /\ <<GetLogical>> \in Seq(Item)
    BY <1>1 DEF GetOrSet
<1> QED BY <1>2, <1>3, <1>4, ServicesAssumption DEF Get

LEMMA WritesLemma == ASSUME NEW w \in Writes PROVE w[2] \in Seq(Item) /\ w[1] \in Ops
<1>0. Value \subseteq V
    BY DEF V
<1>1. /\ Lock \in Item /\ Unlock \in Item /\ Copy \in Item /\ Save \in Item /\ Restore \in Item
      /\ Stop \in Item /\ Drop("l1") \in Item /\ Drop("l2") \in Item /\ Drop("db") \in Item
      /\ service = "back" => Drop("dirty") \in Item
    BY ItemLemma
<1>2. /\ \A v \in Value : Put("l1", v) \in Item /\ Put("l2", v) \in Item /\ Put("db", v) \in Item
      /\ service = "back" => \A v \in Value : Put("dirty", v) \in Item
    BY <1>0, ItemLemma
<1>3. CASE service = "aside"
  <2>1. ASSUME NEW v \in Value, w = <<"Set", <<Put("db", v), Drop("l1")>>>>
        PROVE  w[2] \in Seq(Item) /\ w[1] \in Ops
    <3>1. <<Put("db", v), Drop("l1")>> \in Seq(Item)
        BY <1>1, <1>2
    <3> QED BY <2>1, <3>1 DEF Ops
  <2>2. ASSUME NEW v \in Value, w = <<"SetWithUpdate", <<Put("db", v), Put("l1", v)>>>>
        PROVE  w[2] \in Seq(Item) /\ w[1] \in Ops
    <3>1. <<Put("db", v), Put("l1", v)>> \in Seq(Item)
        BY <1>1, <1>2
    <3> QED BY <2>2, <3>1 DEF Ops
  <2>3. ASSUME NEW v \in Value, w = <<"DelayedDoubleDelete", DelayedDoubleDelete(v)>>
        PROVE  w[2] \in Seq(Item) /\ w[1] \in Ops
    <3>1. DelayedDoubleDelete(v) \in Seq(Item)
        BY <1>1, <1>2 DEF DelayedDoubleDelete
    <3> QED BY <2>3, <3>1 DEF Ops
  <2>4. ASSUME w = <<"Delete", <<Drop("db"), Drop("l1")>>>>
        PROVE  w[2] \in Seq(Item) /\ w[1] \in Ops
    <3>1. <<Drop("db"), Drop("l1")>> \in Seq(Item)
        BY <1>1
    <3> QED BY <2>4, <3>1 DEF Ops
  <2> QED BY <1>3, <2>1, <2>2, <2>3, <2>4 DEF Writes, AsideWrites
<1>4. CASE service = "through"
  <2>1. ASSUME NEW v \in Value, w = <<"Set", <<Lock, Put("l1", v), Put("db", v)>>>>
        PROVE  w[2] \in Seq(Item) /\ w[1] \in Ops
    <3>1. <<Lock, Put("l1", v), Put("db", v)>> \in Seq(Item)
        BY <1>1, <1>2
    <3> QED BY <2>1, <3>1 DEF Ops
  <2>2. ASSUME NEW v \in Value, w = <<"SetWithRollback", <<Lock, Save, Put("l1", v), Restore>>>>
        PROVE  w[2] \in Seq(Item) /\ w[1] \in Ops
    <3>1. <<Lock, Save, Put("l1", v), Restore>> \in Seq(Item)
        BY <1>1, <1>2
    <3> QED BY <2>2, <3>1 DEF Ops
  <2>3. ASSUME w = <<"Delete", <<Lock, Drop("l1"), Drop("db")>>>>
        PROVE  w[2] \in Seq(Item) /\ w[1] \in Ops
    <3>1. <<Lock, Drop("l1"), Drop("db")>> \in Seq(Item)
        BY <1>1
    <3> QED BY <2>3, <3>1 DEF Ops
  <2> QED BY <1>4, <2>1, <2>2, <2>3 DEF Writes, ThroughWrites
<1>5. CASE service = "back"
  <2>1. ASSUME NEW v \in Value, w = <<"Set", <<Lock, Put("l1", v), Put("dirty", v)>>>>
        PROVE  w[2] \in Seq(Item) /\ w[1] \in Ops
    <3>1. <<Lock, Put("l1", v), Put("dirty", v)>> \in Seq(Item)
        BY <1>1, <1>2, <1>5
    <3> QED BY <2>1, <3>1 DEF Ops
  <2>2. ASSUME w = <<"Delete", <<Lock, Drop("l1"), Drop("dirty"), Drop("db")>>>>
        PROVE  w[2] \in Seq(Item) /\ w[1] \in Ops
    <3>1. <<Lock, Drop("l1"), Drop("dirty"), Drop("db")>> \in Seq(Item)
        BY <1>1, <1>5
    <3> QED BY <2>2, <3>1 DEF Ops
  <2>3. ASSUME w = <<"Flush", Flush>>
        PROVE  w[2] \in Seq(Item) /\ w[1] \in Ops
    <3>1. Flush \in Seq(Item)
        BY <1>1, <1>5 DEF Flush
    <3> QED BY <2>3, <3>1 DEF Ops
  <2>4. ASSUME w = <<"Close", Flush \o <<Unlock, Stop>>>>
        PROVE  w[2] \in Seq(Item) /\ w[1] \in Ops
    <3>1. Flush \o <<Unlock, Stop>> \in Seq(Item)
        BY <1>1, <1>5 DEF Flush
    <3> QED BY <2>4, <3>1 DEF Ops
  <2> QED BY <1>5, <2>1, <2>2, <2>3, <2>4 DEF Writes, BackWrites
<1>6. CASE service = "multilevel"
  <2>1. ASSUME NEW v \in Value, w = <<"Set", <<DatabaseSet(v), L2Set(v), L1Set(v)>>>>
        PROVE  w[2] \in Seq(Item) /\ w[1] \in Ops
    <3>1. <<DatabaseSet(v), L2Set(v), L1Set(v)>> \in Seq(Item)
        BY <1>1, <1>2 DEF L1Set, L2Set, DatabaseSet
    <3> QED BY <2>1, <3>1 DEF Ops
  <2>2. ASSUME w = <<"Delete", MultilevelDelete>>
        PROVE  w[2] \in Seq(Item) /\ w[1] \in Ops
    <3>1. MultilevelDelete \in Seq(Item)
        BY <1>1 DEF MultilevelDelete, L1Delete, L2Delete
    <3> QED BY <2>2, <3>1 DEF Ops
  <2> QED BY <1>6, <2>1, <2>2 DEF Writes, MultilevelWrites
<1>7. CASE service = "invalidating"
  <2>1. ASSUME NEW v \in Value, w = <<"Set", <<DatabaseSet(v)>> \o MultilevelDelete>>
        PROVE  w[2] \in Seq(Item) /\ w[1] \in Ops
    <3>1. <<DatabaseSet(v)>> \o MultilevelDelete \in Seq(Item)
        BY <1>1, <1>2 DEF MultilevelDelete, DatabaseSet, L1Delete, L2Delete
    <3> QED BY <2>1, <3>1 DEF Ops
  <2>2. ASSUME w = <<"Delete", MultilevelDelete>>
        PROVE  w[2] \in Seq(Item) /\ w[1] \in Ops
    <3>1. MultilevelDelete \in Seq(Item)
        BY <1>1 DEF MultilevelDelete, L1Delete, L2Delete
    <3> QED BY <2>2, <3>1 DEF Ops
  <2> QED BY <1>7, <2>1, <2>2 DEF Writes, InvalidatingWrites
<1> QED BY <1>3, <1>4, <1>5, <1>6, <1>7 DEF Writes

(***************************************************************************)
(* A call goes on with the steps X, and nobody else's call is touched.     *)
(***************************************************************************)
GoesOn(t, X) ==
    /\ call' \in [Thread -> CallType]
    /\ call'[t].todo = X
    /\ X # <<>> => /\ call'[t].op = call[t].op
                   /\ call'[t].saved = call[t].saved /\ call'[t].late = call[t].late
    /\ \A u \in Thread \ {t} : call'[u] = call[u]

LEMMA IdleLemma == Idle \in CallType /\ Idle.todo = <<>>
BY DEF Idle, CallType, Ops, V

LEMMA GoOnLemma ==
    ASSUME TypeInv, NEW t \in Thread, NEW X \in Seq(Item)
    PROVE  /\ Continue(t, X) => GoesOn(t, X)
           /\ call' = [call EXCEPT ![t].todo = X] => GoesOn(t, X)
<1>1. call \in [Thread -> CallType] /\ call[t] \in CallType
    BY DEF TypeInv
<1> DEFINE c == [call[t] EXCEPT !.todo = X]
<1>2. /\ c \in CallType /\ c.todo = X /\ c.op = call[t].op
      /\ c.saved = call[t].saved /\ c.late = call[t].late
    BY <1>1 DEF CallType
<1>3. ASSUME Continue(t, X) PROVE GoesOn(t, X)
  <2>1. call' = [call EXCEPT ![t] = IF X = <<>> THEN Idle ELSE c]
      BY <1>3 DEF Continue
  <2> HIDE DEF c
  <2> QED BY <1>1, <1>2, <2>1, IdleLemma DEF GoesOn
<1>4. ASSUME call' = [call EXCEPT ![t].todo = X] PROVE GoesOn(t, X)
  <2>1. call' = [call EXCEPT ![t] = c]
      BY <1>1, <1>4
  <2> HIDE DEF c
  <2> QED BY <1>1, <1>2, <2>1 DEF GoesOn
<1> QED BY <1>3, <1>4

LEMMA BeginLemma ==
    ASSUME TypeInv, NEW t \in Thread, NEW o \in Ops, NEW X \in Seq(Item), Begin(t, o, X)
    PROVE  /\ call' \in [Thread -> CallType]
           /\ call'[t].todo = X /\ call'[t].op = o
           /\ \A u \in Thread \ {t} : call'[u] = call[u]
<1> DEFINE c == [Idle EXCEPT !.op = o, !.todo = X]
<1>1. c \in CallType /\ c.todo = X /\ c.op = o
    BY DEF CallType, Idle, V
<1>2. call' = [call EXCEPT ![t] = c]
    BY DEF Begin
<1> HIDE DEF c
<1> QED BY <1>1, <1>2 DEF TypeInv

(* What comes next, and what comes after it *)
LEMMA NextLemma ==
    ASSUME TypeInv, NEW t \in Thread, call[t].todo # <<>>
    PROVE  Next1(t) \in Item /\ Rest(t) \in Seq(Item)
BY DEF TypeInv, CallType, Next1, Rest

(* The caches that a look fills *)
LEMMA FillsLemma ==
    ASSUME NEW s \in {"l1", "l2", "db"}, NEW v \in V
    PROVE  PutAll(Fills(s), v) \in Seq(Item)
<1>1. Fills(s) \in Seq({"l1", "l2"})
  <2>1. /\ <<>> \in Seq({"l1", "l2"}) /\ <<"l1">> \in Seq({"l1", "l2"})
        /\ FillsMultilevel \in Seq({"l1", "l2"}) /\ FillsMultiLevelCache \in Seq({"l1", "l2"})
      BY DEF FillsMultilevel, FillsMultiLevelCache
  <2>2. CASE s = "l1" BY <2>1, <2>2 DEF Fills
  <2>3. CASE s = "l2" BY <2>1, <2>3 DEF Fills
  <2>4. CASE s = "db"
    <3>1. CASE service \in {"multilevel", "invalidating"} BY <2>1, <2>4, <3>1 DEF Fills
    <3>2. CASE service = "two levels" BY <2>1, <2>4, <3>2 DEF Fills
    <3>3. CASE service \notin {"multilevel", "invalidating", "two levels"}
        BY <2>1, <2>4, <3>3 DEF Fills
    <3> QED BY <3>1, <3>2, <3>3
  <2> QED BY <2>2, <2>3, <2>4
<1>2. \A i \in 1 .. Len(Fills(s)) : Put(Fills(s)[i], v) \in Item
    BY <1>1, ItemLemma
<1>3. Len(Fills(s)) \in Nat
    BY <1>1
<1> QED BY <1>2, <1>3 DEF PutAll

LEMMA LookLemma ==
    ASSUME TypeInv, NEW t \in Thread, DoLook(t)
    PROVE  \E X \in Seq(Item) : Continue(t, X)
<1> DEFINE s == Next1(t).at
           v == store[s]
<1>1. call[t].todo # <<>> /\ Next1(t).do = "look"
    BY DEF DoLook, Doing
<1>2. Next1(t) \in Item /\ Rest(t) \in Seq(Item)
    BY <1>1, NextLemma
<1>3. s \in {"l1", "l2", "db"}
    BY <1>1, <1>2 DEF Item, Bare, Looks, Puts, Marks
<1>4. v \in V
    BY <1>3 DEF TypeInv, StoreType
<1>5. PutAll(Fills(s), v) \in Seq(Item) /\ PutAll(Fills(s), v) \o Rest(t) \in Seq(Item)
    BY <1>2, <1>3, <1>4, FillsLemma
<1>6. <<SetNull>> \in Seq(Item)
  <2>1. Null \in V
      BY DEF V
  <2> QED BY <2>1, ItemLemma DEF SetNull
<1> QED BY <1>2, <1>5, <1>6 DEF DoLook

(***************************************************************************)
(* The steps of a call, as far as the types go.  A step leaves the call    *)
(* with other steps to do, and the store with one field written.           *)
(***************************************************************************)
LEMMA StepTypes ==
    ASSUME TypeInv, NEW t \in Thread, Step(t)
    PROVE  TypeInv'
<1>0. service' = service
    BY DEF Step, DoLook, DoPut, DoLock, DoUnlock, DoCopy, DoSave, DoRestore, DoClose,
           DoGetLogical, DoIsUpdating, DoSetUpdating
<1>1. call[t].todo # <<>>
    BY DEF Step, DoLook, DoPut, DoLock, DoUnlock, DoCopy, DoSave, DoRestore, DoClose,
           DoGetLogical, DoIsUpdating, DoSetUpdating, Doing
<1>2. Next1(t) \in Item /\ Rest(t) \in Seq(Item)
    BY <1>1, NextLemma
<1>3. call[t] \in CallType /\ store \in StoreType /\ Thread = Thread' /\ V = V'
    BY DEF TypeInv, Thread, V
<1>4. Item' = Item /\ CallType' = CallType /\ StoreType' = StoreType
    BY <1>0 DEF Item, Bare, Looks, Puts, Marks, Place, V, CallType, StoreType, Ops
<1>5. Continue(t, Rest(t)) => call' \in [Thread -> CallType]
    BY <1>2, GoOnLemma DEF GoesOn
<1>6. CASE DoLook(t)
  <2>1. PICK X \in Seq(Item) : Continue(t, X)
      BY <1>6, LookLemma
  <2>2. call' \in [Thread -> CallType]
      BY <2>1, GoOnLemma DEF GoesOn
  <2> QED BY <1>6, <2>2, <1>4 DEF TypeInv, DoLook
<1>7. CASE DoPut(t)
  <2>1. Next1(t).do = "put"
      BY <1>7 DEF DoPut, Doing
  <2>2. Next1(t).at \in Place /\ Next1(t).val \in V
      BY <1>2, <2>1 DEF Item, Bare, Looks, Puts, Marks
  <2>3. CASE service = "logical"
    <3>1. store' = [store EXCEPT !.l1 = Next1(t).val, !.expired = FALSE, !.updating = FALSE]
        BY <1>7, <2>3 DEF DoPut, SetLogical
    <3>2. store' \in StoreType /\ store'.dirty = store.dirty
        BY <1>3, <2>2, <3>1 DEF StoreType
    <3> QED BY <1>0, <1>4, <1>5, <1>7, <3>2 DEF TypeInv, DoPut
  <2>4. CASE service # "logical"
    <3>1. store' = [store EXCEPT ![Next1(t).at] = Next1(t).val]
        BY <1>7, <2>4 DEF DoPut
    <3>2. store' \in StoreType
        BY <1>3, <2>2, <3>1 DEF StoreType, Place
    <3>3. service # "back" => store'.dirty = store.dirty
        BY <1>3, <2>2, <3>1 DEF StoreType, Place
    <3> QED BY <1>0, <1>4, <1>5, <1>7, <3>2, <3>3 DEF TypeInv, DoPut
  <2> QED BY <2>3, <2>4
<1>8. CASE DoLock(t) \/ DoUnlock(t)
  <2>1. call' = [call EXCEPT ![t].todo = Rest(t)]
      BY <1>8 DEF DoLock, DoUnlock, Rest
  <2>2. call' \in [Thread -> CallType]
      BY <1>2, <2>1, GoOnLemma DEF GoesOn
  <2> QED BY <1>4, <1>8, <2>2 DEF TypeInv, DoLock, DoUnlock
<1>9. CASE DoCopy(t)
  <2>1. store' \in StoreType /\ store'.dirty = store.dirty
      BY <1>3, <1>9 DEF DoCopy, StoreType, Current
  <2> QED BY <1>0, <1>4, <1>5, <1>9, <2>1 DEF TypeInv, DoCopy
<1>10. CASE DoSave(t)
  <2> DEFINE late == "l1" \in tainted
             c == [call[t] EXCEPT !.saved = store.l1, !.late = late, !.todo = Rest(t)]
  <2>0. late \in BOOLEAN
    <3>1. CASE late
      <4>1. late = TRUE
          BY <3>1
      <4> QED BY <4>1
    <3>2. CASE ~late
      <4>1. late = FALSE
          BY <3>2
      <4> QED BY <4>1
    <3> QED BY <3>1, <3>2
  <2>1. c \in CallType
    <3> HIDE DEF late
    <3> QED BY <1>2, <1>3, <2>0 DEF CallType, StoreType
  <2>2. call' = [call EXCEPT ![t] = c]
      BY <1>3, <1>10 DEF DoSave, Rest, TypeInv
  <2> HIDE DEF c
  <2> QED BY <1>4, <1>10, <2>1, <2>2 DEF TypeInv, DoSave
<1>11. CASE DoRestore(t)
  <2>1. call[t].saved \in V
      BY <1>3 DEF CallType
  <2>2. store' \in StoreType /\ store'.dirty = store.dirty
      BY <1>3, <1>11, <2>1 DEF DoRestore, StoreType
  <2> QED BY <1>0, <1>4, <1>5, <1>11, <2>2 DEF TypeInv, DoRestore
<1>12. CASE DoClose(t)
    BY <1>4, <1>5, <1>12 DEF TypeInv, DoClose
<1>13. CASE DoGetLogical(t) \/ DoIsUpdating(t)
  <2>1. asyncUpdate \in Seq(Item) /\ <<>> \in Seq(Item)
    <3>1. /\ IsUpdating \in Item /\ Look("db") \in Item
          /\ SetUpdating(TRUE) \in Item /\ SetUpdating(FALSE) \in Item
        BY ItemLemma
    <3>2. asyncUpdate \in Seq(Item)
      <4>1. \A a, b, c, d \in Item : <<a, b, c, d>> \in Seq(Item)
          OBVIOUS
      <4> QED BY <3>1, <4>1, Zenon DEF asyncUpdate
    <3>3. <<>> \in Seq(Item)
        OBVIOUS
    <3> QED BY <3>2, <3>3
  <2>2. PICK X \in Seq(Item) : Continue(t, X)
      BY <1>2, <1>13, <2>1 DEF DoGetLogical, DoIsUpdating
  <2>3. call' \in [Thread -> CallType]
      BY <2>2, GoOnLemma DEF GoesOn
  <2> QED BY <1>4, <1>13, <2>3 DEF TypeInv, DoGetLogical, DoIsUpdating
<1>14. CASE DoSetUpdating(t)
  <2>1. Next1(t).val \in BOOLEAN
      BY <1>2, <1>14 DEF Item, Bare, Looks, Puts, Marks, DoSetUpdating, Doing
  <2>2. store' \in StoreType /\ store'.dirty = store.dirty
      BY <1>3, <1>14, <2>1 DEF DoSetUpdating, StoreType
  <2> QED BY <1>0, <1>4, <1>5, <1>14, <2>2 DEF TypeInv, DoSetUpdating
<1> QED BY <1>6, <1>7, <1>8, <1>9, <1>10, <1>11, <1>12, <1>13, <1>14 DEF Step

LEMMA TypeStep == TypeInv /\ [Next]_vars => TypeInv'
<1> SUFFICES ASSUME TypeInv, [Next]_vars PROVE TypeInv'
    OBVIOUS
<1>0. service' = service
    BY DEF Next, Read, Write, Begin, Step, DoLook, DoPut, DoLock, DoUnlock, DoCopy, DoSave,
           DoRestore, DoClose, DoGetLogical, DoIsUpdating, DoSetUpdating, backgroundFlush,
           backgroundStop, EvictLocal, ExpireShared, Forget, ExpireLogically, TimeoutPasses,
           QueryFails, QuerySucceeds, vars
<1>1. Item' = Item /\ CallType' = CallType /\ StoreType' = StoreType /\ Thread' = Thread
    BY <1>0 DEF Item, Bare, Looks, Puts, Marks, Place, V, CallType, StoreType, Ops, Thread
<1>2. ASSUME NEW c \in Client, Read(c) PROVE TypeInv'
  <2>1. Get \in Seq(Item) /\ "Get" \in Ops /\ c \in Thread
      BY <1>2, GetLemma DEF Read, TypeInv, Ops, Thread
  <2>2. call' \in [Thread -> CallType]
      BY <1>2, <2>1, BeginLemma DEF Read
  <2> QED BY <1>1, <1>2, <2>2 DEF Read, Begin, TypeInv
<1>3. ASSUME NEW c \in Client, Write(c) PROVE TypeInv'
  <2>1. PICK w \in Writes : Begin(c, w[1], w[2])
      BY <1>3 DEF Write
  <2>2. w[2] \in Seq(Item) /\ w[1] \in Ops /\ c \in Thread
      BY WritesLemma DEF Thread
  <2>3. call' \in [Thread -> CallType]
      BY <2>1, <2>2, BeginLemma
  <2> QED BY <1>1, <2>1, <2>3 DEF Begin, TypeInv
<1>4. ASSUME NEW t \in Thread, Step(t) PROVE TypeInv'
    BY <1>4, StepTypes
<1>5. CASE backgroundFlush
  <2>1. service = "back" /\ Begin(Flusher, "autoFlush", autoFlush)
      BY <1>5 DEF backgroundFlush
  <2>2. autoFlush \in Seq(Item) /\ "autoFlush" \in Ops /\ Flusher \in Thread
    <3>1. Lock \in Item /\ Copy \in Item /\ Drop("dirty") \in Item
        BY <2>1, ItemLemma
    <3> QED BY <3>1 DEF autoFlush, Flush, Ops, Thread
  <2>3. call' \in [Thread -> CallType]
      BY <2>1, <2>2, BeginLemma
  <2> QED BY <1>1, <2>1, <2>3 DEF Begin, TypeInv
<1>6. CASE backgroundStop
  <2>1. [Idle EXCEPT !.op = "stopped"] \in CallType
      BY IdleLemma DEF CallType, Ops
  <2>2. call' \in [Thread -> CallType]
      BY <1>6, <2>1 DEF backgroundStop, TypeInv
  <2> QED BY <1>1, <1>6, <2>2 DEF backgroundStop, TypeInv
<1>7. ASSUME NEW s \in Cache, Forget(s) PROVE TypeInv'
  <2>1. store' \in StoreType /\ store'.dirty = store.dirty
      BY <1>7 DEF Forget, TypeInv, StoreType, V, Cache
  <2> QED BY <1>1, <1>7, <2>1 DEF Forget, TypeInv
<1>8. CASE ExpireLogically
  <2>1. store' \in StoreType /\ store'.dirty = store.dirty
      BY <1>8 DEF ExpireLogically, TypeInv, StoreType
  <2> QED BY <1>1, <1>8, <2>1 DEF ExpireLogically, TypeInv
<1>9. CASE TimeoutPasses \/ QueryFails \/ QuerySucceeds \/ UNCHANGED vars
    BY <1>1, <1>9 DEF TimeoutPasses, QueryFails, QuerySucceeds, vars, TypeInv
<1> QED BY <1>2, <1>3, <1>4, <1>5, <1>6, <1>7, <1>8, <1>9
    DEF Next, EvictLocal, ExpireShared, Cache

-----------------------------------------------------------------------------
(***************************************************************************)
(* What is left to do of a call of the mutex cache, and what has to hold   *)
(* meanwhile: from the lock on the call holds the key's mutex, and once it *)
(* has looked again the entry is missing until it fills it itself.         *)
(***************************************************************************)
Waits == <<Lock, Look("l1"), Look("db")>>
LooksAgain == <<Look("l1"), Look("db")>>
Loads == <<Look("db")>>
FillsL1(v) == <<Put("l1", v)>>

MutexOK(t) ==
    \/ call[t].todo \in {<<>>, GetOrSet, Waits}
    \/ mutex = t /\ call[t].todo = LooksAgain
    \/ mutex = t /\ call[t].todo = Loads /\ store.l1 = None
    \/ mutex = t /\ \E v \in V : call[t].todo = FillsL1(v)

MutexInv == service = "mutex" => \A t \in Thread : MutexOK(t)

(***************************************************************************)
(* The same for the write-back cache.  Its writes and flushes hold the     *)
(* mutex from their first step on; a flush that has copied the dirty value *)
(* to the database finds it there when it forgets it.                      *)
(***************************************************************************)
Sets(v) == <<Lock, Put("l1", v), Put("dirty", v)>>
SetsCache(v) == <<Put("l1", v), Put("dirty", v)>>
SetsDirty(v) == <<Put("dirty", v)>>
Deletes == <<Lock, Drop("l1"), Drop("dirty"), Drop("db")>>
DeletesCache == <<Drop("l1"), Drop("dirty"), Drop("db")>>
DeletesDirty == <<Drop("dirty"), Drop("db")>>
DeletesDb == <<Drop("db")>>
FlushCopies == <<Copy, Drop("dirty")>>
FlushForgets == <<Drop("dirty")>>
Closes == <<Lock, Copy, Drop("dirty"), Unlock, Stop>>
CloseCopies == <<Copy, Drop("dirty"), Unlock, Stop>>
CloseForgets == <<Drop("dirty"), Unlock, Stop>>
CloseUnlocks == <<Unlock, Stop>>
CloseStops == <<Stop>>

BackOK(t) ==
    \/ call[t].todo \in {<<>>, GetBack, Loads, Flush, Closes, CloseStops}
    \/ \E v \in V : call[t].todo = FillsL1(v)
    \/ \E v \in Value : call[t].todo = Sets(v)
    \/ call[t].op = "Delete" /\ call[t].todo = Deletes
    \/ mutex = t /\ \E v \in Value : call[t].todo \in {SetsCache(v), SetsDirty(v)}
    \/ mutex = t /\ call[t].op = "Delete"
       /\ call[t].todo \in {DeletesCache, DeletesDirty, DeletesDb}
    \/ mutex = t /\ call[t].todo \in {FlushCopies, CloseCopies, CloseUnlocks}
    \/ mutex = t /\ call[t].todo \in {FlushForgets, CloseForgets} /\ store.dirty \in {None, store.db}

BackInv == service = "back" => \A t \in Thread : BackOK(t)

(***************************************************************************)
(* What a step does is determined by the first of the steps to do.  Moves: *)
(* the call goes on with the steps X, and gives up the mutex if it ends.   *)
(***************************************************************************)
Moves(t, X) ==
    /\ GoesOn(t, X)
    /\ mutex' = IF X = <<>> /\ mutex = t THEN Nobody ELSE mutex

LEMMA MovesLemma ==
    ASSUME TypeInv, NEW t \in Thread, NEW X \in Seq(Item), Continue(t, X)
    PROVE  Moves(t, X)
BY GoOnLemma DEF Moves, Continue

LEMMA PutStep ==
    ASSUME TypeInv, NEW t \in Thread, Step(t), service # "logical", call[t].todo # <<>>,
           NEW s, NEW v, Head(call[t].todo) = Put(s, v)
    PROVE  store' = [store EXCEPT ![s] = v] /\ Moves(t, Tail(call[t].todo))
<1>1. Next1(t).do = "put" /\ Next1(t).at = s /\ Next1(t).val = v
    BY DEF Next1, Put
<1>2. DoPut(t)
    BY <1>1 DEF Step, DoLook, DoPut, DoLock, DoUnlock, DoCopy, DoSave, DoRestore, DoClose,
                DoGetLogical, DoIsUpdating, DoSetUpdating, Doing
<1>3. store' = [store EXCEPT ![s] = v] /\ Continue(t, Rest(t))
    BY <1>1, <1>2 DEF DoPut
<1>4. Rest(t) \in Seq(Item)
    BY NextLemma
<1> QED BY <1>3, <1>4, MovesLemma DEF Rest

LEMMA LockStep ==
    ASSUME TypeInv, NEW t \in Thread, Step(t), call[t].todo # <<>>, Head(call[t].todo) = Lock
    PROVE  /\ GoesOn(t, Tail(call[t].todo))
           /\ mutex = Nobody /\ mutex' = t /\ store' = store
<1>1. Next1(t).do = "lock"
    BY DEF Next1, Lock
<1>2. DoLock(t)
    BY <1>1 DEF Step, DoLook, DoPut, DoLock, DoUnlock, DoCopy, DoSave, DoRestore, DoClose,
                DoGetLogical, DoIsUpdating, DoSetUpdating, Doing
<1>3. call' = [call EXCEPT ![t].todo = Rest(t)]
    BY <1>2 DEF DoLock, Rest
<1>4. Rest(t) \in Seq(Item)
    BY NextLemma
<1> QED BY <1>2, <1>3, <1>4, GoOnLemma DEF DoLock, Rest

LEMMA UnlockStep ==
    ASSUME TypeInv, NEW t \in Thread, Step(t), call[t].todo # <<>>, Head(call[t].todo) = Unlock
    PROVE  GoesOn(t, Tail(call[t].todo)) /\ mutex' = Nobody /\ store' = store
<1>1. Next1(t).do = "unlock"
    BY DEF Next1, Unlock
<1>2. DoUnlock(t)
    BY <1>1 DEF Step, DoLook, DoPut, DoLock, DoUnlock, DoCopy, DoSave, DoRestore, DoClose,
                DoGetLogical, DoIsUpdating, DoSetUpdating, Doing
<1>3. call' = [call EXCEPT ![t].todo = Rest(t)]
    BY <1>2 DEF DoUnlock, Rest
<1>4. Rest(t) \in Seq(Item)
    BY NextLemma
<1> QED BY <1>2, <1>3, <1>4, GoOnLemma DEF DoUnlock, Rest

LEMMA CopyStep ==
    ASSUME TypeInv, NEW t \in Thread, Step(t), call[t].todo # <<>>, Head(call[t].todo) = Copy
    PROVE  store' = [store EXCEPT !.db = Current] /\ Moves(t, Tail(call[t].todo))
<1>1. Next1(t).do = "copy"
    BY DEF Next1, Copy
<1>2. DoCopy(t)
    BY <1>1 DEF Step, DoLook, DoPut, DoLock, DoUnlock, DoCopy, DoSave, DoRestore, DoClose,
                DoGetLogical, DoIsUpdating, DoSetUpdating, Doing
<1>3. Rest(t) \in Seq(Item)
    BY NextLemma
<1> QED BY <1>2, <1>3, MovesLemma DEF DoCopy, Rest

LEMMA CloseStep ==
    ASSUME TypeInv, NEW t \in Thread, Step(t), call[t].todo # <<>>, Head(call[t].todo) = Stop
    PROVE  store' = store /\ Moves(t, Tail(call[t].todo))
<1>1. Next1(t).do = "close"
    BY DEF Next1, Stop
<1>2. DoClose(t)
    BY <1>1 DEF Step, DoLook, DoPut, DoLock, DoUnlock, DoCopy, DoSave, DoRestore, DoClose,
                DoGetLogical, DoIsUpdating, DoSetUpdating, Doing
<1>3. Rest(t) \in Seq(Item)
    BY NextLemma
<1> QED BY <1>2, <1>3, MovesLemma DEF DoClose, Rest

(***************************************************************************)
(* A look into the cache of a service with one level ends the call or goes *)
(* on; one into the database fills the cache, if it has found anything.    *)
(***************************************************************************)
LEMMA LookStep ==
    ASSUME TypeInv, NEW t \in Thread, Step(t), service \in {"mutex", "back", "through"},
           call[t].todo # <<>>, NEW s \in {"l1", "db"}, Head(call[t].todo) = Look(s)
    PROVE  /\ store' = store /\ tainted' = tainted
           /\ s = "l1" /\ store.l1 # None => Moves(t, <<>>)
           /\ s = "l1" /\ store.l1 = None => Moves(t, Tail(call[t].todo))
           /\ s = "db" /\ Tail(call[t].todo) = <<>> =>
                  Moves(t, <<>>) \/ \E v \in V : v = store.db /\ Moves(t, FillsL1(v))
<1>0. <<>> \in Seq(Item)
    OBVIOUS
<1>1. Next1(t).do = "look" /\ Next1(t).at = s
    BY DEF Next1, Look
<1>2. DoLook(t)
    BY <1>1 DEF Step, DoLook, DoPut, DoLock, DoUnlock, DoCopy, DoSave, DoRestore, DoClose,
                DoGetLogical, DoIsUpdating, DoSetUpdating, Doing
<1>3. Rest(t) \in Seq(Item)
    BY NextLemma
<1>4. s = "l1" => PutAll(Fills(s), store[s]) = <<>>
  <2>1. s = "l1" => Fills(s) = <<>>
      BY DEF Fills
  <2>2. \A v : PutAll(<<>>, v) = <<>>
      BY DEF PutAll
  <2> QED BY <2>1, <2>2
<1>5. s = "db" => PutAll(Fills(s), store[s]) = FillsL1(store.db)
  <2>1. s = "db" => Fills(s) = <<"l1">>
      BY DEF Fills
  <2>2. \A v : PutAll(<<"l1">>, v) = <<Put("l1", v)>>
      BY DEF PutAll
  <2> QED BY <2>1, <2>2 DEF FillsL1
<1>6. CASE s = "l1" /\ store.l1 # None
  <2>1. Continue(t, <<>>)
      BY <1>1, <1>2, <1>4, <1>6 DEF DoLook
  <2>2. Moves(t, <<>>)
      BY <1>0, <2>1, MovesLemma
  <2> QED BY <1>2, <1>6, <2>2 DEF DoLook
<1>7. CASE s = "l1" /\ store.l1 = None
  <2>1. Continue(t, Rest(t))
      BY <1>1, <1>2, <1>7 DEF DoLook
  <2> QED BY <1>2, <1>3, <1>7, <2>1, MovesLemma DEF DoLook, Rest
<1>8. CASE s = "db" /\ Tail(call[t].todo) = <<>>
  <2>0. Rest(t) = <<>> /\ store.db \in V
      BY <1>8 DEF Rest, TypeInv, StoreType
  <2>1. FillsL1(store.db) \in Seq(Item) /\ FillsL1(store.db) \o <<>> = FillsL1(store.db)
    <3>1. Put("l1", store.db) \in Item
        BY <2>0, ItemLemma
    <3> QED BY <3>1 DEF FillsL1
  <2>2. CASE store.db = None
    <3>1. Continue(t, <<>>)
        BY <1>1, <1>2, <1>8, <2>0, <2>2 DEF DoLook
    <3>2. Moves(t, <<>>)
        BY <1>0, <3>1, MovesLemma
    <3> QED BY <1>2, <1>8, <3>2 DEF DoLook
  <2>3. CASE store.db # None
    <3>1. Continue(t, FillsL1(store.db))
        BY <1>1, <1>2, <1>5, <1>8, <2>0, <2>1, <2>3 DEF DoLook
    <3> QED BY <1>2, <1>8, <2>0, <2>1, <3>1, MovesLemma DEF DoLook
  <2> QED BY <2>2, <2>3
<1>9. CASE s = "db" /\ Tail(call[t].todo) # <<>>
    BY <1>2, <1>9 DEF DoLook
<1> QED BY <1>6, <1>7, <1>8, <1>9

-----------------------------------------------------------------------------
(***************************************************************************)
(* The mutex cache.                                                        *)
(***************************************************************************)
LEMMA MutexForms ==
    /\ GetOrSet # <<>> /\ Head(GetOrSet) = Look("l1") /\ Tail(GetOrSet) = Waits
    /\ Waits # <<>> /\ Head(Waits) = Lock /\ Tail(Waits) = LooksAgain
    /\ LooksAgain # <<>> /\ Head(LooksAgain) = Look("l1") /\ Tail(LooksAgain) = Loads
    /\ Loads # <<>> /\ Head(Loads) = Look("db") /\ Tail(Loads) = <<>>
    /\ \A v : FillsL1(v) # <<>> /\ Head(FillsL1(v)) = Put("l1", v) /\ Tail(FillsL1(v)) = <<>>
BY DEF GetOrSet, Waits, LooksAgain, Loads, FillsL1

(* A call that another one does not touch stays as it should be. *)
LEMMA MutexOthers ==
    ASSUME NEW u \in Thread, MutexOK(u), call'[u] = call[u],
           mutex = u => mutex' = u /\ (store.l1 = None => store'.l1 = None)
    PROVE  MutexOK(u)'
BY DEF MutexOK, V

LEMMA MutexStep ==
    ASSUME TypeInv, service = "mutex", \A u \in Thread : MutexOK(u),
           NEW t \in Thread, Step(t)
    PROVE  \A u \in Thread : MutexOK(u)'
<1>0. t # Nobody /\ call[t].todo # <<>> /\ MutexOK(t)
    BY NamesAssumption
       DEF Thread, Step, DoLook, DoPut, DoLock, DoUnlock, DoCopy, DoSave, DoRestore, DoClose,
           DoGetLogical, DoIsUpdating, DoSetUpdating, Doing
<1>1. \A u \in Thread : Nobody # u
    BY NamesAssumption DEF Thread
<1>2. ASSUME MutexOK(t)', \A u \in Thread \ {t} : call'[u] = call[u],
             mutex' = mutex \/ mutex = Nobody \/ mutex = t,
             store'.l1 = store.l1 \/ mutex = t
      PROVE  \A u \in Thread : MutexOK(u)'
  <2> TAKE u \in Thread
  <2>1. CASE u = t BY <1>2, <2>1
  <2>2. CASE u # t
    <3>1. mutex = u => mutex' = u /\ (store.l1 = None => store'.l1 = None)
        BY <1>1, <1>2, <2>2
    <3> QED BY <1>2, <2>2, <3>1, MutexOthers
  <2> QED BY <2>1, <2>2
<1>3. CASE call[t].todo = GetOrSet
  <2>1. store' = store /\ (Moves(t, <<>>) \/ Moves(t, Waits))
      BY <1>3, MutexForms, LookStep
  <2>2. MutexOK(t)'
      BY <2>1 DEF MutexOK, Moves, GoesOn
  <2> QED BY <1>2, <2>1, <2>2 DEF Moves, GoesOn
<1>4. CASE call[t].todo = Waits
  <2>1. GoesOn(t, LooksAgain) /\ mutex = Nobody /\ mutex' = t /\ store' = store
      BY <1>4, MutexForms, LockStep
  <2>2. MutexOK(t)'
      BY <2>1 DEF MutexOK, GoesOn
  <2> QED BY <1>2, <2>1, <2>2 DEF GoesOn
<1>5. CASE mutex = t /\ call[t].todo = LooksAgain
  <2>1. store' = store /\ (Moves(t, <<>>) \/ (store.l1 = None /\ Moves(t, Loads)))
      BY <1>5, MutexForms, LookStep
  <2>2. MutexOK(t)'
      BY <1>5, <2>1, MutexForms DEF MutexOK, Moves, GoesOn
  <2> QED BY <1>2, <1>5, <2>1, <2>2 DEF Moves, GoesOn
<1>6. CASE mutex = t /\ call[t].todo = Loads
  <2>1. store' = store /\ (Moves(t, <<>>) \/ \E v \in V : Moves(t, FillsL1(v)))
      BY <1>6, MutexForms, LookStep
  <2>2. MutexOK(t)'
    <3>1. CASE Moves(t, <<>>)
        BY <3>1 DEF MutexOK, Moves, GoesOn
    <3>2. ASSUME NEW v \in V, Moves(t, FillsL1(v)) PROVE MutexOK(t)'
      <4>1. mutex' = t /\ call'[t].todo = FillsL1(v)
          BY <1>6, <3>2, MutexForms DEF Moves, GoesOn
      <4> QED BY <4>1 DEF MutexOK, V, FillsL1, Put
    <3> QED BY <2>1, <3>1, <3>2
  <2> QED BY <1>2, <1>6, <2>1, <2>2 DEF Moves, GoesOn
<1>7. ASSUME NEW v \in V, mutex = t, call[t].todo = FillsL1(v)
      PROVE  \A u \in Thread : MutexOK(u)'
  <2>0. /\ call[t].todo # <<>> /\ Head(call[t].todo) = Put("l1", v) /\ Tail(call[t].todo) = <<>>
        /\ service # "logical"
      BY <1>7, MutexForms
  <2>1. Moves(t, <<>>)
      BY <2>0, PutStep
  <2>2. MutexOK(t)'
      BY <2>1 DEF MutexOK, Moves, GoesOn
  <2> QED BY <1>2, <1>7, <2>1, <2>2 DEF Moves, GoesOn
<1> QED BY <1>0, <1>3, <1>4, <1>5, <1>6, <1>7 DEF MutexOK

LEMMA MutexNext == TypeInv /\ MutexInv /\ [Next]_vars => MutexInv'
<1> SUFFICES ASSUME TypeInv, MutexInv, [Next]_vars, service' = "mutex"
             PROVE  \A t \in Thread : MutexOK(t)'
    BY DEF MutexInv, Thread
<1>1. service = "mutex" /\ \A t \in Thread : MutexOK(t)
  <2>1. service' = service
      BY DEF Next, Read, Write, Begin, Step, DoLook, DoPut, DoLock, DoUnlock, DoCopy, DoSave,
             DoRestore, DoClose, DoGetLogical, DoIsUpdating, DoSetUpdating, backgroundFlush,
             backgroundStop, EvictLocal, ExpireShared, Forget, ExpireLogically,
             TimeoutPasses, QueryFails, QuerySucceeds, vars
  <2> QED BY <2>1 DEF MutexInv
<1>2. ASSUME NEW t \in Thread, Step(t) PROVE \A u \in Thread : MutexOK(u)'
    BY <1>1, <1>2, MutexStep
<1>3. ASSUME NEW c \in Client, Read(c) PROVE \A u \in Thread : MutexOK(u)'
  <2>1. Get = GetOrSet /\ Get \in Seq(Item) /\ "Get" \in Ops /\ c \in Thread
      BY <1>1, <1>3, GetLemma DEF Get, TypeInv, Ops, Thread
  <2>2. call'[c].todo = GetOrSet /\ \A u \in Thread \ {c} : call'[u] = call[u]
      BY <1>3, <2>1, BeginLemma DEF Read
  <2>3. mutex' = mutex /\ store' = store
      BY <1>3 DEF Read, Begin
  <2>4. MutexOK(c)'
      BY <2>2 DEF MutexOK
  <2> QED BY <1>1, <2>2, <2>3, <2>4, MutexOthers
<1>4. ASSUME NEW c \in Client, Write(c) PROVE FALSE
    BY <1>1, <1>4 DEF Write, Writes
<1>5. CASE backgroundFlush \/ ExpireLogically \/ TimeoutPasses \/ QueryFails \/ QuerySucceeds
    BY <1>1, <1>5 DEF backgroundFlush, ExpireLogically, TimeoutPasses, QueryFails, QuerySucceeds
<1>6. CASE backgroundStop
  <2>1. /\ \A u \in Thread \ {Flusher} : call'[u] = call[u]
        /\ call'[Flusher].todo = <<>>
        /\ mutex' = mutex /\ store' = store
      BY <1>6, IdleLemma DEF backgroundStop, TypeInv, Thread, CallType
  <2>2. MutexOK(Flusher)'
      BY <2>1 DEF MutexOK
  <2> QED BY <1>1, <2>1, <2>2, MutexOthers
<1>7. ASSUME NEW s \in Cache, Forget(s) PROVE \A u \in Thread : MutexOK(u)'
  <2>1. call' = call /\ mutex' = mutex /\ (store.l1 = None => store'.l1 = None)
      BY <1>7 DEF Forget, TypeInv, StoreType, Cache
  <2> QED BY <1>1, <2>1, MutexOthers
<1>8. CASE UNCHANGED vars
    BY <1>1, <1>8, MutexOthers DEF vars
<1> QED BY <1>2, <1>3, <1>4, <1>5, <1>6, <1>7, <1>8
    DEF Next, EvictLocal, ExpireShared, Cache

(***************************************************************************)
(* The mutex cache queries the database only for an entry that is missing, *)
(* however many calls have missed it together (GetOrSet looks again when   *)
(* it has the key's mutex).                                                *)
(***************************************************************************)
THEOREM LoadsSafe == Spec => []NoNeedlessLoad
<1>1. Init => TypeInv /\ MutexInv
  <2> SUFFICES ASSUME Init PROVE TypeInv /\ MutexInv
      OBVIOUS
  <2>1. store \in StoreType /\ store.dirty = None
      BY DEF Init, StoreType, V, Preloaded
  <2>2. call \in [Thread -> CallType] /\ \A t \in Thread : call[t].todo = <<>>
      BY IdleLemma DEF Init
  <2> QED BY <2>1, <2>2 DEF Init, TypeInv, MutexInv, MutexOK
<1>3. TypeInv /\ MutexInv => NoNeedlessLoad
  <2> SUFFICES ASSUME TypeInv, MutexInv, NEW c \in Client, service = "mutex",
                      Doing(c, "look"), Next1(c).at = "db"
               PROVE  store.l1 = None /\ mutex = c
      BY DEF NoNeedlessLoad
  <2>1. MutexOK(c) /\ call[c].todo # <<>> /\ Head(call[c].todo).do = "look"
        /\ Head(call[c].todo).at = "db"
      BY DEF MutexInv, Thread, Doing, Next1
  <2>2. /\ Look("l1").at = "l1" /\ Lock.do = "lock"
        /\ \A v : Put("l1", v).at = "l1"
      BY DEF Look, Lock, Put
  <2> QED BY <2>1, <2>2, MutexForms DEF MutexOK
<1> QED BY <1>1, <1>3, MutexNext, TypeStep, PTL DEF Spec

-----------------------------------------------------------------------------
(***************************************************************************)
(* The write-back cache.                                                   *)
(***************************************************************************)
LEMMA BackForms ==
    /\ GetBack # <<>> /\ Head(GetBack) = Look("l1") /\ Tail(GetBack) = Loads
    /\ Flush # <<>> /\ Head(Flush) = Lock /\ Tail(Flush) = FlushCopies
    /\ FlushCopies # <<>> /\ Head(FlushCopies) = Copy /\ Tail(FlushCopies) = FlushForgets
    /\ FlushForgets # <<>> /\ Head(FlushForgets) = Put("dirty", None) /\ Tail(FlushForgets) = <<>>
    /\ Closes # <<>> /\ Head(Closes) = Lock /\ Tail(Closes) = CloseCopies
    /\ CloseCopies # <<>> /\ Head(CloseCopies) = Copy /\ Tail(CloseCopies) = CloseForgets
    /\ CloseForgets # <<>> /\ Head(CloseForgets) = Put("dirty", None)
    /\ Tail(CloseForgets) = CloseUnlocks
    /\ CloseUnlocks # <<>> /\ Head(CloseUnlocks) = Unlock /\ Tail(CloseUnlocks) = CloseStops
    /\ CloseStops # <<>> /\ Head(CloseStops) = Stop /\ Tail(CloseStops) = <<>>
BY DEF GetBack, Loads, Flush, FlushCopies, FlushForgets, Closes, CloseCopies, CloseForgets,
       CloseUnlocks, CloseStops, Drop

LEMMA BackWriteForms ==
    /\ \A v : /\ Sets(v) # <<>> /\ Head(Sets(v)) = Lock /\ Tail(Sets(v)) = SetsCache(v)
              /\ SetsCache(v) # <<>> /\ Head(SetsCache(v)) = Put("l1", v)
              /\ Tail(SetsCache(v)) = SetsDirty(v)
              /\ SetsDirty(v) # <<>> /\ Head(SetsDirty(v)) = Put("dirty", v)
              /\ Tail(SetsDirty(v)) = <<>>
    /\ Deletes # <<>> /\ Head(Deletes) = Lock /\ Tail(Deletes) = DeletesCache
    /\ DeletesCache # <<>> /\ Head(DeletesCache) = Put("l1", None)
    /\ Tail(DeletesCache) = DeletesDirty
    /\ DeletesDirty # <<>> /\ Head(DeletesDirty) = Put("dirty", None)
    /\ Tail(DeletesDirty) = DeletesDb
    /\ DeletesDb # <<>> /\ Head(DeletesDb) = Put("db", None) /\ Tail(DeletesDb) = <<>>
BY DEF Sets, SetsCache, SetsDirty, Deletes, DeletesCache, DeletesDirty, DeletesDb, Drop

LEMMA BackOthers ==
    ASSUME NEW u \in Thread, BackOK(u), call'[u] = call[u],
           mutex = u => mutex' = u /\ store'.dirty = store.dirty /\ store'.db = store.db
    PROVE  BackOK(u)'
BY DEF BackOK

(***************************************************************************)
(* What a step may do: only the call that holds the mutex touches the      *)
(* dirty data and the database, and it forgets the dirty value only when   *)
(* the database has it or in a Delete.                                     *)
(***************************************************************************)
BackAllowed(t) ==
    /\ \A u \in Thread \ {t} : call'[u] = call[u]
    /\ mutex' = mutex \/ mutex = Nobody \/ mutex = t
    /\ mutex = t \/ (store'.dirty = store.dirty /\ store'.db = store.db)
    /\ store.dirty # None /\ store'.dirty = None =>
           store.db = store.dirty \/ (mutex = t /\ call[t].op = "Delete")

LEMMA BackStep ==
    ASSUME TypeInv, service = "back", NEW t \in Thread, Step(t), BackOK(t)
    PROVE  BackOK(t)' /\ BackAllowed(t)
<1>0. t # Nobody /\ call[t].todo # <<>> /\ service # "logical" /\ store \in StoreType
      /\ None \notin Value /\ None \in V /\ Value \subseteq V
    BY NamesAssumption
       DEF Thread, Step, DoLook, DoPut, DoLock, DoUnlock, DoCopy, DoSave, DoRestore, DoClose,
           DoGetLogical, DoIsUpdating, DoSetUpdating, Doing, TypeInv, V
<1>1. CASE call[t].todo = GetBack
  <2>1. store' = store /\ (Moves(t, <<>>) \/ Moves(t, Loads))
      BY <1>0, <1>1, BackForms, LookStep
  <2>2. BackOK(t)'
      BY <1>0, <1>1, <2>1 DEF BackOK, Moves, GoesOn
  <2> QED BY <1>0, <1>1, <2>1, <2>2 DEF BackAllowed, Moves, GoesOn, StoreType
<1>2. CASE call[t].todo = Loads
  <2>1. store' = store /\ (Moves(t, <<>>) \/ \E v \in V : Moves(t, FillsL1(v)))
      BY <1>2, MutexForms, LookStep
  <2>2. BackOK(t)'
    <3>1. CASE Moves(t, <<>>)
        BY <3>1 DEF BackOK, Moves, GoesOn
    <3>2. ASSUME NEW v \in V, Moves(t, FillsL1(v)) PROVE BackOK(t)'
        BY <3>2 DEF BackOK, Moves, GoesOn, V, FillsL1, Put
    <3> QED BY <2>1, <3>1, <3>2
  <2> QED BY <1>0, <1>2, <2>1, <2>2 DEF BackAllowed, Moves, GoesOn, StoreType
<1>3. ASSUME NEW v \in V, call[t].todo = FillsL1(v) PROVE BackOK(t)' /\ BackAllowed(t)
  <2>0. Head(call[t].todo) = Put("l1", v) /\ Tail(call[t].todo) = <<>>
      BY <1>3, MutexForms
  <2>1. store' = [store EXCEPT !.l1 = v] /\ Moves(t, <<>>)
      BY <1>0, <2>0, PutStep
  <2>2. BackOK(t)'
      BY <1>0, <1>3, <2>1 DEF BackOK, Moves, GoesOn
  <2> QED BY <1>0, <1>3, <2>1, <2>2 DEF BackAllowed, Moves, GoesOn, StoreType
<1>4. CASE call[t].todo = Flush
  <2>1. GoesOn(t, FlushCopies) /\ mutex = Nobody /\ mutex' = t /\ store' = store
      BY <1>0, <1>4, BackForms, LockStep
  <2>2. BackOK(t)'
      BY <1>0, <1>4, <2>1 DEF BackOK, Moves, GoesOn
  <2> QED BY <1>0, <1>4, <2>1, <2>2 DEF BackAllowed, Moves, GoesOn, StoreType
<1>5. CASE call[t].todo = Closes
  <2>1. GoesOn(t, CloseCopies) /\ mutex = Nobody /\ mutex' = t /\ store' = store
      BY <1>0, <1>5, BackForms, LockStep
  <2>2. BackOK(t)'
      BY <1>0, <1>5, <2>1 DEF BackOK, Moves, GoesOn
  <2> QED BY <1>0, <1>5, <2>1, <2>2 DEF BackAllowed, Moves, GoesOn, StoreType
<1>6. CASE call[t].todo = CloseStops
  <2>1. store' = store /\ Moves(t, <<>>)
      BY <1>0, <1>6, BackForms, CloseStep
  <2>2. BackOK(t)'
      BY <1>0, <1>6, <2>1 DEF BackOK, Moves, GoesOn
  <2> QED BY <1>0, <1>6, <2>1, <2>2 DEF BackAllowed, Moves, GoesOn, StoreType
<1>7. ASSUME NEW v \in Value, call[t].todo = Sets(v) PROVE BackOK(t)' /\ BackAllowed(t)
  <2>1. GoesOn(t, SetsCache(v)) /\ mutex = Nobody /\ mutex' = t /\ store' = store
      BY <1>0, <1>7, BackWriteForms, LockStep
  <2>2. BackOK(t)'
      BY <1>0, <1>7, <2>1 DEF BackOK, Moves, GoesOn
  <2> QED BY <1>0, <1>7, <2>1, <2>2 DEF BackAllowed, Moves, GoesOn, StoreType
<1>8. CASE call[t].op = "Delete" /\ call[t].todo = Deletes
  <2>1. GoesOn(t, DeletesCache) /\ mutex = Nobody /\ mutex' = t /\ store' = store
      BY <1>0, <1>8, BackWriteForms, LockStep
  <2>2. BackOK(t)'
      BY <1>0, <1>8, <2>1, BackWriteForms DEF BackOK, Moves, GoesOn
  <2> QED BY <1>0, <1>8, <2>1, <2>2 DEF BackAllowed, Moves, GoesOn, StoreType
<1>9. ASSUME NEW v \in Value, mutex = t, call[t].todo = SetsCache(v) PROVE BackOK(t)' /\ BackAllowed(t)
  <2>0. Head(call[t].todo) = Put("l1", v) /\ Tail(call[t].todo) = SetsDirty(v)
      BY <1>9, BackWriteForms
  <2>1. store' = [store EXCEPT !.l1 = v] /\ Moves(t, SetsDirty(v))
      BY <1>0, <2>0, PutStep
  <2>2. BackOK(t)'
      BY <1>0, <1>9, <2>1, BackWriteForms DEF BackOK, Moves, GoesOn
  <2> QED BY <1>0, <1>9, <2>1, <2>2 DEF BackAllowed, Moves, GoesOn, StoreType
<1>10. ASSUME NEW v \in Value, mutex = t, call[t].todo = SetsDirty(v) PROVE BackOK(t)' /\ BackAllowed(t)
  <2>0. Head(call[t].todo) = Put("dirty", v) /\ Tail(call[t].todo) = <<>>
      BY <1>10, BackWriteForms
  <2>1. store' = [store EXCEPT !.dirty = v] /\ Moves(t, <<>>)
      BY <1>0, <2>0, PutStep
  <2>2. BackOK(t)'
      BY <1>0, <1>10, <2>1 DEF BackOK, Moves, GoesOn
  <2> QED BY <1>0, <1>10, <2>1, <2>2 DEF BackAllowed, Moves, GoesOn, StoreType
<1>11. CASE mutex = t /\ call[t].op = "Delete" /\ call[t].todo = DeletesCache
  <2>0. Head(call[t].todo) = Put("l1", None) /\ Tail(call[t].todo) = DeletesDirty
      BY <1>11, BackWriteForms
  <2>1. store' = [store EXCEPT !.l1 = None] /\ Moves(t, DeletesDirty)
      BY <1>0, <2>0, PutStep
  <2>2. BackOK(t)'
      BY <1>0, <1>11, <2>1, BackWriteForms DEF BackOK, Moves, GoesOn
  <2> QED BY <1>0, <1>11, <2>1, <2>2 DEF BackAllowed, Moves, GoesOn, StoreType
<1>12. CASE mutex = t /\ call[t].op = "Delete" /\ call[t].todo = DeletesDirty
  <2>0. Head(call[t].todo) = Put("dirty", None) /\ Tail(call[t].todo) = DeletesDb
      BY <1>12, BackWriteForms
  <2>1. store' = [store EXCEPT !.dirty = None] /\ Moves(t, DeletesDb)
      BY <1>0, <2>0, PutStep
  <2>2. BackOK(t)'
      BY <1>0, <1>12, <2>1, BackWriteForms DEF BackOK, Moves, GoesOn
  <2> QED BY <1>0, <1>12, <2>1, <2>2 DEF BackAllowed, Moves, GoesOn, StoreType
<1>13. CASE mutex = t /\ call[t].op = "Delete" /\ call[t].todo = DeletesDb
  <2>0. Head(call[t].todo) = Put("db", None) /\ Tail(call[t].todo) = <<>>
      BY <1>13, BackWriteForms
  <2>1. store' = [store EXCEPT !.db = None] /\ Moves(t, <<>>)
      BY <1>0, <2>0, PutStep
  <2>2. BackOK(t)'
      BY <1>0, <1>13, <2>1 DEF BackOK, Moves, GoesOn
  <2> QED BY <1>0, <1>13, <2>1, <2>2 DEF BackAllowed, Moves, GoesOn, StoreType
<1>14. CASE mutex = t /\ call[t].todo = FlushCopies
  <2>1. store' = [store EXCEPT !.db = Current] /\ Moves(t, FlushForgets)
      BY <1>0, <1>14, BackForms, CopyStep
  <2>2. BackOK(t)'
      BY <1>0, <1>14, <2>1, BackForms DEF BackOK, Moves, GoesOn, Current, StoreType
  <2> QED BY <1>0, <1>14, <2>1, <2>2 DEF BackAllowed, Moves, GoesOn, StoreType
<1>15. CASE mutex = t /\ call[t].todo = CloseCopies
  <2>1. store' = [store EXCEPT !.db = Current] /\ Moves(t, CloseForgets)
      BY <1>0, <1>15, BackForms, CopyStep
  <2>2. BackOK(t)'
      BY <1>0, <1>15, <2>1, BackForms DEF BackOK, Moves, GoesOn, Current, StoreType
  <2> QED BY <1>0, <1>15, <2>1, <2>2 DEF BackAllowed, Moves, GoesOn, StoreType
<1>16. CASE mutex = t /\ call[t].todo = FlushForgets /\ store.dirty \in {None, store.db}
  <2>0. Head(call[t].todo) = Put("dirty", None) /\ Tail(call[t].todo) = <<>>
      BY <1>16, BackForms
  <2>1. store' = [store EXCEPT !.dirty = None] /\ Moves(t, <<>>)
      BY <1>0, <2>0, PutStep
  <2>2. BackOK(t)'
      BY <1>0, <1>16, <2>1 DEF BackOK, Moves, GoesOn
  <2> QED BY <1>0, <1>16, <2>1, <2>2 DEF BackAllowed, Moves, GoesOn, StoreType
<1>17. CASE mutex = t /\ call[t].todo = CloseForgets /\ store.dirty \in {None, store.db}
  <2>0. Head(call[t].todo) = Put("dirty", None) /\ Tail(call[t].todo) = CloseUnlocks
      BY <1>17, BackForms
  <2>1. store' = [store EXCEPT !.dirty = None] /\ Moves(t, CloseUnlocks)
      BY <1>0, <2>0, PutStep
  <2>2. BackOK(t)'
      BY <1>0, <1>17, <2>1, BackForms DEF BackOK, Moves, GoesOn
  <2> QED BY <1>0, <1>17, <2>1, <2>2 DEF BackAllowed, Moves, GoesOn, StoreType
<1>18. CASE mutex = t /\ call[t].todo = CloseUnlocks
  <2>1. GoesOn(t, CloseStops) /\ mutex' = Nobody /\ store' = store
      BY <1>0, <1>18, BackForms, UnlockStep
  <2>2. BackOK(t)'
      BY <1>0, <1>18, <2>1 DEF BackOK, Moves, GoesOn
  <2> QED BY <1>0, <1>18, <2>1, <2>2 DEF BackAllowed, Moves, GoesOn, StoreType
<1> QED BY <1>0, <1>1, <1>2, <1>3, <1>4, <1>5, <1>6, <1>7, <1>8, <1>9, <1>10, <1>11, <1>12, <1>13, <1>14, <1>15, <1>16, <1>17, <1>18
    DEF BackOK

(* What a call of the write-back cache begins with *)
LEMMA BackBegins ==
    ASSUME NEW w \in BackWrites
    PROVE  \/ \E v \in Value : w[2] = Sets(v)
           \/ w[1] = "Delete" /\ w[2] = Deletes
           \/ w[2] \in {Flush, Closes}
<1>1. Flush \o <<Unlock, Stop>> = Closes
  <2>1. ASSUME NEW a, NEW b, NEW c, NEW d, NEW e
        PROVE  <<a, b, c>> \o <<d, e>> = <<a, b, c, d, e>>
    <3> DEFINE S == {a, b, c, d, e}
               X == <<a, b, c>> \o <<d, e>>
               Y == <<a, b, c, d, e>>
    <3>1. <<a, b, c>> \in Seq(S) /\ <<d, e>> \in Seq(S) /\ Y \in Seq(S)
        OBVIOUS
    <3>2. X \in Seq(S) /\ Len(X) = 5 /\ Len(Y) = 5
        BY <3>1
    <3>3. \A i \in 1 .. 5 : X[i] = Y[i]
        BY <3>1
    <3> QED BY <3>1, <3>2, <3>3, SeqEqual
  <2> QED BY <2>1 DEF Flush, Closes
<1>2. ASSUME NEW v \in Value, w = <<"Set", <<Lock, Put("l1", v), Put("dirty", v)>>>>
      PROVE  w[2] = Sets(v)
    BY <1>2 DEF Sets
<1>3. ASSUME w = <<"Delete", <<Lock, Drop("l1"), Drop("dirty"), Drop("db")>>>>
      PROVE  w[1] = "Delete" /\ w[2] = Deletes
    BY <1>3 DEF Deletes
<1>4. ASSUME w = <<"Flush", Flush>> PROVE w[2] = Flush
    BY <1>4
<1>5. ASSUME w = <<"Close", Flush \o <<Unlock, Stop>>>> PROVE w[2] = Closes
    BY <1>1, <1>5
<1> QED BY <1>2, <1>3, <1>4, <1>5 DEF BackWrites

LEMMA BackAll ==
    ASSUME NEW t \in Thread, \A u \in Thread : BackOK(u), BackOK(t)', BackAllowed(t)
    PROVE  \A u \in Thread : BackOK(u)'
<1> TAKE u \in Thread
<1>1. CASE u = t BY <1>1
<1>2. CASE u # t
  <2>1. mutex = u => mutex' = u /\ store'.dirty = store.dirty /\ store'.db = store.db
      BY <1>2, NamesAssumption DEF BackAllowed, Thread
  <2> QED BY <1>2, <2>1, BackOthers DEF BackAllowed
<1> QED BY <1>1, <1>2

(* A call that begins *)
LEMMA BackBegun ==
    ASSUME TypeInv, \A u \in Thread : BackOK(u),
           NEW t \in Thread, NEW o \in Ops, NEW X \in Seq(Item), Begin(t, o, X),
           \/ X \in {GetBack, Flush, Closes}
           \/ \E v \in Value : X = Sets(v)
           \/ o = "Delete" /\ X = Deletes
    PROVE  (\A u \in Thread : BackOK(u)') /\ store' = store
<1>1. call'[t].todo = X /\ call'[t].op = o /\ \A u \in Thread \ {t} : call'[u] = call[u]
    BY BeginLemma
<1>2. mutex' = mutex /\ store' = store
    BY DEF Begin
<1>3. BackOK(t)'
    BY <1>1 DEF BackOK
<1>4. BackAllowed(t)
    BY <1>1, <1>2 DEF BackAllowed
<1> QED BY <1>2, <1>3, <1>4, BackAll

LEMMA BackNext ==
    ASSUME TypeInv, service = "back", \A u \in Thread : BackOK(u), [Next]_vars
    PROVE  /\ \A u \in Thread : BackOK(u)'
           /\ store.dirty # None /\ store'.dirty = None =>
                  \/ store.db = store.dirty
                  \/ \E t \in Thread : mutex = t /\ call[t].op = "Delete"
<1>1. ASSUME NEW t \in Thread, Step(t)
      PROVE  (\A u \in Thread : BackOK(u)') /\ BackAllowed(t)
    BY <1>1, BackStep, BackAll
<1>2. ASSUME NEW c \in Client, Read(c) PROVE (\A u \in Thread : BackOK(u)') /\ store' = store
  <2>1. Get = GetBack /\ Get \in Seq(Item) /\ "Get" \in Ops /\ c \in Thread
      BY <1>2, GetLemma DEF Get, TypeInv, Ops, Thread
  <2> QED BY <1>2, <2>1, BackBegun DEF Read
<1>3. ASSUME NEW c \in Client, Write(c) PROVE (\A u \in Thread : BackOK(u)') /\ store' = store
  <2>1. PICK w \in Writes : Begin(c, w[1], w[2])
      BY <1>3 DEF Write
  <2>2. w[2] \in Seq(Item) /\ w[1] \in Ops /\ c \in Thread
      BY WritesLemma DEF Thread
  <2>3. w \in BackWrites
      BY DEF Writes
  <2>4. \/ \E v \in Value : w[2] = Sets(v)
        \/ w[1] = "Delete" /\ w[2] = Deletes
        \/ w[2] \in {Flush, Closes}
      BY <2>3, BackBegins
  <2> QED BY <2>1, <2>2, <2>4, BackBegun
<1>4. CASE backgroundFlush
  <2>1. Flush \in Seq(Item) /\ "autoFlush" \in Ops /\ Flusher \in Thread
    <3>1. Lock \in Item /\ Copy \in Item /\ Drop("dirty") \in Item
        BY ItemLemma
    <3> QED BY <3>1 DEF Flush, Ops, Thread
  <2>2. Begin(Flusher, "autoFlush", Flush)
      BY <1>4 DEF backgroundFlush, autoFlush
  <2> QED BY <2>1, <2>2, BackBegun
<1>5. CASE backgroundStop
  <2>1. /\ \A u \in Thread \ {Flusher} : call'[u] = call[u]
        /\ call'[Flusher].todo = <<>>
        /\ mutex' = mutex /\ store' = store /\ Flusher \in Thread
      BY <1>5, IdleLemma DEF backgroundStop, TypeInv, Thread, CallType
  <2>2. BackOK(Flusher)'
      BY <2>1 DEF BackOK
  <2> QED BY <2>1, <2>2, BackAll DEF BackAllowed
<1>6. CASE EvictLocal \/ ExpireShared \/ ExpireLogically \/ TimeoutPasses \/ QueryFails \/ QuerySucceeds
    BY <1>6 DEF EvictLocal, ExpireShared, Forget, Expires, ExpireLogically, TimeoutPasses,
                QueryFails, QuerySucceeds
<1>7. CASE UNCHANGED vars
    BY <1>7, BackOthers DEF vars
<1> QED BY <1>1, <1>2, <1>3, <1>4, <1>5, <1>6, <1>7 DEF Next, BackAllowed

(***************************************************************************)
(* Write-back never forgets an accepted value: it leaves the dirty data    *)
(* only when the database has it, for a newer value or by a Delete,        *)
(* whichever writers, flushes and passes of the flusher meet (Set, Delete, *)
(* Flush, autoFlush and Close under the one mutex).                        *)
(***************************************************************************)
THEOREM DirtySafe == Spec => DirtyIsNotLost
<1>1. Init => TypeInv /\ BackInv
  <2> SUFFICES ASSUME Init PROVE TypeInv /\ BackInv
      OBVIOUS
  <2>1. store \in StoreType /\ store.dirty = None
      BY DEF Init, StoreType, V, Preloaded
  <2>2. call \in [Thread -> CallType] /\ \A t \in Thread : call[t].todo = <<>>
      BY IdleLemma DEF Init
  <2> QED BY <2>1, <2>2 DEF Init, TypeInv, BackInv, BackOK
<1>2. TypeInv /\ BackInv /\ [Next]_vars => BackInv'
  <2> SUFFICES ASSUME TypeInv, BackInv, [Next]_vars, service' = "back"
               PROVE  \A t \in Thread : BackOK(t)'
      BY DEF BackInv, Thread
  <2>1. service' = service
      BY DEF Next, Read, Write, Begin, Step, DoLook, DoPut, DoLock, DoUnlock, DoCopy, DoSave,
             DoRestore, DoClose, DoGetLogical, DoIsUpdating, DoSetUpdating, backgroundFlush,
             backgroundStop, EvictLocal, ExpireShared, Forget, ExpireLogically,
             TimeoutPasses, QueryFails, QuerySucceeds, vars
  <2>2. service = "back" /\ \A t \in Thread : BackOK(t)
      BY <2>1 DEF BackInv
  <2> QED BY <2>2, BackNext
<1>3. TypeInv /\ BackInv /\ [Next]_vars =>
          [store.dirty # None /\ store'.dirty = None =>
               \/ store.db = store.dirty
               \/ \E t \in Thread : mutex = t /\ call[t].op = "Delete"]_vars
  <2> SUFFICES ASSUME TypeInv, BackInv, [Next]_vars, store.dirty # None, store'.dirty = None
               PROVE  \/ store.db = store.dirty
                      \/ \E t \in Thread : mutex = t /\ call[t].op = "Delete"
      OBVIOUS
  <2>1. service = "back" /\ \A t \in Thread : BackOK(t)
      BY DEF TypeInv, BackInv
  <2> QED BY <2>1, BackNext
<1> QED BY <1>1, <1>2, <1>3, TypeStep, PTL DEF Spec, DirtyIsNotLost
-----------------------------------------------------------------------------
(***************************************************************************)
(* Stale values.  The services fall in five groups.  In the plain ones     *)
(* nobody locks anything: a call looks, then fills; or it writes to the    *)
(* caches only; or it writes to the database, and has still to write to    *)
(* every cache that may hold what it replaced.                             *)
(***************************************************************************)
TwoLevels == {"multilevel", "invalidating", "two levels"}
Levels == IF service \in TwoLevels THEN Cache ELSE {"l1"}
CachePuts == [do : {"put"}, at : Levels, val : V]
LookLists == {<<Look("l1"), Look("l2"), Look("db")>>, <<Look("l2"), Look("db")>>,
              <<Look("l1"), Look("db")>>, <<Look("db")>>}

PutDb(v, w) == <<Put("db", v), Put("l1", w)>>
DropPutDb(v) == <<Put("l1", None), Put("db", v), Put("l1", None)>>
PutDb21(v, w) == <<Put("db", v), Put("l2", w), Put("l1", w)>>
PutDb12(v, w) == <<Put("db", v), Put("l1", w), Put("l2", w)>>

Plain == {"aside", "multilevel", "invalidating", "two levels", "vulnerable", "null", "breaker"}

PlainList(X) ==
    \/ X \in LookLists
    \/ X \in Seq(CachePuts)
    \/ service = "aside" /\ \E v, w \in V : X \in {PutDb(v, w), DropPutDb(v)}
    \/ service \in {"multilevel", "invalidating"}
       /\ \E v, w \in V : X \in {PutDb21(v, w), PutDb12(v, w)}

PlainOK(t) == PlainList(call[t].todo)

(* Among the steps X there is one that puts something at s. *)
HasPut(X, s) == \E i \in 1 .. Len(X) : X[i].do = "put" /\ X[i].at = s

Settled(s) == store[s] = None \/ Agrees(store[s])

PlainFresh(s) == s \in tainted \/ Settled(s) \/ \E t \in Thread : HasPut(call[t].todo, s)

PlainHere ==
    /\ mutex = Nobody
    /\ \A t \in Thread : PlainOK(t)
    /\ \A s \in Cache : PlainFresh(s)

(***************************************************************************)
(* Write-through: the cache is ahead of the database while a Set holds the *)
(* mutex, or holds what a failed one has still to roll back.  What a call  *)
(* without the mutex puts there meanwhile is late.                         *)
(***************************************************************************)
SetsDb(v) == <<Put("db", v)>>
SetsBoth(v) == <<Put("l1", v), Put("db", v)>>
SetsThrough(v) == <<Lock, Put("l1", v), Put("db", v)>>
TriesLocked(v) == <<Lock, Save, Put("l1", v), Restore>>
TriesSaved(v) == <<Save, Put("l1", v), Restore>>
Tries(v) == <<Put("l1", v), Restore>>
Restores == <<Restore>>

(* What will be restored is in the database, or had come late. *)
SavedOK(t) == call[t].late \/ call[t].saved = None \/ Agrees(call[t].saved)

ThroughOK(t) ==
    \/ mutex # t /\ call[t].todo \in {<<>>, GetThrough, Loads}
    \/ mutex # t /\ \E v \in V : call[t].todo \in {FillsL1(v), SetsThrough(v), TriesLocked(v)}
    \/ mutex = t /\ call[t].todo = Restores /\ SavedOK(t)
    \/ mutex = t /\ SavedOK(t) /\ \E v \in V : call[t].todo = Tries(v)
    \/ mutex = t /\ \E v \in V : call[t].todo \in {SetsBoth(v), TriesSaved(v)}
    \/ mutex = t /\ \E v \in V :
           call[t].todo = SetsDb(v) /\ ("l1" \in tainted \/ store.l1 \in {None, v})

ThroughFresh ==
    \/ "l1" \in tainted \/ Settled("l1")
    \/ \E t \in Thread : mutex = t /\ call[t].todo \in {Restores, SetsDb(store.l1)}

ThroughHere == (\A t \in Thread : ThroughOK(t)) /\ ThroughFresh

(***************************************************************************)
(* Write-back: the same, with the dirty data in the place of the database. *)
(***************************************************************************)
BackAhead(t) ==
    mutex = t =>
        /\ call[t].todo \notin {<<>>, GetBack, Loads}
        /\ \A v \in V : call[t].todo # FillsL1(v)
        /\ \A v \in Value : call[t].todo = SetsDirty(v) => "l1" \in tainted \/ store.l1 \in {None, v}
        /\ call[t].todo \in {DeletesDirty, DeletesDb} => "l1" \in tainted \/ store.l1 = None

BackFresh ==
    \/ "l1" \in tainted \/ Settled("l1")
    \/ \E t \in Thread : mutex = t /\ call[t].todo = SetsDirty(store.l1)

BackHere == (\A t \in Thread : BackOK(t) /\ BackAhead(t)) /\ BackFresh

(***************************************************************************)
(* The mutex cache: what it has loaded is still in the database.           *)
(***************************************************************************)
MutexFills(t) == \A v \in V : call[t].todo = FillsL1(v) => v = store.db

MutexHere ==
    /\ \A t \in Thread : MutexOK(t) /\ MutexFills(t)
    /\ "l1" \in tainted \/ Settled("l1")

(***************************************************************************)
(* The cache of logical expiry: who has set the mark has still to take it  *)
(* away, unless the new item did.                                          *)
(***************************************************************************)
Asks == <<GetLogical>>
MarksIt == <<SetUpdating(TRUE), Look("db"), SetUpdating(FALSE)>>
Refreshes == <<Look("db"), SetUpdating(FALSE)>>
Renews(v) == <<Put("l1", v), SetUpdating(FALSE)>>
Unmarks == <<SetUpdating(FALSE)>>

Unmarking(t) ==
    \/ call[t].todo \in {Refreshes, Unmarks}
    \/ \E v \in V : call[t].todo = Renews(v)

LogicalOK(t) == call[t].todo \in {<<>>, Asks, asyncUpdate, MarksIt} \/ Unmarking(t)

LogicalHere ==
    /\ mutex = Nobody
    /\ \A t \in Thread : LogicalOK(t)
    /\ "l1" \in tainted \/ Settled("l1")
    /\ store.updating => store.l1 # None /\ \E t \in Thread : Unmarking(t)

(* What every service keeps *)
Common ==
    /\ service # "logical" => ~store.updating
    /\ service \notin TwoLevels => store.l2 = None

StaleInv ==
    /\ Common
    /\ service \in Plain => PlainHere
    /\ service = "through" => ThroughHere
    /\ service = "back" => BackHere
    /\ service = "mutex" => MutexHere
    /\ service = "logical" => LogicalHere

(* What a step does to the history of late values *)
LEMMA PutTaints ==
    ASSUME NEW t \in Thread, Step(t), call[t].todo # <<>>,
           NEW s, NEW v, Head(call[t].todo) = Put(s, v)
    PROVE  /\ s \notin Cache => tainted' = tainted
           /\ \A r \in Cache \ {s} : r \in tainted' <=> r \in tainted
           /\ s \in Cache /\ s \notin tainted' =>
                  v = None \/ mutex = t \/ (mutex = Nobody /\ Agrees(v))
<1>1. Next1(t).do = "put" /\ Next1(t).at = s /\ Next1(t).val = v
    BY DEF Next1, Put
<1>2. DoPut(t)
    BY <1>1 DEF Step, DoLook, DoPut, DoLock, DoUnlock, DoCopy, DoSave, DoRestore, DoClose,
                DoGetLogical, DoIsUpdating, DoSetUpdating, Doing
<1>3. tainted' = IF s \in Cache THEN Taint(s, v # None /\ Late(t, v)) ELSE tainted
    BY <1>1, <1>2 DEF DoPut
<1> QED BY <1>3 DEF Taint, Late

LEMMA KeepsTaints ==
    ASSUME NEW t \in Thread, Step(t), Head(call[t].todo).do \notin {"put", "restore"}
    PROVE  tainted' = tainted
BY DEF Step, DoLook, DoPut, DoLock, DoUnlock, DoCopy, DoSave, DoRestore, DoClose,
       DoGetLogical, DoIsUpdating, DoSetUpdating, Doing, Next1

(* A value agrees with what is not changed. *)
LEMMA SettledKept ==
    ASSUME NEW s, store'[s] = store[s], store'.dirty = store.dirty, store'.db = store.db, Settled(s)
    PROVE  Settled(s)'
BY DEF Settled, Agrees, Current

(* A cache that is filled in time, or emptied, is settled. *)
LEMMA SettledPut ==
    ASSUME NEW s, NEW v, store'[s] = v, store'.dirty = store.dirty, store'.db = store.db,
           v = None \/ Agrees(v)
    PROVE  Settled(s)'
BY DEF Settled, Agrees, Current

-----------------------------------------------------------------------------
(***************************************************************************)
(* The plain services.                                                     *)
(***************************************************************************)
LEMMA CachePutsLemma ==
    /\ \A s \in Levels, v \in V : Put(s, v) \in CachePuts
    /\ CachePuts \subseteq Item
    /\ Null \in V /\ None \in V /\ Value \subseteq V
    /\ "l1" \in Levels /\ Levels \subseteq Cache
    /\ service \in TwoLevels => Levels = Cache
<1>1. /\ "l1" \in Levels /\ Levels \subseteq Cache /\ Levels \subseteq Place
      /\ service \in TwoLevels => Levels = Cache
    BY DEF Cache, Place, Levels
<1>2. CachePuts \subseteq Puts
    BY <1>1 DEF CachePuts, Puts
<1>3. \A s \in Levels, v \in V : Put(s, v) \in CachePuts
    BY DEF Put, CachePuts
<1> QED BY <1>1, <1>2, <1>3 DEF Item, V

LEMMA FillsCaches ==
    ASSUME NEW s \in {"l1", "l2", "db"}, NEW v \in V
    PROVE  PutAll(Fills(s), v) \in Seq(CachePuts)
<1>1. Fills(s) \in Seq(Levels)
  <2>1. /\ <<>> \in Seq(Levels) /\ <<"l1">> \in Seq(Levels)
        /\ service \in TwoLevels =>
               FillsMultilevel \in Seq(Levels) /\ FillsMultiLevelCache \in Seq(Levels)
    <3>1. "l1" \in Levels /\ (service \in TwoLevels => "l2" \in Levels)
        BY DEF Cache, Levels
    <3> QED BY <3>1 DEF FillsMultilevel, FillsMultiLevelCache
  <2>2. CASE s = "l1" BY <2>1, <2>2 DEF Fills
  <2>3. CASE s = "l2" BY <2>1, <2>3 DEF Fills
  <2>4. CASE s = "db"
    <3>1. CASE service \in {"multilevel", "invalidating"} BY <2>1, <2>4, <3>1 DEF Fills, TwoLevels
    <3>2. CASE service = "two levels" BY <2>1, <2>4, <3>2 DEF Fills, TwoLevels
    <3>3. CASE service \notin {"multilevel", "invalidating", "two levels"}
        BY <2>1, <2>4, <3>3 DEF Fills
    <3> QED BY <3>1, <3>2, <3>3
  <2> QED BY <2>2, <2>3, <2>4
<1>2. \A i \in 1 .. Len(Fills(s)) : Put(Fills(s)[i], v) \in CachePuts
    BY <1>1, CachePutsLemma
<1>3. Len(Fills(s)) \in Nat
    BY <1>1
<1> QED BY <1>2, <1>3 DEF PutAll

LEMMA LookLists1 ==
    ASSUME NEW X \in LookLists
    PROVE  /\ X # <<>> /\ \E s \in {"l1", "l2", "db"} : Head(X) = Look(s)
           /\ Head(X) = Look("db") => Tail(X) = <<>>
           /\ Tail(X) \in LookLists \cup {<<>>}
<1>1. Look("l1") # Look("db") /\ Look("l2") # Look("db")
    BY DEF Look
<1>2. CASE X = <<Look("l1"), Look("l2"), Look("db")>> BY <1>1, <1>2 DEF LookLists
<1>3. CASE X = <<Look("l2"), Look("db")>> BY <1>1, <1>3 DEF LookLists
<1>4. CASE X = <<Look("l1"), Look("db")>> BY <1>1, <1>4 DEF LookLists
<1>5. CASE X = <<Look("db")>> BY <1>1, <1>5 DEF LookLists
<1> QED BY <1>2, <1>3, <1>4, <1>5 DEF LookLists

(* A call that looks goes on looking or has only caches to fill. *)
LEMMA PlainLook ==
    ASSUME TypeInv, NEW t \in Thread, Step(t), call[t].todo \in LookLists
    PROVE  /\ store' = store /\ tainted' = tainted
           /\ \E X \in LookLists \cup Seq(CachePuts) : Moves(t, X)
<1> DEFINE X == call[t].todo
<1>0. PICK s \in {"l1", "l2", "db"} : Head(X) = Look(s)
    BY LookLists1
<1>1. X # <<>> /\ Next1(t).do = "look" /\ Next1(t).at = s /\ Head(X).do = "look"
    BY <1>0, LookLists1 DEF Next1, Look
<1>2. DoLook(t)
    BY <1>1 DEF Step, DoLook, DoPut, DoLock, DoUnlock, DoCopy, DoSave, DoRestore, DoClose,
                DoGetLogical, DoIsUpdating, DoSetUpdating, Doing
<1>3. Rest(t) \in LookLists \cup {<<>>} /\ (s = "db" => Rest(t) = <<>>) /\ Rest(t) \in Seq(Item)
    BY <1>0, <1>1, LookLists1, NextLemma DEF Rest
<1>4. store[s] \in V
    BY DEF TypeInv, StoreType
<1>5. PutAll(Fills(s), store[s]) \in Seq(CachePuts)
    BY <1>4, FillsCaches
<1>6. s = "db" => PutAll(Fills(s), store[s]) \o Rest(t) = PutAll(Fills(s), store[s])
    BY <1>3, <1>5
<1>7. <<SetNull>> \in Seq(CachePuts) /\ <<>> \in Seq(CachePuts)
  <2>1. SetNull \in CachePuts
      BY CachePutsLemma DEF SetNull
  <2> QED BY <2>1
<1>8. \E Y \in LookLists \cup Seq(CachePuts) : Continue(t, Y)
  <2>1. Rest(t) \in LookLists \cup Seq(CachePuts)
      BY <1>3, <1>7
  <2>2. CASE store[s] # None
      BY <1>1, <1>2, <1>5, <1>6, <2>2 DEF DoLook
  <2>3. CASE store[s] = None
      BY <1>1, <1>2, <1>7, <2>1, <2>3 DEF DoLook
  <2> QED BY <2>2, <2>3
<1>9. ASSUME NEW Y \in LookLists \cup Seq(CachePuts) PROVE Y \in Seq(Item)
  <2>1. CASE Y \in Seq(CachePuts)
      BY <2>1, CachePutsLemma
  <2>2. CASE Y \in LookLists
    <3>1. Look("l1") \in Item /\ Look("l2") \in Item /\ Look("db") \in Item
        BY ItemLemma
    <3>2. \A a, b, c \in Item : <<a>> \in Seq(Item) /\ <<a, b>> \in Seq(Item) /\ <<a, b, c>> \in Seq(Item)
        OBVIOUS
    <3> QED BY <2>2, <3>1, <3>2, Zenon DEF LookLists
  <2> QED BY <2>1, <2>2
<1>10. \E Y \in LookLists \cup Seq(CachePuts) : Moves(t, Y)
    BY <1>8, <1>9, MovesLemma
<1> QED BY <1>2, <1>10 DEF DoLook

(* The lists of a write to the database, and the first step of each *)
LEMMA PutDbForms ==
    ASSUME NEW v \in V, NEW w \in V
    PROVE  /\ PutDb(v, w) # <<>> /\ Head(PutDb(v, w)) = Put("db", v)
           /\ Tail(PutDb(v, w)) \in Seq(CachePuts) /\ HasPut(Tail(PutDb(v, w)), "l1")
           /\ DropPutDb(v) # <<>> /\ Head(DropPutDb(v)) = Put("l1", None)
           /\ Tail(DropPutDb(v)) = PutDb(v, None)
<1>1. Put("l1", w) \in CachePuts
    BY CachePutsLemma
<1>2. Put("l1", w).do = "put" /\ Put("l1", w).at = "l1"
    BY DEF Put
<1>3. /\ Head(PutDb(v, w)) = Put("db", v) /\ Tail(PutDb(v, w)) = <<Put("l1", w)>>
      /\ PutDb(v, w) # <<>>
    BY DEF PutDb
<1>4. /\ DropPutDb(v) # <<>> /\ Head(DropPutDb(v)) = Put("l1", None)
      /\ Tail(DropPutDb(v)) = PutDb(v, None)
    BY DEF DropPutDb, PutDb
<1>5. HasPut(<<Put("l1", w)>>, "l1")
  <2>1. Len(<<Put("l1", w)>>) = 1 /\ <<Put("l1", w)>>[1] = Put("l1", w)
      OBVIOUS
  <2> QED BY <1>2, <2>1 DEF HasPut
<1>6. <<Put("l1", w)>> \in Seq(CachePuts)
    BY <1>1
<1> QED BY <1>3, <1>4, <1>5, <1>6

LEMMA PutDbBothForms ==
    ASSUME service \in TwoLevels, NEW v \in V, NEW w \in V, NEW X \in {PutDb21(v, w), PutDb12(v, w)}
    PROVE  /\ X # <<>> /\ Head(X) = Put("db", v)
           /\ Tail(X) \in Seq(CachePuts) /\ \A s \in Cache : HasPut(Tail(X), s)
<1>1. Put("l1", w) \in CachePuts /\ Put("l2", w) \in CachePuts
    BY CachePutsLemma DEF Cache
<1>2. /\ Put("l1", w).do = "put" /\ Put("l1", w).at = "l1"
      /\ Put("l2", w).do = "put" /\ Put("l2", w).at = "l2"
    BY DEF Put
<1>3. /\ Head(PutDb21(v, w)) = Put("db", v) /\ Tail(PutDb21(v, w)) = <<Put("l2", w), Put("l1", w)>>
      /\ PutDb21(v, w) # <<>>
    BY DEF PutDb21
<1>4. /\ Head(PutDb12(v, w)) = Put("db", v) /\ Tail(PutDb12(v, w)) = <<Put("l1", w), Put("l2", w)>>
      /\ PutDb12(v, w) # <<>>
    BY DEF PutDb12
<1>5. ASSUME NEW a, NEW b, a.do = "put", b.do = "put"
      PROVE  HasPut(<<a, b>>, a.at) /\ HasPut(<<a, b>>, b.at)
  <2>1. Len(<<a, b>>) = 2 /\ <<a, b>>[1] = a /\ <<a, b>>[2] = b
      OBVIOUS
  <2> QED BY <1>5, <2>1 DEF HasPut
<1>6. /\ HasPut(<<Put("l2", w), Put("l1", w)>>, "l1") /\ HasPut(<<Put("l2", w), Put("l1", w)>>, "l2")
      /\ HasPut(<<Put("l1", w), Put("l2", w)>>, "l1") /\ HasPut(<<Put("l1", w), Put("l2", w)>>, "l2")
    BY <1>2, <1>5
<1>7. /\ <<Put("l2", w), Put("l1", w)>> \in Seq(CachePuts)
      /\ <<Put("l1", w), Put("l2", w)>> \in Seq(CachePuts)
    BY <1>1
<1> QED BY <1>3, <1>4, <1>6, <1>7 DEF Cache

(* A call that looks has nothing to put. *)
LEMMA HasNoPut ==
    /\ \A s : ~HasPut(<<>>, s)
    /\ \A X \in LookLists : \A s : ~HasPut(X, s)
<1>1. \A s : ~HasPut(<<>>, s)
    BY DEF HasPut
<1>2. ASSUME NEW X \in LookLists, NEW s PROVE ~HasPut(X, s)
  <2>1. Look("l1").do = "look" /\ Look("l2").do = "look" /\ Look("db").do = "look"
      BY DEF Look
  <2>2. \A i \in 1 .. Len(X) : X[i].do = "look"
    <3>1. CASE X = <<Look("l1"), Look("l2"), Look("db")>> BY <2>1, <3>1
    <3>2. CASE X = <<Look("l2"), Look("db")>> BY <2>1, <3>2
    <3>3. CASE X = <<Look("l1"), Look("db")>> BY <2>1, <3>3
    <3>4. CASE X = <<Look("db")>> BY <2>1, <3>4
    <3> QED BY <3>1, <3>2, <3>3, <3>4 DEF LookLists
  <2> QED BY <2>2 DEF HasPut
<1> QED BY <1>1, <1>2

(* A put at another place is still to be done after the first step. *)
LEMMA HasPutRest ==
    ASSUME NEW X \in Seq(CachePuts), NEW s, X # <<>>, HasPut(X, s), Head(X).at # s
    PROVE  HasPut(Tail(X), s)
<1>1. PICK i \in 1 .. Len(X) : X[i].do = "put" /\ X[i].at = s
    BY DEF HasPut
<1>2. i # 1
    BY <1>1
<1>3. Len(Tail(X)) = Len(X) - 1 /\ i - 1 \in 1 .. Len(Tail(X)) /\ Tail(X)[i - 1] = X[i]
    BY <1>1, <1>2
<1> QED BY <1>1, <1>3 DEF HasPut

(***************************************************************************)
(* A step of call t keeps the caches fresh if what it had to put is still  *)
(* to be put, or has been put in time.                                     *)
(***************************************************************************)
LEMMA PlainAll ==
    ASSUME service' = service, NEW t \in Thread,
           \A u \in Thread : PlainOK(u), PlainOK(t)', \A u \in Thread \ {t} : call'[u] = call[u]
    PROVE  \A u \in Thread : PlainOK(u)'
<1> TAKE u \in Thread
<1>1. V' = V /\ CachePuts' = CachePuts /\ LookLists' = LookLists
    BY DEF V, CachePuts, Levels, Cache, TwoLevels, LookLists, Look
<1>2. CASE u = t BY <1>2
<1>3. CASE u # t
  <2>1. call'[u].todo = call[u].todo /\ PlainOK(u)
      BY <1>3
  <2>2. \A v, w : /\ PutDb(v, w)' = PutDb(v, w) /\ DropPutDb(v)' = DropPutDb(v)
                  /\ PutDb21(v, w)' = PutDb21(v, w) /\ PutDb12(v, w)' = PutDb12(v, w)
      BY DEF PutDb, DropPutDb, PutDb21, PutDb12, Put
  <2> QED BY <1>1, <2>1, <2>2 DEF PlainOK, PlainList
<1> QED BY <1>2, <1>3

LEMMA PlainKept ==
    ASSUME NEW t \in Thread, NEW s, PlainFresh(s),
           \A u \in Thread \ {t} : call'[u] = call[u],
           store'[s] = store[s], store'.dirty = store.dirty, store'.db = store.db,
           s \in tainted => s \in tainted',
           HasPut(call[t].todo, s) => HasPut(call'[t].todo, s)
    PROVE  PlainFresh(s)'
<1>1. CASE Settled(s)
    BY <1>1, SettledKept DEF PlainFresh
<1>2. ASSUME NEW u \in Thread, HasPut(call[u].todo, s) PROVE PlainFresh(s)'
  <2>1. HasPut(call'[u].todo, s)
      BY <1>2
  <2>2. HasPut(call[u].todo, s)'
      BY <2>1 DEF HasPut
  <2>3. \E x \in Thread : HasPut(call[x].todo, s)'
      BY <2>2
  <2> QED BY <2>3 DEF PlainFresh, Thread
<1> QED BY <1>1, <1>2 DEF PlainFresh

(* A call of a plain service that writes to the database *)
LEMMA PlainPutDb ==
    ASSUME TypeInv, service \in Plain, mutex = Nobody, NEW t \in Thread, Step(t),
           \A s \in Cache : PlainFresh(s), call[t].todo # <<>>,
           NEW v \in V, Head(call[t].todo) = Put("db", v),
           Tail(call[t].todo) \in Seq(CachePuts),
           \A s \in Levels : HasPut(Tail(call[t].todo), s),
           service \notin TwoLevels => store.l2 = None
    PROVE  /\ Moves(t, Tail(call[t].todo)) /\ \A s \in Cache : PlainFresh(s)'
           /\ store'.l1 = store.l1 /\ store'.l2 = store.l2 /\ store'.updating = store.updating
<1>1. service # "logical" /\ store \in StoreType
    BY DEF Plain, TypeInv
<1>2. Moves(t, Tail(call[t].todo)) /\ store' = [store EXCEPT !.db = v]
    BY <1>1, PutStep
<1>3. store'.l1 = store.l1 /\ store'.l2 = store.l2 /\ store'.updating = store.updating
    BY <1>1, <1>2 DEF StoreType
<1>4. ASSUME NEW s \in Levels PROVE PlainFresh(s)'
  <2>1. call'[t].todo = Tail(call[t].todo)
      BY <1>2 DEF Moves, GoesOn
  <2>2. HasPut(call[t].todo, s)'
      BY <2>1 DEF HasPut
  <2>3. \E x \in Thread : HasPut(call[x].todo, s)'
      BY <2>2
  <2> QED BY <2>3 DEF PlainFresh, Thread
<1>5. ASSUME NEW s \in Cache \ Levels PROVE PlainFresh(s)'
  <2>1. s = "l2" /\ service \notin TwoLevels
      BY DEF Cache, Levels
  <2>2. store'.l2 = None
      BY <1>3, <2>1
  <2> QED BY <2>1, <2>2 DEF PlainFresh, Settled
<1> QED BY <1>2, <1>3, <1>4, <1>5

(* A call of a plain service that puts something in a cache *)
LEMMA PlainPut ==
    ASSUME TypeInv, service \in Plain, mutex = Nobody, NEW t \in Thread, Step(t),
           \A s \in Cache : PlainFresh(s), call[t].todo # <<>>,
           NEW s \in Levels, NEW v \in V, Head(call[t].todo) = Put(s, v),
           \A r \in Cache \ {s} : HasPut(call[t].todo, r) => HasPut(Tail(call[t].todo), r)
    PROVE  /\ Moves(t, Tail(call[t].todo)) /\ \A r \in Cache : PlainFresh(r)'
           /\ service \notin TwoLevels => store'.l2 = store.l2
           /\ store'.updating = store.updating
<1>1. service # "logical" /\ store \in StoreType /\ s \in Cache /\ t # Nobody
    BY CachePutsLemma, NamesAssumption DEF Plain, TypeInv, Thread
<1>2. Moves(t, Tail(call[t].todo)) /\ store' = [store EXCEPT ![s] = v]
    BY <1>1, PutStep
<1>3. /\ store'.dirty = store.dirty /\ store'.db = store.db /\ store'[s] = v
      /\ \A r \in Cache \ {s} : store'[r] = store[r]
      /\ store'.updating = store.updating
    BY <1>1, <1>2 DEF StoreType, Cache
<1>4. /\ \A r \in Cache \ {s} : r \in tainted' <=> r \in tainted
      /\ s \notin tainted' => v = None \/ mutex = t \/ (mutex = Nobody /\ Agrees(v))
    BY <1>1, PutTaints
<1>5. call'[t].todo = Tail(call[t].todo) /\ \A u \in Thread \ {t} : call'[u] = call[u]
    BY <1>2 DEF Moves, GoesOn
<1>6. PlainFresh(s)'
  <2>1. CASE s \in tainted'
      BY <2>1 DEF PlainFresh
  <2>2. CASE s \notin tainted'
    <3>1. v = None \/ Agrees(v)
        BY <1>1, <1>4, <2>2
    <3>2. Settled(s)'
        BY <1>3, <3>1, SettledPut
    <3> QED BY <3>2 DEF PlainFresh
  <2> QED BY <2>1, <2>2
<1>7. ASSUME NEW r \in Cache \ {s} PROVE PlainFresh(r)'
    BY <1>3, <1>4, <1>5, PlainKept
<1>8. service \notin TwoLevels => store'.l2 = store.l2
    BY <1>3 DEF Levels, Cache
<1> QED BY <1>2, <1>3, <1>6, <1>7, <1>8

LEMMA StepService ==
    ASSUME NEW t \in Thread, Step(t)
    PROVE  service' = service /\ call[t].todo # <<>>
BY DEF Step, DoLook, DoPut, DoLock, DoUnlock, DoCopy, DoSave, DoRestore, DoClose,
       DoGetLogical, DoIsUpdating, DoSetUpdating, Doing

LEMMA PlainStep ==
    ASSUME TypeInv, service \in Plain, Common, PlainHere, NEW t \in Thread, Step(t)
    PROVE  Common' /\ PlainHere'
<1>0. /\ service' = service /\ call[t].todo # <<>> /\ t # Nobody /\ service # "logical"
      /\ store \in StoreType /\ ~store.updating
    BY StepService, NamesAssumption DEF Thread, Plain, TypeInv, Common
<1>1. /\ LookLists' = LookLists /\ CachePuts' = CachePuts /\ V' = V /\ Cache' = Cache
      /\ Thread' = Thread /\ TwoLevels' = TwoLevels
    BY <1>0 DEF LookLists, Look, CachePuts, Levels, Cache, TwoLevels, V, Thread
<1>2. ASSUME NEW X, Moves(t, X), PlainOK(t)', \A s \in Cache : PlainFresh(s)',
             store'.updating = store.updating, service \notin TwoLevels => store'.l2 = store.l2
      PROVE  Common' /\ PlainHere'
  <2>1. mutex' = Nobody /\ \A u \in Thread \ {t} : call'[u] = call[u]
      BY <1>0, <1>2 DEF Moves, GoesOn, PlainHere
  <2>2. \A u \in Thread : PlainOK(u)'
      BY <1>0, <1>2, <2>1, PlainAll DEF PlainHere
  <2>3. Common'
      BY <1>0, <1>1, <1>2 DEF Common
  <2> QED BY <1>1, <1>2, <2>1, <2>2, <2>3 DEF PlainHere
<1>3. CASE call[t].todo \in LookLists
  <2>1. store' = store /\ tainted' = tainted
      BY <1>3, PlainLook
  <2>2. PICK X \in LookLists \cup Seq(CachePuts) : Moves(t, X)
      BY <1>3, PlainLook
  <2>3. call'[t].todo = X /\ \A u \in Thread \ {t} : call'[u] = call[u]
      BY <2>2 DEF Moves, GoesOn
  <2>4. PlainOK(t)'
      BY <1>1, <2>2, <2>3 DEF PlainOK, PlainList
  <2>5. ASSUME NEW s \in Cache PROVE PlainFresh(s)'
    <3>1. PlainFresh(s) /\ ~HasPut(call[t].todo, s)
        BY <1>3, HasNoPut DEF PlainHere
    <3> QED BY <2>1, <2>3, <3>1, PlainKept
  <2> QED BY <1>2, <2>1, <2>2, <2>4, <2>5
<1>4. CASE call[t].todo \in Seq(CachePuts)
  <2> DEFINE X == call[t].todo
  <2>1. Head(X) \in CachePuts /\ Tail(X) \in Seq(CachePuts)
      BY <1>0, <1>4
  <2>2. PICK s \in Levels, v \in V : Head(X) = Put(s, v)
      BY <2>1 DEF CachePuts, Put
  <2>3. \A r \in Cache \ {s} : HasPut(X, r) => HasPut(Tail(X), r)
    <3>1. Head(X).at = s
        BY <2>2 DEF Put
    <3> QED BY <1>0, <1>4, <3>1, HasPutRest
  <2>4. /\ Moves(t, Tail(X)) /\ \A r \in Cache : PlainFresh(r)'
        /\ service \notin TwoLevels => store'.l2 = store.l2
        /\ store'.updating = store.updating
      BY <1>0, <2>2, <2>3, PlainPut DEF PlainHere
  <2>5. PlainOK(t)'
      BY <1>1, <2>1, <2>4 DEF PlainOK, PlainList, Moves, GoesOn
  <2> QED BY <1>2, <2>4, <2>5
<1>5. ASSUME NEW v \in V, NEW w \in V, call[t].todo = PutDb(v, w), service = "aside"
      PROVE  Common' /\ PlainHere'
  <2>1. Levels = {"l1"}
      BY <1>5 DEF Levels, TwoLevels
  <2>2. /\ Head(call[t].todo) = Put("db", v) /\ Tail(call[t].todo) \in Seq(CachePuts)
        /\ \A s \in Levels : HasPut(Tail(call[t].todo), s)
      BY <1>5, <2>1, PutDbForms
  <2>3. /\ Moves(t, Tail(call[t].todo)) /\ \A s \in Cache : PlainFresh(s)'
        /\ store'.l2 = store.l2 /\ store'.updating = store.updating
      BY <1>0, <2>2, PlainPutDb DEF PlainHere, Common
  <2>4. PlainOK(t)'
      BY <1>1, <2>2, <2>3 DEF PlainOK, PlainList, Moves, GoesOn
  <2> QED BY <1>2, <2>3, <2>4
<1>6. ASSUME NEW v \in V, call[t].todo = DropPutDb(v), service = "aside"
      PROVE  Common' /\ PlainHere'
  <2>0. None \in V /\ "l1" \in Levels
      BY CachePutsLemma
  <2>1. Head(call[t].todo) = Put("l1", None) /\ Tail(call[t].todo) = PutDb(v, None)
      BY <1>6, PutDbForms
  <2>2. \A r \in Cache \ {"l1"} : ~HasPut(call[t].todo, r)
    <3>1. /\ Put("l1", None).at = "l1" /\ Put("db", v).at = "db"
        BY DEF Put
    <3>2. Len(DropPutDb(v)) = 3 /\ \A i \in 1 .. 3 : DropPutDb(v)[i] \in {Put("l1", None), Put("db", v)}
        BY DEF DropPutDb
    <3> QED BY <1>6, <3>1, <3>2 DEF HasPut, Cache
  <2>3. /\ Moves(t, Tail(call[t].todo)) /\ \A s \in Cache : PlainFresh(s)'
        /\ service \notin TwoLevels => store'.l2 = store.l2
        /\ store'.updating = store.updating
      BY <1>0, <2>0, <2>1, <2>2, PlainPut DEF PlainHere
  <2>4. PlainOK(t)'
    <3>1. call'[t].todo = PutDb(v, None)
        BY <2>1, <2>3 DEF Moves, GoesOn
    <3> QED BY <1>0, <1>1, <1>6, <2>0, <3>1 DEF PlainOK, PlainList, PutDb, Put
  <2> QED BY <1>2, <2>3, <2>4
<1>7. ASSUME NEW v \in V, NEW w \in V, call[t].todo \in {PutDb21(v, w), PutDb12(v, w)},
             service \in {"multilevel", "invalidating"}
      PROVE  Common' /\ PlainHere'
  <2>1. service \in TwoLevels /\ Levels = Cache
      BY <1>7 DEF Levels, TwoLevels
  <2>2. /\ Head(call[t].todo) = Put("db", v) /\ Tail(call[t].todo) \in Seq(CachePuts)
        /\ \A s \in Levels : HasPut(Tail(call[t].todo), s)
      BY <1>7, <2>1, PutDbBothForms
  <2>3. /\ Moves(t, Tail(call[t].todo)) /\ \A s \in Cache : PlainFresh(s)'
        /\ store'.l2 = store.l2 /\ store'.updating = store.updating
      BY <1>0, <2>2, PlainPutDb DEF PlainHere, Common
  <2>4. PlainOK(t)'
      BY <1>1, <2>2, <2>3 DEF PlainOK, PlainList, Moves, GoesOn
  <2> QED BY <1>2, <2>3, <2>4
<1>8. PlainOK(t)
    BY DEF PlainHere
<1> QED BY <1>3, <1>4, <1>5, <1>6, <1>7, <1>8 DEF PlainOK, PlainList

(* What a call of a plain service begins with *)
LEMMA PlainReads ==
    ASSUME service \in Plain, service # "breaker"
    PROVE  PlainList(Get)
<1>1. /\ GetAside \in LookLists /\ GetVulnerable \in LookLists /\ queryWithNullCache \in LookLists
      /\ GetMultilevel \in LookLists /\ GetMultiLevelCache \in LookLists
    BY DEF GetAside, GetVulnerable, queryWithNullCache, GetMultilevel, GetMultiLevelCache,
           LookLists, L1Get, L2Get, DatabaseGet
<1>2. Get \in LookLists
    BY <1>1 DEF Plain, Get
<1> QED BY <1>2 DEF PlainList

LEMMA PlainWrites ==
    ASSUME service \in Plain, NEW w \in Writes
    PROVE  PlainList(w[2])
<1>0. None \in V /\ Value \subseteq V
    BY CachePutsLemma
<1>1. CASE service = "aside"
  <2>1. ASSUME NEW v \in Value, w = <<"Set", <<Put("db", v), Drop("l1")>>>> PROVE PlainList(w[2])
    <3>1. w[2] = PutDb(v, None)
        BY <2>1 DEF PutDb, Drop
    <3> QED BY <1>0, <1>1, <3>1 DEF PlainList
  <2>2. ASSUME NEW v \in Value, w = <<"SetWithUpdate", <<Put("db", v), Put("l1", v)>>>>
        PROVE  PlainList(w[2])
    <3>1. w[2] = PutDb(v, v)
        BY <2>2 DEF PutDb
    <3> QED BY <1>0, <1>1, <3>1 DEF PlainList
  <2>3. ASSUME NEW v \in Value, w = <<"DelayedDoubleDelete", DelayedDoubleDelete(v)>>
        PROVE  PlainList(w[2])
    <3>1. w[2] = DropPutDb(v)
        BY <2>3 DEF DropPutDb, DelayedDoubleDelete, Drop
    <3> QED BY <1>0, <1>1, <3>1 DEF PlainList
  <2>4. ASSUME w = <<"Delete", <<Drop("db"), Drop("l1")>>>> PROVE PlainList(w[2])
    <3>1. w[2] = PutDb(None, None)
        BY <2>4 DEF PutDb, Drop
    <3> QED BY <1>0, <1>1, <3>1 DEF PlainList
  <2> QED BY <1>1, <2>1, <2>2, <2>3, <2>4 DEF Writes, AsideWrites
<1>2. ASSUME service \in TwoLevels PROVE PlainList(MultilevelDelete)
  <2>1. Put("l1", None) \in CachePuts /\ Put("l2", None) \in CachePuts
      BY <1>0, <1>2, CachePutsLemma DEF Cache
  <2>2. MultilevelDelete \in Seq(CachePuts)
      BY <2>1 DEF MultilevelDelete, L1Delete, L2Delete, Drop
  <2> QED BY <2>2 DEF PlainList
<1>3. CASE service = "multilevel"
  <2>1. ASSUME NEW v \in Value, w = <<"Set", <<DatabaseSet(v), L2Set(v), L1Set(v)>>>>
        PROVE  PlainList(w[2])
    <3>1. w[2] = PutDb21(v, v)
        BY <2>1 DEF PutDb21, DatabaseSet, L2Set, L1Set
    <3> QED BY <1>0, <1>3, <3>1 DEF PlainList
  <2>2. ASSUME w = <<"Delete", MultilevelDelete>> PROVE PlainList(w[2])
      BY <1>2, <1>3, <2>2 DEF TwoLevels
  <2> QED BY <1>3, <2>1, <2>2 DEF Writes, MultilevelWrites
<1>4. CASE service = "invalidating"
  <2>1. ASSUME NEW v \in Value, w = <<"Set", <<DatabaseSet(v)>> \o MultilevelDelete>>
        PROVE  PlainList(w[2])
    <3>1. \A a, b, c : <<a>> \o <<b, c>> = <<a, b, c>>
      <4> TAKE a, b, c
      <4> DEFINE S == {a, b, c}
                 X == <<a>> \o <<b, c>>
                 Y == <<a, b, c>>
      <4>1. <<a>> \in Seq(S) /\ <<b, c>> \in Seq(S) /\ Y \in Seq(S)
          OBVIOUS
      <4>2. X \in Seq(S) /\ Len(X) = 3 /\ Len(Y) = 3
          BY <4>1
      <4>3. \A i \in 1 .. 3 : X[i] = Y[i]
          BY <4>1
      <4> QED BY <4>1, <4>2, <4>3, SeqEqual
    <3>2. w[2] = PutDb12(v, None)
        BY <2>1, <3>1 DEF PutDb12, DatabaseSet, MultilevelDelete, L1Delete, L2Delete, Drop
    <3> QED BY <1>0, <1>4, <3>2 DEF PlainList
  <2>2. ASSUME w = <<"Delete", MultilevelDelete>> PROVE PlainList(w[2])
      BY <1>2, <1>4, <2>2 DEF TwoLevels
  <2> QED BY <1>4, <2>1, <2>2 DEF Writes, InvalidatingWrites
<1> QED BY <1>1, <1>3, <1>4 DEF Plain, Writes

(***************************************************************************)
(* What happens in a step of the system: a call goes on, a call begins (or *)
(* the flusher stops), an entry expires, or nothing that matters here.     *)
(***************************************************************************)
Same == store' = store /\ mutex' = mutex /\ tainted' = tainted

Begins(t, X) ==
    /\ call[t].todo = <<>> /\ call'[t].todo = X
    /\ \A u \in Thread \ {t} : call'[u] = call[u]
    /\ Same
    /\ \/ X = <<>>
       \/ X = Get /\ service # "breaker"
       \/ \E w \in Writes : X = w[2]
       \/ service = "back" /\ X = Flush

LEMMA NextCases ==
    ASSUME TypeInv, [Next]_vars
    PROVE  /\ service' = service
           /\ \/ \E t \in Thread : Step(t)
              \/ \E t \in Thread : \E X : Begins(t, X)
              \/ \E s \in Cache : Forget(s)
              \/ ExpireLogically
              \/ Same /\ call' = call
<1>0. service' = service
    BY DEF Next, Read, Write, Begin, Step, DoLook, DoPut, DoLock, DoUnlock, DoCopy, DoSave,
           DoRestore, DoClose, DoGetLogical, DoIsUpdating, DoSetUpdating, backgroundFlush,
           backgroundStop, EvictLocal, ExpireShared, Forget, ExpireLogically, TimeoutPasses,
           QueryFails, QuerySucceeds, vars
<1>1. ASSUME NEW t \in Thread, NEW o \in Ops, NEW X \in Seq(Item), Begin(t, o, X)
      PROVE  /\ call[t].todo = <<>> /\ call'[t].todo = X
             /\ \A u \in Thread \ {t} : call'[u] = call[u]
             /\ Same
    BY <1>1, BeginLemma, IdleLemma DEF Begin, Same
<1>2. ASSUME NEW c \in Client, Read(c) PROVE \E t \in Thread : \E X : Begins(t, X)
  <2>1. Get \in Seq(Item) /\ "Get" \in Ops /\ c \in Thread /\ service # "breaker"
      BY <1>2, GetLemma DEF Read, TypeInv, Ops, Thread
  <2>2. Begins(c, Get)
      BY <1>1, <1>2, <2>1 DEF Read, Begins
  <2> QED BY <2>1, <2>2
<1>3. ASSUME NEW c \in Client, Write(c) PROVE \E t \in Thread : \E X : Begins(t, X)
  <2>1. PICK w \in Writes : Begin(c, w[1], w[2])
      BY <1>3 DEF Write
  <2>2. w[2] \in Seq(Item) /\ w[1] \in Ops /\ c \in Thread
      BY WritesLemma DEF Thread
  <2>3. Begins(c, w[2])
      BY <1>1, <2>1, <2>2 DEF Begins
  <2> QED BY <2>2, <2>3
<1>4. CASE backgroundFlush
  <2>1. service = "back" /\ Begin(Flusher, "autoFlush", Flush)
      BY <1>4 DEF backgroundFlush, autoFlush
  <2>2. Flush \in Seq(Item) /\ "autoFlush" \in Ops /\ Flusher \in Thread
    <3>1. Lock \in Item /\ Copy \in Item /\ Drop("dirty") \in Item
        BY <2>1, ItemLemma
    <3> QED BY <3>1 DEF Flush, Ops, Thread
  <2>3. Begins(Flusher, Flush)
      BY <1>1, <2>1, <2>2 DEF Begins
  <2> QED BY <1>0, <2>2, <2>3
<1>5. CASE backgroundStop
  <2>1. /\ \A u \in Thread \ {Flusher} : call'[u] = call[u]
        /\ call'[Flusher].todo = <<>> /\ call[Flusher].todo = <<>> /\ Flusher \in Thread
        /\ Same
      BY <1>5, IdleLemma DEF backgroundStop, TypeInv, Thread, CallType, Same
  <2>2. Begins(Flusher, <<>>)
      BY <2>1 DEF Begins
  <2> QED BY <1>0, <2>1, <2>2
<1>6. CASE EvictLocal \/ ExpireShared
    BY <1>0, <1>6 DEF EvictLocal, ExpireShared, Cache
<1>7. CASE TimeoutPasses \/ QueryFails \/ QuerySucceeds \/ UNCHANGED vars
    BY <1>0, <1>7 DEF TimeoutPasses, QueryFails, QuerySucceeds, vars, Same
<1> QED BY <1>0, <1>2, <1>3, <1>4, <1>5, <1>6, <1>7 DEF Next

(* A call that begins, or the flusher when it stops *)
LEMMA PlainBegun ==
    ASSUME service \in Plain, service' = service, Common, PlainHere,
           NEW t \in Thread, NEW X, Begins(t, X)
    PROVE  Common' /\ PlainHere'
<1>0. /\ call[t].todo = <<>> /\ call'[t].todo = X /\ \A u \in Thread \ {t} : call'[u] = call[u]
      /\ store' = store /\ mutex' = mutex /\ tainted' = tainted
    BY DEF Begins, Same
<1>1. PlainList(X)
  <2>1. PlainList(<<>>)
      BY DEF PlainList
  <2> QED BY <2>1, PlainReads, PlainWrites DEF Begins, Plain
<1>2. /\ LookLists' = LookLists /\ CachePuts' = CachePuts /\ V' = V /\ Cache' = Cache
      /\ Thread' = Thread /\ TwoLevels' = TwoLevels
    BY DEF LookLists, Look, CachePuts, Levels, Cache, TwoLevels, V, Thread
<1>3. \A v, w : /\ PutDb(v, w)' = PutDb(v, w) /\ DropPutDb(v)' = DropPutDb(v)
                /\ PutDb21(v, w)' = PutDb21(v, w) /\ PutDb12(v, w)' = PutDb12(v, w)
    BY DEF PutDb, DropPutDb, PutDb21, PutDb12, Put
<1>4. PlainOK(t)'
    BY <1>0, <1>1, <1>2, <1>3 DEF PlainOK, PlainList
<1>5. \A u \in Thread : PlainOK(u)'
    BY <1>0, <1>4, PlainAll DEF PlainHere
<1>6. ASSUME NEW s \in Cache PROVE PlainFresh(s)'
  <2>1. PlainFresh(s) /\ ~HasPut(call[t].todo, s)
      BY <1>0, HasNoPut DEF PlainHere
  <2> QED BY <1>0, <2>1, PlainKept
<1> QED BY <1>0, <1>2, <1>5, <1>6 DEF PlainHere, Common

LEMMA PlainForgotten ==
    ASSUME TypeInv, service \in Plain, Common, PlainHere, NEW s \in Cache, Forget(s)
    PROVE  Common' /\ PlainHere'
<1>1. /\ service' = service /\ mutex' = mutex /\ call' = call /\ store \in StoreType
      /\ store' = [store EXCEPT ![s] = None] /\ tainted' = tainted \ {s}
    BY DEF Forget, TypeInv
<1>2. /\ store'.dirty = store.dirty /\ store'.db = store.db /\ store'[s] = None
      /\ \A r \in Cache \ {s} : store'[r] = store[r]
      /\ store'.updating = store.updating
    BY <1>1 DEF StoreType, Cache
<1>3. PlainFresh(s)'
    BY <1>2 DEF PlainFresh, Settled
<1>4. ASSUME NEW r \in Cache \ {s} PROVE PlainFresh(r)'
  <2>1. PlainFresh(r)
      BY DEF PlainHere
  <2>2. Flusher \in Thread
      BY DEF Thread
  <2> QED BY <1>1, <1>2, <2>1, <2>2, PlainKept
<1>5. \A u \in Thread : PlainOK(u)'
  <2>1. Flusher \in Thread
      BY DEF Thread
  <2>2. PlainOK(Flusher)'
    <3>1. V' = V /\ CachePuts' = CachePuts /\ LookLists' = LookLists
        BY <1>1 DEF V, CachePuts, Levels, Cache, TwoLevels, LookLists, Look
    <3>2. \A v, w : /\ PutDb(v, w)' = PutDb(v, w) /\ DropPutDb(v)' = DropPutDb(v)
                    /\ PutDb21(v, w)' = PutDb21(v, w) /\ PutDb12(v, w)' = PutDb12(v, w)
        BY DEF PutDb, DropPutDb, PutDb21, PutDb12, Put
    <3>3. PlainOK(Flusher)
        BY <2>1 DEF PlainHere
    <3> QED BY <1>1, <3>1, <3>2, <3>3 DEF PlainOK, PlainList
  <2> QED BY <1>1, <2>1, <2>2, PlainAll DEF PlainHere
<1>6. Cache' = Cache /\ Thread' = Thread /\ TwoLevels' = TwoLevels
    BY DEF Cache, Thread, TwoLevels
<1>7. Common'
    BY <1>1, <1>2, <1>6 DEF Common, Cache
<1> QED BY <1>1, <1>3, <1>4, <1>5, <1>6, <1>7 DEF PlainHere

LEMMA PlainNext ==
    ASSUME TypeInv, service \in Plain, Common, PlainHere, [Next]_vars
    PROVE  Common' /\ PlainHere'
<1>0. service' = service
    BY NextCases
<1>1. ASSUME NEW t \in Thread, Step(t) PROVE Common' /\ PlainHere'
    BY <1>1, PlainStep
<1>2. ASSUME NEW t \in Thread, NEW X, Begins(t, X) PROVE Common' /\ PlainHere'
    BY <1>0, <1>2, PlainBegun
<1>3. ASSUME NEW s \in Cache, Forget(s) PROVE Common' /\ PlainHere'
    BY <1>3, PlainForgotten
<1>4. CASE Same /\ call' = call
  <2>1. Common' = Common /\ PlainHere' = PlainHere
      BY <1>0, <1>4 DEF Same, Common, PlainHere, PlainOK, PlainList, PlainFresh, Settled, Agrees,
                        Current, HasPut, CachePuts, Levels
  <2> QED BY <2>1
<1>5. ~ExpireLogically
    BY DEF ExpireLogically, Plain
<1> QED BY <1>1, <1>2, <1>3, <1>4, <1>5, NextCases

-----------------------------------------------------------------------------
(***************************************************************************)
(* Write-through.                                                          *)
(***************************************************************************)
LEMMA SaveStep ==
    ASSUME TypeInv, NEW t \in Thread, Step(t), call[t].todo # <<>>, Head(call[t].todo) = Save
    PROVE  /\ call'[t].todo = Tail(call[t].todo) /\ \A u \in Thread \ {t} : call'[u] = call[u]
           /\ call'[t].saved = store.l1 /\ call'[t].late = ("l1" \in tainted)
           /\ mutex' = mutex /\ store' = store /\ tainted' = tainted
<1>1. Next1(t).do = "save"
    BY DEF Next1, Save
<1>2. DoSave(t)
    BY <1>1 DEF Step, DoLook, DoPut, DoLock, DoUnlock, DoCopy, DoSave, DoRestore, DoClose,
                DoGetLogical, DoIsUpdating, DoSetUpdating, Doing
<1>3. Rest(t) \in Seq(Item) /\ call \in [Thread -> CallType] /\ call[t] \in CallType
    BY NextLemma DEF TypeInv
<1> DEFINE c == [call[t] EXCEPT !.saved = store.l1, !.late = "l1" \in tainted, !.todo = Rest(t)]
<1>4. c.todo = Rest(t) /\ c.saved = store.l1 /\ c.late = ("l1" \in tainted)
    BY <1>3 DEF CallType
<1>5. call' = [call EXCEPT ![t] = c]
    BY <1>2, <1>3 DEF DoSave, Rest
<1> HIDE DEF c
<1>6. call'[t] = c /\ \A u \in Thread \ {t} : call'[u] = call[u]
    BY <1>3, <1>5
<1> QED BY <1>2, <1>4, <1>6 DEF DoSave, Rest

LEMMA RestoreStep ==
    ASSUME TypeInv, NEW t \in Thread, Step(t), call[t].todo # <<>>, Head(call[t].todo) = Restore
    PROVE  /\ Moves(t, Tail(call[t].todo))
           /\ call[t].saved \in V /\ store' = [store EXCEPT !.l1 = call[t].saved]
           /\ "l1" \notin tainted' => ~call[t].late
<1>1. Next1(t).do = "restore"
    BY DEF Next1, Restore
<1>2. DoRestore(t)
    BY <1>1 DEF Step, DoLook, DoPut, DoLock, DoUnlock, DoCopy, DoSave, DoRestore, DoClose,
                DoGetLogical, DoIsUpdating, DoSetUpdating, Doing
<1>3. Rest(t) \in Seq(Item) /\ call[t].saved \in V
    BY NextLemma DEF TypeInv, CallType
<1>4. Moves(t, Tail(call[t].todo))
    BY <1>2, <1>3, MovesLemma DEF DoRestore, Rest
<1>5. "l1" \notin tainted' => ~call[t].late
    BY <1>2 DEF DoRestore, Taint
<1> QED BY <1>2, <1>3, <1>4, <1>5 DEF DoRestore

LEMMA ThroughForms ==
    /\ GetThrough # <<>> /\ Head(GetThrough) = Look("l1") /\ Tail(GetThrough) = Loads
    /\ Restores # <<>> /\ Head(Restores) = Restore /\ Tail(Restores) = <<>>
    /\ \A v : /\ SetsThrough(v) # <<>> /\ Head(SetsThrough(v)) = Lock
              /\ Tail(SetsThrough(v)) = SetsBoth(v)
              /\ SetsBoth(v) # <<>> /\ Head(SetsBoth(v)) = Put("l1", v)
              /\ Tail(SetsBoth(v)) = SetsDb(v)
              /\ SetsDb(v) # <<>> /\ Head(SetsDb(v)) = Put("db", v) /\ Tail(SetsDb(v)) = <<>>
    /\ \A v : /\ TriesLocked(v) # <<>> /\ Head(TriesLocked(v)) = Lock
              /\ Tail(TriesLocked(v)) = TriesSaved(v)
              /\ TriesSaved(v) # <<>> /\ Head(TriesSaved(v)) = Save
              /\ Tail(TriesSaved(v)) = Tries(v)
              /\ Tries(v) # <<>> /\ Head(Tries(v)) = Put("l1", v) /\ Tail(Tries(v)) = Restores
<1>1. /\ GetThrough # <<>> /\ Head(GetThrough) = Look("l1") /\ Tail(GetThrough) = Loads
      /\ Restores # <<>> /\ Head(Restores) = Restore /\ Tail(Restores) = <<>>
    BY DEF GetThrough, Loads, Restores
<1>2. \A v : /\ SetsThrough(v) # <<>> /\ Head(SetsThrough(v)) = Lock
             /\ Tail(SetsThrough(v)) = SetsBoth(v)
             /\ SetsBoth(v) # <<>> /\ Head(SetsBoth(v)) = Put("l1", v)
             /\ Tail(SetsBoth(v)) = SetsDb(v)
             /\ SetsDb(v) # <<>> /\ Head(SetsDb(v)) = Put("db", v) /\ Tail(SetsDb(v)) = <<>>
    BY DEF SetsThrough, SetsBoth, SetsDb
<1>3. \A v : /\ TriesLocked(v) # <<>> /\ Head(TriesLocked(v)) = Lock
             /\ Tail(TriesLocked(v)) = TriesSaved(v)
             /\ TriesSaved(v) # <<>> /\ Head(TriesSaved(v)) = Save
             /\ Tail(TriesSaved(v)) = Tries(v)
             /\ Tries(v) # <<>> /\ Head(Tries(v)) = Put("l1", v) /\ Tail(Tries(v)) = Restores
    BY DEF TriesLocked, TriesSaved, Tries, Restores
<1> QED BY <1>1, <1>2, <1>3

(* The first steps differ. *)
LEMMA HeadsDiffer ==
    /\ Save.do = "save" /\ Restore.do = "restore" /\ Lock.do = "lock" /\ Unlock.do = "unlock"
    /\ Copy.do = "copy" /\ Stop.do = "close"
    /\ \A s : Look(s).do = "look" /\ Look(s).at = s
    /\ \A s, v : Put(s, v).do = "put" /\ Put(s, v).at = s /\ Put(s, v).val = v
BY DEF Save, Restore, Lock, Unlock, Copy, Stop, Look, Put

LEMMA ThroughOthers ==
    ASSUME NEW u \in Thread, ThroughOK(u), call'[u] = call[u],
           mutex # u => mutex' # u,
           mutex = u => /\ mutex' = u
                        /\ \/ "l1" \in tainted' \/ store'.l1 = None
                           \/ store'.l1 = store.l1 /\ "l1" \notin tainted
                        /\ store'.db = store.db /\ store'.dirty = store.dirty
    PROVE  ThroughOK(u)'
<1>1. V' = V /\ \A v : SetsDb(v)' = SetsDb(v)
    BY DEF V, SetsDb, Put
<1>2. CASE mutex # u
  <2>1. mutex' # u /\ call'[u].todo = call[u].todo
      BY <1>2
  <2>2. \A v : /\ FillsL1(v)' = FillsL1(v) /\ SetsThrough(v)' = SetsThrough(v)
               /\ TriesLocked(v)' = TriesLocked(v)
      BY DEF FillsL1, SetsThrough, TriesLocked, Put, Lock, Save, Restore
  <2> QED BY <1>1, <1>2, <2>1, <2>2 DEF ThroughOK
<1>3. CASE mutex = u
  <2>1. mutex' = u /\ call'[u].todo = call[u].todo
      BY <1>3
  <2>0. SavedOK(u) => SavedOK(u)'
      BY <1>3 DEF SavedOK, Agrees, Current
  <2>2. CASE call[u].todo = Restores /\ SavedOK(u)
      BY <2>0, <2>1, <2>2 DEF ThroughOK
  <2>3. ASSUME NEW v \in V, call[u].todo \in {SetsBoth(v), TriesSaved(v)}
        PROVE  ThroughOK(u)'
      BY <1>1, <2>1, <2>3 DEF ThroughOK, SetsBoth, TriesSaved, Put
  <2>5. ASSUME NEW v \in V, call[u].todo = Tries(v), SavedOK(u)
        PROVE  ThroughOK(u)'
      BY <1>1, <2>0, <2>1, <2>5 DEF ThroughOK, Tries, Put
  <2>4. ASSUME NEW v \in V, call[u].todo = SetsDb(v), "l1" \in tainted \/ store.l1 \in {None, v}
        PROVE  ThroughOK(u)'
    <3>1. "l1" \in tainted' \/ store'.l1 \in {None, v}
        BY <1>3, <2>4
    <3> QED BY <1>1, <2>1, <2>4, <3>1 DEF ThroughOK, SetsDb, Put
  <2> QED BY <1>3, <2>2, <2>3, <2>4, <2>5 DEF ThroughOK
<1> QED BY <1>2, <1>3

(* A step of t lets the others go on, and leaves what Common is about. *)
LetsOthers(t) ==
    /\ \A u \in Thread \ {t} : call'[u] = call[u]
    /\ mutex' = mutex \/ (mutex = Nobody /\ mutex' = t) \/ (mutex = t /\ mutex' = Nobody)
    /\ mutex = t \/ (store'.l1 = store.l1 /\ tainted' = tainted) \/ "l1" \in tainted' \/ store'.l1 = None
       \/ mutex = Nobody
    /\ store'.l2 = store.l2 /\ store'.updating = store.updating

KeepsCurrent(t) == mutex = t \/ (store'.db = store.db /\ store'.dirty = store.dirty)

LEMMA ThroughAll ==
    ASSUME NEW t \in Thread, \A u \in Thread : ThroughOK(u), ThroughOK(t)', LetsOthers(t),
           KeepsCurrent(t)
    PROVE  \A u \in Thread : ThroughOK(u)'
<1> TAKE u \in Thread
<1>1. CASE u = t BY <1>1
<1>2. CASE u # t
  <2>0. u # Nobody /\ t # Nobody
      BY NamesAssumption DEF Thread
  <2>1. mutex # u => mutex' # u
      BY <1>2, <2>0 DEF LetsOthers
  <2>2. mutex = u => /\ mutex' = u
                     /\ \/ "l1" \in tainted' \/ store'.l1 = None
                        \/ store'.l1 = store.l1 /\ "l1" \notin tainted
                     /\ store'.db = store.db /\ store'.dirty = store.dirty
      BY <1>2, <2>0 DEF LetsOthers, KeepsCurrent
  <2> QED BY <1>2, <2>1, <2>2, ThroughOthers DEF LetsOthers
<1> QED BY <1>1, <1>2

(* What was fresh stays so when neither the stores nor the holder change. *)
LEMMA ThroughKept ==
    ASSUME NEW t \in Thread, ThroughFresh, store' = store, tainted' = tainted,
           \A u \in Thread \ {t} : call'[u] = call[u],
           mutex # t => mutex' = mutex \/ mutex = Nobody,
           mutex = t => call[t].todo \notin {Restores, SetsDb(store.l1)}
    PROVE  ThroughFresh'
<1>1. CASE "l1" \in tainted
    BY <1>1 DEF ThroughFresh
<1>2. CASE Settled("l1")
    BY <1>2, SettledKept DEF ThroughFresh
<1>3. ASSUME NEW u \in Thread, mutex = u, call[u].todo \in {Restores, SetsDb(store.l1)}
      PROVE  ThroughFresh'
  <2>1. u # t /\ u # Nobody
      BY <1>3, NamesAssumption DEF Thread
  <2>2. mutex' = u /\ call'[u].todo \in {Restores, SetsDb(store'.l1)}
      BY <1>3, <2>1
  <2>3. \E x \in Thread : mutex' = x /\ call'[x].todo \in {Restores, SetsDb(store'.l1)}
      BY <2>2
  <2>4. Restores' = Restores /\ SetsDb(store.l1)' = SetsDb(store'.l1) /\ Thread' = Thread
      BY DEF Restores, Restore, SetsDb, Put, Thread
  <2> QED BY <2>3, <2>4 DEF ThroughFresh
<1> QED BY <1>1, <1>2, <1>3 DEF ThroughFresh

LEMMA ThroughStep ==
    ASSUME TypeInv, service = "through", ThroughHere, NEW t \in Thread, Step(t)
    PROVE  ThroughOK(t)' /\ LetsOthers(t) /\ KeepsCurrent(t) /\ ThroughFresh'
<1>0. /\ call[t].todo # <<>> /\ t # Nobody /\ store \in StoreType /\ ThroughOK(t)
      /\ service # "logical" /\ "l1" \in Cache /\ "db" \notin Cache /\ store.dirty = None
    BY StepService, NamesAssumption DEF Thread, TypeInv, ThroughHere, Cache
<1>1. V' = V /\ \A v : SetsDb(v)' = SetsDb(v) /\ SetsBoth(v)' = SetsBoth(v)
          /\ TriesSaved(v)' = TriesSaved(v) /\ Tries(v)' = Tries(v) /\ FillsL1(v)' = FillsL1(v)
    BY DEF V, SetsDb, SetsBoth, TriesSaved, Tries, FillsL1, Put, Save, Restore
<1>2. CASE mutex # t /\ call[t].todo = GetThrough
  <2>1. store' = store /\ tainted' = tainted /\ (Moves(t, <<>>) \/ Moves(t, Loads))
      BY <1>0, <1>2, ThroughForms, LookStep
  <2>2. /\ mutex' = mutex /\ call'[t].todo \in {<<>>, Loads}
        /\ \A u \in Thread \ {t} : call'[u] = call[u]
      BY <1>2, <2>1 DEF Moves, GoesOn
  <2>3. ThroughOK(t)'
      BY <1>2, <2>2 DEF ThroughOK
  <2>4. ThroughFresh'
      BY <1>2, <2>1, <2>2, ThroughKept DEF ThroughHere
  <2> QED BY <2>1, <2>2, <2>3, <2>4 DEF LetsOthers, KeepsCurrent
<1>3. CASE mutex # t /\ call[t].todo = Loads
  <2>1. store' = store /\ tainted' = tainted /\ (Moves(t, <<>>) \/ \E v \in V : Moves(t, FillsL1(v)))
      BY <1>0, <1>3, MutexForms, LookStep
  <2>2. /\ mutex' = mutex /\ (call'[t].todo = <<>> \/ \E v \in V : call'[t].todo = FillsL1(v))
        /\ \A u \in Thread \ {t} : call'[u] = call[u]
      BY <1>3, <2>1 DEF Moves, GoesOn
  <2>3. ThroughOK(t)'
      BY <1>1, <1>3, <2>2 DEF ThroughOK
  <2>4. ThroughFresh'
      BY <1>3, <2>1, <2>2, ThroughKept DEF ThroughHere
  <2> QED BY <2>1, <2>2, <2>3, <2>4 DEF LetsOthers, KeepsCurrent
<1>4. ASSUME NEW v \in V, mutex # t, call[t].todo = FillsL1(v)
      PROVE  ThroughOK(t)' /\ LetsOthers(t) /\ KeepsCurrent(t) /\ ThroughFresh'
  <2>0. Head(call[t].todo) = Put("l1", v) /\ Tail(call[t].todo) = <<>>
      BY <1>4, MutexForms
  <2>1. store' = [store EXCEPT !.l1 = v] /\ Moves(t, <<>>)
      BY <1>0, <2>0, PutStep
  <2>2. "l1" \notin tainted' => v = None \/ (mutex = Nobody /\ Agrees(v))
      BY <1>0, <1>4, <2>0, PutTaints
  <2>3. /\ mutex' = mutex /\ call'[t].todo = <<>> /\ \A u \in Thread \ {t} : call'[u] = call[u]
        /\ store'.l1 = v /\ store'.l2 = store.l2 /\ store'.updating = store.updating
        /\ store'.dirty = store.dirty /\ store'.db = store.db
      BY <1>0, <1>4, <2>1 DEF Moves, GoesOn, StoreType
  <2>4. ThroughOK(t)'
      BY <1>4, <2>3 DEF ThroughOK
  <2>5. ThroughFresh'
      BY <2>2, <2>3, SettledPut DEF ThroughFresh
  <2> QED BY <2>2, <2>3, <2>4, <2>5 DEF LetsOthers, KeepsCurrent
<1>5. ASSUME NEW v \in V, NEW X \in {SetsBoth(v), TriesSaved(v)},
             call[t].todo # <<>>, Head(call[t].todo) = Lock, Tail(call[t].todo) = X
      PROVE  ThroughOK(t)' /\ LetsOthers(t) /\ KeepsCurrent(t) /\ ThroughFresh'
  <2>1. GoesOn(t, X) /\ mutex = Nobody /\ mutex' = t /\ store' = store
      BY <1>5, LockStep
  <2>2. tainted' = tainted
      BY <1>5, KeepsTaints, HeadsDiffer
  <2>3. ThroughOK(t)'
      BY <1>1, <1>5, <2>1 DEF ThroughOK, GoesOn
  <2>4. ThroughFresh'
      BY <1>0, <2>1, <2>2, ThroughKept DEF ThroughHere, GoesOn
  <2> QED BY <2>1, <2>2, <2>3, <2>4 DEF LetsOthers, KeepsCurrent, GoesOn
<1>6. ASSUME NEW v \in V, mutex = t, NEW X \in {SetsDb(v), Restores},
             call[t].todo # <<>>, Head(call[t].todo) = Put("l1", v), Tail(call[t].todo) = X,
             X = Restores => SavedOK(t)
      PROVE  ThroughOK(t)' /\ LetsOthers(t) /\ KeepsCurrent(t) /\ ThroughFresh'
  <2>1. store' = [store EXCEPT !.l1 = v] /\ Moves(t, X)
      BY <1>0, <1>6, PutStep
  <2>2. X # <<>>
      BY <1>6, ThroughForms
  <2>3. /\ mutex' = t /\ call'[t].todo = X /\ \A u \in Thread \ {t} : call'[u] = call[u]
        /\ store'.l1 = v /\ store'.l2 = store.l2 /\ store'.updating = store.updating
        /\ store'.db = store.db /\ store'.dirty = store.dirty
        /\ call'[t].saved = call[t].saved /\ call'[t].late = call[t].late
      BY <1>0, <1>6, <2>1, <2>2 DEF Moves, GoesOn, StoreType
  <2>4. ThroughOK(t)'
    <3>1. CASE X = Restores
      <4>1. SavedOK(t)'
          BY <1>6, <2>3, <3>1 DEF SavedOK, Agrees, Current
      <4> QED BY <2>3, <3>1, <4>1 DEF ThroughOK
    <3>2. CASE X = SetsDb(v)
        BY <1>1, <2>3, <3>2 DEF ThroughOK
    <3> QED BY <1>6, <3>1, <3>2
  <2>5. ThroughFresh'
    <3>1. mutex' = t /\ call'[t].todo \in {Restores, SetsDb(store'.l1)}
        BY <1>6, <2>3
    <3>2. \E x \in Thread : mutex' = x /\ call'[x].todo \in {Restores, SetsDb(store'.l1)}
        BY <3>1
    <3>3. Restores' = Restores /\ SetsDb(store.l1)' = SetsDb(store'.l1) /\ Thread' = Thread
        BY DEF Restores, Restore, SetsDb, Put, Thread
    <3> QED BY <3>2, <3>3 DEF ThroughFresh
  <2> QED BY <1>6, <2>3, <2>4, <2>5 DEF LetsOthers, KeepsCurrent
<1>7. ASSUME NEW v \in V, mutex = t, call[t].todo = SetsDb(v),
             "l1" \in tainted \/ store.l1 \in {None, v}
      PROVE  ThroughOK(t)' /\ LetsOthers(t) /\ KeepsCurrent(t) /\ ThroughFresh'
  <2>0. Head(call[t].todo) = Put("db", v) /\ Tail(call[t].todo) = <<>>
      BY <1>7, ThroughForms
  <2>1. store' = [store EXCEPT !.db = v] /\ Moves(t, <<>>)
      BY <1>0, <2>0, PutStep
  <2>2. tainted' = tainted
      BY <1>0, <2>0, PutTaints
  <2>3. /\ mutex' = Nobody /\ call'[t].todo = <<>> /\ \A u \in Thread \ {t} : call'[u] = call[u]
        /\ store'.l1 = store.l1 /\ store'.l2 = store.l2 /\ store'.updating = store.updating
        /\ store'.dirty = None /\ store'.db = v
      BY <1>0, <1>7, <2>1 DEF Moves, GoesOn, StoreType
  <2>4. ThroughOK(t)'
      BY <1>0, <2>3 DEF ThroughOK
  <2>5. ThroughFresh'
      BY <1>7, <2>2, <2>3 DEF ThroughFresh, Settled, Agrees, Current
  <2> QED BY <1>7, <2>3, <2>4, <2>5 DEF LetsOthers, KeepsCurrent
<1>8. ASSUME NEW v \in V, mutex = t, call[t].todo = TriesSaved(v)
      PROVE  ThroughOK(t)' /\ LetsOthers(t) /\ KeepsCurrent(t) /\ ThroughFresh'
  <2>0. Head(call[t].todo) = Save /\ Tail(call[t].todo) = Tries(v)
      BY <1>8, ThroughForms
  <2>1. /\ call'[t].todo = Tries(v) /\ \A u \in Thread \ {t} : call'[u] = call[u]
        /\ mutex' = mutex /\ store' = store /\ tainted' = tainted
        /\ call'[t].saved = store.l1 /\ call'[t].late = ("l1" \in tainted)
      BY <1>0, <2>0, SaveStep
  <2>2. call[t].todo \notin {Restores, SetsDb(store.l1)}
    <3>1. Head(call[t].todo).do = "save" /\ Head(Restores).do = "restore" /\ Head(SetsDb(store.l1)).do = "put"
        BY <2>0, ThroughForms, HeadsDiffer
    <3> QED BY <3>1
  <2>3. ThroughOK(t)'
    <3>1. \A u \in Thread : mutex = u => u = t
        BY <1>8
    <3>2. "l1" \in tainted \/ Settled("l1")
        BY <2>2, <3>1 DEF ThroughHere, ThroughFresh
    <3>3. SavedOK(t)'
        BY <2>1, <3>2 DEF SavedOK, Settled, Agrees, Current
    <3> QED BY <1>1, <1>8, <2>1, <3>3 DEF ThroughOK
  <2>4. ThroughFresh'
      BY <2>1, <2>2, ThroughKept DEF ThroughHere
  <2> QED BY <2>1, <2>3, <2>4 DEF LetsOthers, KeepsCurrent
<1>9. CASE mutex = t /\ call[t].todo = Restores /\ SavedOK(t)
  <2>0. Head(call[t].todo) = Restore /\ Tail(call[t].todo) = <<>>
      BY <1>9, ThroughForms
  <2>1. Moves(t, <<>>)
      BY <1>0, <2>0, RestoreStep
  <2> DEFINE v == call[t].saved
  <2>2. /\ v \in V /\ store' = [store EXCEPT !.l1 = v]
        /\ "l1" \notin tainted' => v = None \/ Agrees(v)
      BY <1>0, <1>9, <2>0, RestoreStep DEF SavedOK
  <2>3. /\ mutex' = Nobody /\ call'[t].todo = <<>> /\ \A u \in Thread \ {t} : call'[u] = call[u]
        /\ store'.l1 = v /\ store'.l2 = store.l2 /\ store'.updating = store.updating
        /\ store'.dirty = None /\ store'.db = store.db
      BY <1>0, <1>9, <2>1, <2>2 DEF Moves, GoesOn, StoreType
  <2>4. ThroughOK(t)'
      BY <1>0, <2>3 DEF ThroughOK
  <2>5. ThroughFresh'
      BY <1>0, <2>2, <2>3 DEF ThroughFresh, Settled, Agrees, Current
  <2> QED BY <1>9, <2>3, <2>4, <2>5 DEF LetsOthers, KeepsCurrent
<1>10. ASSUME NEW v \in V, call[t].todo \in {SetsThrough(v), TriesLocked(v)}
       PROVE  ThroughOK(t)' /\ LetsOthers(t) /\ KeepsCurrent(t) /\ ThroughFresh'
    BY <1>5, <1>10, ThroughForms
<1>11. ASSUME NEW v \in V, mutex = t, call[t].todo \in {SetsBoth(v), Tries(v)},
              call[t].todo = SetsBoth(v) \/ SavedOK(t)
       PROVE  ThroughOK(t)' /\ LetsOthers(t) /\ KeepsCurrent(t) /\ ThroughFresh'
  <2>1. SetsDb(v) # Restores
    <3>1. Head(Restores).do = "restore" /\ Head(SetsDb(v)).do = "put"
        BY ThroughForms, HeadsDiffer
    <3> QED BY <3>1
  <2>2. CASE call[t].todo = SetsBoth(v)
      BY <1>6, <1>11, <2>1, <2>2, ThroughForms
  <2>3. CASE call[t].todo = Tries(v) /\ SavedOK(t)
      BY <1>6, <1>11, <2>3, ThroughForms
  <2> QED BY <1>11, <2>2, <2>3
<1> QED BY <1>0, <1>2, <1>3, <1>4, <1>7, <1>8, <1>9, <1>10, <1>11 DEF ThroughOK

LEMMA ThroughWritesLemma ==
    ASSUME service = "through", NEW w \in Writes
    PROVE  \E v \in V : w[2] \in {SetsThrough(v), TriesLocked(v)}
<1>0. None \in V /\ Value \subseteq V
    BY CachePutsLemma
<1>1. ASSUME NEW v \in Value, w = <<"Set", <<Lock, Put("l1", v), Put("db", v)>>>>
      PROVE  w[2] = SetsThrough(v)
    BY <1>1 DEF SetsThrough
<1>2. ASSUME NEW v \in Value, w = <<"SetWithRollback", <<Lock, Save, Put("l1", v), Restore>>>>
      PROVE  w[2] = TriesLocked(v)
    BY <1>2 DEF TriesLocked
<1>3. ASSUME w = <<"Delete", <<Lock, Drop("l1"), Drop("db")>>>> PROVE w[2] = SetsThrough(None)
    BY <1>3 DEF SetsThrough, Drop
<1> QED BY <1>0, <1>1, <1>2, <1>3 DEF Writes, ThroughWrites

LEMMA ThroughNext ==
    ASSUME TypeInv, service = "through", Common, ThroughHere, [Next]_vars
    PROVE  Common' /\ ThroughHere'
<1>0. service' = service /\ Thread' = Thread /\ TwoLevels' = TwoLevels
    BY NextCases DEF Thread, TwoLevels
<1>1. ASSUME NEW t \in Thread, Step(t) PROVE Common' /\ ThroughHere'
  <2>1. ThroughOK(t)' /\ LetsOthers(t) /\ KeepsCurrent(t) /\ ThroughFresh'
      BY <1>1, ThroughStep
  <2>2. \A u \in Thread : ThroughOK(u)'
      BY <2>1, ThroughAll DEF ThroughHere
  <2> QED BY <1>0, <2>1, <2>2 DEF ThroughHere, LetsOthers, Common
<1>2. ASSUME NEW t \in Thread, NEW X, Begins(t, X) PROVE Common' /\ ThroughHere'
  <2>0. /\ call[t].todo = <<>> /\ call'[t].todo = X /\ \A u \in Thread \ {t} : call'[u] = call[u]
        /\ store' = store /\ mutex' = mutex /\ tainted' = tainted
      BY <1>2 DEF Begins, Same
  <2>1. X \in {<<>>, GetThrough} \/ \E v \in V : X \in {SetsThrough(v), TriesLocked(v)}
      BY <1>2, ThroughWritesLemma DEF Begins, Get
  <2>2. mutex # t
    <3>1. ThroughOK(t)
        BY DEF ThroughHere
    <3> QED BY <2>0, <3>1, ThroughForms DEF ThroughOK
  <2>3. ThroughOK(t)'
    <3>1. CASE X \in {<<>>, GetThrough}
        BY <2>0, <2>2, <3>1 DEF ThroughOK
    <3>2. ASSUME NEW v \in V, X \in {SetsThrough(v), TriesLocked(v)} PROVE ThroughOK(t)'
        BY <2>0, <2>2, <3>2 DEF ThroughOK, V, SetsThrough, TriesLocked, Put
    <3> QED BY <2>1, <3>1, <3>2
  <2>4. LetsOthers(t) /\ KeepsCurrent(t)
      BY <2>0 DEF LetsOthers, KeepsCurrent
  <2>5. \A u \in Thread : ThroughOK(u)'
      BY <2>3, <2>4, ThroughAll DEF ThroughHere
  <2>6. ThroughFresh'
      BY <2>0, <2>2, ThroughKept DEF ThroughHere
  <2> QED BY <1>0, <2>0, <2>5, <2>6 DEF ThroughHere, Common
<1>3. CASE Same /\ call' = call
  <2>1. Common' = Common /\ ThroughHere' = ThroughHere
      BY <1>0, <1>3 DEF Same, Common, ThroughHere, ThroughOK, SavedOK, ThroughFresh, Settled,
                        Agrees, Current
  <2> QED BY <2>1
<1>4. ~ExpireLogically /\ \A s \in Cache : ~Forget(s)
    BY DEF ExpireLogically, Forget, Expires
<1> QED BY <1>1, <1>2, <1>3, <1>4, NextCases

-----------------------------------------------------------------------------
(***************************************************************************)
(* Write-back.  Of the lists of a call that holds the mutex, three say     *)
(* something of the cache.                                                 *)
(***************************************************************************)
SaysNothing(X) ==
    /\ X \notin {<<>>, GetBack, Loads, DeletesDirty, DeletesDb}
    /\ \A v \in V : X # FillsL1(v)
    /\ \A v \in Value : X # SetsDirty(v)

LEMMA BackDiffer ==
    /\ SaysNothing(FlushCopies) /\ SaysNothing(CloseCopies) /\ SaysNothing(FlushForgets)
    /\ SaysNothing(CloseForgets) /\ SaysNothing(CloseUnlocks) /\ SaysNothing(DeletesCache)
    /\ \A v \in Value : SaysNothing(SetsCache(v))
    /\ \A X : (\E v \in Value : X = SetsDirty(v)) \/ X \in {DeletesDirty, DeletesDb} =>
           X \notin {<<>>, GetBack, Loads} /\ \A w \in V : X # FillsL1(w)
    /\ \A v \in Value : SetsDirty(v) \notin {DeletesDirty, DeletesDb}
    /\ \A v, w : SetsDirty(v) = SetsDirty(w) => v = w
<1>0. None \notin Value
    BY NamesAssumption
<1>1. /\ \A v : Put("l1", v) # Put("dirty", None) /\ Put("l1", v) # Put("db", None)
      /\ \A v, w : Put("l1", v) # Put("dirty", w)
      /\ \A v \in Value : Put("dirty", v) # Put("dirty", None)
      /\ \A v : Put("db", None) # Put("dirty", v)
      /\ \A v, w : Put("dirty", v) = Put("dirty", w) => v = w
    BY <1>0, HeadsDiffer
<1>2. /\ \A s, v : Put(s, v) # Copy /\ Put(s, v) # Unlock /\ Put(s, v) # Stop
      /\ \A s : Look(s) # Copy /\ Look(s) # Unlock
      /\ \A s, r, v : Put(s, v) # Look(r)
      /\ \A v : Unlock # Put("db", v)
    BY HeadsDiffer
<1>a. ASSUME NEW X, NEW s, NEW v, Head(X) = Put(s, v) PROVE X \notin {GetBack, Loads}
  <2>1. Head(GetBack) = Look("l1") /\ Head(Loads) = Look("db")
      BY BackForms, MutexForms
  <2> QED BY <1>2, <1>a, <2>1
<1>b. ASSUME NEW X, NEW v, Head(X) = Put("dirty", v) PROVE \A w \in V : X # FillsL1(w)
  <2>1. \A w : Head(FillsL1(w)) = Put("l1", w)
      BY MutexForms
  <2> QED BY <1>1, <1>b, <2>1
<1>c. ASSUME NEW X, Tail(X) # <<>> PROVE \A w \in V : X # FillsL1(w)
  <2>1. \A w : Tail(FillsL1(w)) = <<>>
      BY MutexForms
  <2> QED BY <1>c, <2>1
<1>3. SaysNothing(FlushCopies) /\ SaysNothing(CloseCopies) /\ SaysNothing(CloseUnlocks)
  <2>1. /\ Head(FlushCopies) = Copy /\ Head(CloseCopies) = Copy /\ Head(CloseUnlocks) = Unlock
        /\ FlushCopies # <<>> /\ CloseCopies # <<>> /\ CloseUnlocks # <<>>
      BY BackForms
  <2>2. \A X : X # <<>> /\ Head(X) \in {Copy, Unlock} => SaysNothing(X)
    <3> TAKE X
    <3> HAVE X # <<>> /\ Head(X) \in {Copy, Unlock}
    <3>1. X \notin {GetBack, Loads}
        BY <1>2, BackForms, MutexForms
    <3>2. X \notin {DeletesDirty, DeletesDb} /\ (\A v \in Value : X # SetsDirty(v))
        BY <1>2, BackWriteForms
    <3>3. \A v \in V : X # FillsL1(v)
        BY <1>2, MutexForms
    <3> QED BY <3>1, <3>2, <3>3 DEF SaysNothing
  <2> QED BY <2>1, <2>2
<1>4. SaysNothing(FlushForgets)
  <2>1. FlushForgets # <<>> /\ Head(FlushForgets) = Put("dirty", None) /\ Tail(FlushForgets) = <<>>
      BY BackForms
  <2>2. FlushForgets \notin {GetBack, Loads} /\ \A v \in V : FlushForgets # FillsL1(v)
      BY <1>a, <1>b, <2>1
  <2>3. FlushForgets \notin {DeletesDirty, DeletesDb} /\ \A v \in Value : FlushForgets # SetsDirty(v)
      BY <1>1, <2>1, BackWriteForms
  <2> QED BY <2>1, <2>2, <2>3 DEF SaysNothing
<1>5. SaysNothing(CloseForgets)
  <2>1. /\ CloseForgets # <<>> /\ Head(CloseForgets) = Put("dirty", None)
        /\ Tail(CloseForgets) = CloseUnlocks /\ Head(CloseUnlocks) = Unlock
      BY BackForms
  <2>2. CloseForgets \notin {GetBack, Loads} /\ \A v \in V : CloseForgets # FillsL1(v)
      BY <1>a, <1>b, <2>1
  <2>3. CloseForgets \notin {DeletesDirty, DeletesDb} /\ \A v \in Value : CloseForgets # SetsDirty(v)
      BY <1>1, <1>2, <2>1, BackWriteForms
  <2> QED BY <2>1, <2>2, <2>3 DEF SaysNothing
<1>6. ASSUME NEW X, NEW v, X # <<>>, Head(X) = Put("l1", v), Tail(X) # <<>> PROVE SaysNothing(X)
  <2>1. X \notin {GetBack, Loads} /\ \A w \in V : X # FillsL1(w)
      BY <1>a, <1>c, <1>6
  <2>2. X \notin {DeletesDirty, DeletesDb} /\ \A w \in Value : X # SetsDirty(w)
      BY <1>1, <1>6, BackWriteForms
  <2> QED BY <1>6, <2>1, <2>2 DEF SaysNothing
<1>7. SaysNothing(DeletesCache) /\ \A v \in Value : SaysNothing(SetsCache(v))
    BY <1>6, BackWriteForms
<1>8. ASSUME NEW X, (\E v \in Value : X = SetsDirty(v)) \/ X \in {DeletesDirty, DeletesDb}
      PROVE  X \notin {<<>>, GetBack, Loads} /\ \A w \in V : X # FillsL1(w)
  <2>1. X # <<>> /\ ((\E v : Head(X) = Put("dirty", v)) \/ Head(X) = Put("db", None))
      BY <1>8, BackWriteForms
  <2>2. X \notin {GetBack, Loads}
    <3>1. Head(GetBack) = Look("l1") /\ Head(Loads) = Look("db")
        BY BackForms, MutexForms
    <3> QED BY <1>2, <2>1, <3>1
  <2>3. \A w \in V : X # FillsL1(w)
      BY <1>1, <2>1, MutexForms
  <2> QED BY <2>1, <2>2, <2>3
<1>9. \A v \in Value : SetsDirty(v) \notin {DeletesDirty, DeletesDb}
    BY <1>1, BackWriteForms
<1>10. \A v, w : SetsDirty(v) = SetsDirty(w) => v = w
    BY <1>1, BackWriteForms
<1> QED BY <1>3, <1>4, <1>5, <1>7, <1>8, <1>9, <1>10

LEMMA BackAheadOthers ==
    ASSUME NEW u \in Thread, BackAhead(u), call'[u] = call[u],
           mutex # u => mutex' # u,
           mutex = u => /\ mutex' = u
                        /\ \/ "l1" \in tainted' \/ store'.l1 = None
                           \/ store'.l1 = store.l1 /\ "l1" \notin tainted
    PROVE  BackAhead(u)'
<1>1. V' = V /\ \A v : FillsL1(v)' = FillsL1(v) /\ SetsDirty(v)' = SetsDirty(v)
    BY DEF V, FillsL1, SetsDirty, Put
<1>2. CASE mutex # u
    BY <1>2 DEF BackAhead
<1>3. CASE mutex = u
    BY <1>1, <1>3 DEF BackAhead
<1> QED BY <1>2, <1>3

LEMMA BackAheadAll ==
    ASSUME NEW t \in Thread, \A u \in Thread : BackAhead(u), BackAhead(t)', LetsOthers(t)
    PROVE  \A u \in Thread : BackAhead(u)'
<1> TAKE u \in Thread
<1>1. CASE u = t BY <1>1
<1>2. CASE u # t
  <2>0. u # Nobody /\ t # Nobody
      BY NamesAssumption DEF Thread
  <2>1. mutex # u => mutex' # u
      BY <1>2, <2>0 DEF LetsOthers
  <2>2. mutex = u => /\ mutex' = u
                     /\ \/ "l1" \in tainted' \/ store'.l1 = None
                        \/ store'.l1 = store.l1 /\ "l1" \notin tainted
      BY <1>2, <2>0 DEF LetsOthers
  <2> QED BY <1>2, <2>1, <2>2, BackAheadOthers DEF LetsOthers
<1> QED BY <1>1, <1>2

(* What was fresh stays so when the service still answers the same. *)
LEMMA BackKept ==
    ASSUME NEW t \in Thread, BackFresh, store'.l1 = store.l1, Current' = Current, tainted' = tainted,
           \A u \in Thread \ {t} : call'[u] = call[u],
           mutex # t => mutex' = mutex \/ mutex = Nobody,
           mutex = t => store.l1 = None \/ call[t].todo # SetsDirty(store.l1)
    PROVE  BackFresh'
<1>1. CASE "l1" \in tainted
    BY <1>1 DEF BackFresh
<1>2. CASE Settled("l1")
    BY <1>2 DEF BackFresh, Settled, Agrees
<1>3. ASSUME NEW u \in Thread, mutex = u, call[u].todo = SetsDirty(store.l1), store.l1 # None
      PROVE  BackFresh'
  <2>1. u # t /\ u # Nobody
      BY <1>3, NamesAssumption DEF Thread
  <2>2. mutex' = u /\ call'[u].todo = SetsDirty(store'.l1)
      BY <1>3, <2>1
  <2>3. \E x \in Thread : mutex' = x /\ call'[x].todo = SetsDirty(store'.l1)
      BY <2>2
  <2>4. SetsDirty(store.l1)' = SetsDirty(store'.l1) /\ Thread' = Thread
      BY DEF SetsDirty, Put, Thread
  <2> QED BY <2>3, <2>4 DEF BackFresh
<1> QED BY <1>1, <1>2, <1>3 DEF BackFresh, Settled

LEMMA BackFreshStep ==
    ASSUME TypeInv, service = "back", BackHere, NEW t \in Thread, Step(t)
    PROVE  BackAhead(t)' /\ LetsOthers(t) /\ BackFresh'
<1>0. /\ t # Nobody /\ call[t].todo # <<>> /\ service # "logical" /\ store \in StoreType
      /\ BackOK(t) /\ BackAhead(t) /\ None \notin Value /\ Value \subseteq V
      /\ "l1" \in Cache /\ "db" \notin Cache /\ "dirty" \notin Cache
    BY StepService, NamesAssumption DEF Thread, TypeInv, BackHere, V, Cache
<1>1. /\ V' = V /\ \A v : FillsL1(v)' = FillsL1(v) /\ SetsDirty(v)' = SetsDirty(v)
    BY DEF V, FillsL1, SetsDirty, Put
<1>2. ASSUME mutex' # t PROVE BackAhead(t)'
    BY <1>2 DEF BackAhead
<1>3. ASSUME SaysNothing(call'[t].todo) PROVE BackAhead(t)'
    BY <1>1, <1>3 DEF BackAhead, SaysNothing
(* A call that reads *)
<1>4. ASSUME mutex # t, store' = store, tainted' = tainted, NEW X, Moves(t, X)
      PROVE  BackAhead(t)' /\ LetsOthers(t) /\ BackFresh'
  <2>1. mutex' = mutex /\ \A u \in Thread \ {t} : call'[u] = call[u]
      BY <1>4 DEF Moves, GoesOn
  <2>2. BackFresh'
      BY <1>4, <2>1, BackKept DEF BackHere, Current
  <2> QED BY <1>2, <1>4, <2>1, <2>2 DEF LetsOthers
<1>5. CASE call[t].todo = GetBack
  <2>1. store' = store /\ tainted' = tainted /\ (Moves(t, <<>>) \/ Moves(t, Loads))
      BY <1>0, <1>5, BackForms, LookStep
  <2>2. mutex # t
      BY <1>0, <1>5 DEF BackAhead
  <2> QED BY <1>4, <2>1, <2>2
<1>6. CASE call[t].todo = Loads
  <2>1. store' = store /\ tainted' = tainted /\ (Moves(t, <<>>) \/ \E v \in V : Moves(t, FillsL1(v)))
      BY <1>0, <1>6, MutexForms, LookStep
  <2>2. mutex # t
      BY <1>0, <1>6 DEF BackAhead
  <2> QED BY <1>4, <2>1, <2>2
<1>7. ASSUME NEW v \in V, call[t].todo = FillsL1(v)
      PROVE  BackAhead(t)' /\ LetsOthers(t) /\ BackFresh'
  <2>0. Head(call[t].todo) = Put("l1", v) /\ Tail(call[t].todo) = <<>> /\ mutex # t
      BY <1>0, <1>7, MutexForms DEF BackAhead
  <2>1. store' = [store EXCEPT !.l1 = v] /\ Moves(t, <<>>)
      BY <1>0, <2>0, PutStep
  <2>2. "l1" \notin tainted' => v = None \/ (mutex = Nobody /\ Agrees(v))
      BY <1>0, <2>0, PutTaints
  <2>3. /\ mutex' = mutex /\ \A u \in Thread \ {t} : call'[u] = call[u]
        /\ store'.l1 = v /\ store'.l2 = store.l2 /\ store'.updating = store.updating
        /\ store'.dirty = store.dirty /\ store'.db = store.db
      BY <1>0, <2>0, <2>1 DEF Moves, GoesOn, StoreType
  <2>4. BackFresh'
      BY <2>2, <2>3, SettledPut DEF BackFresh
  <2> QED BY <1>2, <2>0, <2>2, <2>3, <2>4 DEF LetsOthers
(* A call that takes the mutex *)
<1>8. ASSUME Head(call[t].todo) = Lock, SaysNothing(Tail(call[t].todo))
      PROVE  BackAhead(t)' /\ LetsOthers(t) /\ BackFresh'
  <2>1. GoesOn(t, Tail(call[t].todo)) /\ mutex = Nobody /\ mutex' = t /\ store' = store
      BY <1>0, <1>8, LockStep
  <2>2. tainted' = tainted
      BY <1>8, KeepsTaints, HeadsDiffer
  <2>3. BackFresh'
      BY <1>0, <2>1, <2>2, BackKept DEF BackHere, Current, GoesOn
  <2> QED BY <1>3, <1>8, <2>1, <2>2, <2>3 DEF LetsOthers, GoesOn
<1>9. CASE call[t].todo \in {Flush, Closes, Deletes}
    BY <1>8, <1>9, BackForms, BackWriteForms, BackDiffer
<1>10. ASSUME NEW v \in Value, call[t].todo = Sets(v)
       PROVE  BackAhead(t)' /\ LetsOthers(t) /\ BackFresh'
  <2>1. Head(call[t].todo) = Lock /\ Tail(call[t].todo) = SetsCache(v)
      BY <1>10, BackWriteForms
  <2>2. SaysNothing(SetsCache(v))
      BY BackDiffer
  <2> QED BY <1>8, <2>1, <2>2
(* The steps under the mutex that leave the service's answer as it is *)
<1>11. ASSUME store'.l1 = store.l1, Current' = Current, tainted' = tainted,
              store'.l2 = store.l2, store'.updating = store.updating,
              store.l1 = None \/ call[t].todo # SetsDirty(store.l1), BackAhead(t)',
              mutex' = mutex \/ (mutex = t /\ mutex' = Nobody),
              \A u \in Thread \ {t} : call'[u] = call[u]
       PROVE  BackAhead(t)' /\ LetsOthers(t) /\ BackFresh'
  <2>1. BackFresh'
      BY <1>11, BackKept DEF BackHere
  <2> QED BY <1>11, <2>1 DEF LetsOthers
<1>12. CASE call[t].todo = CloseStops
  <2>0. Head(call[t].todo) = Stop /\ Tail(call[t].todo) = <<>>
      BY <1>12, BackForms
  <2>1. store' = store /\ Moves(t, <<>>) /\ tainted' = tainted
      BY <1>0, <2>0, CloseStep, KeepsTaints, HeadsDiffer
  <2>2. /\ mutex' # t /\ (mutex' = mutex \/ (mutex = t /\ mutex' = Nobody))
        /\ \A u \in Thread \ {t} : call'[u] = call[u]
      BY <1>0, <2>1 DEF Moves, GoesOn
  <2>3. call[t].todo # SetsDirty(store.l1)
    <3>1. Head(SetsDirty(store.l1)) = Put("dirty", store.l1)
        BY BackWriteForms
    <3> QED BY <2>0, <3>1, HeadsDiffer
  <2>4. Current' = Current
      BY <2>1 DEF Current
  <2> QED BY <1>2, <1>11, <2>1, <2>2, <2>3, <2>4
<1>13. CASE mutex = t /\ call[t].todo \in {FlushCopies, CloseCopies}
  <2>0. Head(call[t].todo) = Copy /\ Tail(call[t].todo) \in {FlushForgets, CloseForgets}
        /\ FlushForgets # <<>> /\ CloseForgets # <<>>
      BY <1>13, BackForms
  <2>1. /\ store' = [store EXCEPT !.db = Current] /\ Moves(t, Tail(call[t].todo))
        /\ tainted' = tainted
      BY <1>0, <2>0, CopyStep, KeepsTaints, HeadsDiffer
  <2>2. /\ store'.l1 = store.l1 /\ store'.l2 = store.l2 /\ store'.updating = store.updating
        /\ Current' = Current
      BY <1>0, <2>1 DEF Current, StoreType
  <2>3. mutex' = mutex /\ (\A u \in Thread \ {t} : call'[u] = call[u]) /\ SaysNothing(call'[t].todo)
      BY <2>0, <2>1, BackDiffer DEF Moves, GoesOn
  <2>4. call[t].todo # SetsDirty(store.l1)
    <3>1. Head(SetsDirty(store.l1)) = Put("dirty", store.l1)
        BY BackWriteForms
    <3> QED BY <2>0, <3>1, HeadsDiffer
  <2> QED BY <1>3, <1>11, <2>1, <2>2, <2>3, <2>4
<1>14. CASE mutex = t /\ call[t].todo \in {FlushForgets, CloseForgets} /\ store.dirty \in {None, store.db}
  <2>0. Head(call[t].todo) = Put("dirty", None) /\ Tail(call[t].todo) \in {<<>>, CloseUnlocks}
      BY <1>14, BackForms
  <2>1. /\ store' = [store EXCEPT !.dirty = None] /\ Moves(t, Tail(call[t].todo))
        /\ tainted' = tainted
      BY <1>0, <2>0, PutStep, PutTaints
  <2>2. /\ store'.l1 = store.l1 /\ store'.l2 = store.l2 /\ store'.updating = store.updating
        /\ Current' = Current
      BY <1>0, <1>14, <2>1 DEF Current, StoreType
  <2>3. /\ mutex' = mutex \/ (mutex = t /\ mutex' = Nobody)
        /\ \A u \in Thread \ {t} : call'[u] = call[u]
      BY <2>1 DEF Moves, GoesOn
  <2>4. store.l1 = None \/ call[t].todo # SetsDirty(store.l1)
    <3>1. Head(SetsDirty(store.l1)) = Put("dirty", store.l1)
        BY BackWriteForms
    <3>2. Put("dirty", store.l1).val = store.l1 /\ Put("dirty", None).val = None
        BY HeadsDiffer
    <3> QED BY <2>0, <3>1, <3>2
  <2>5. BackAhead(t)'
    <3>1. CASE Tail(call[t].todo) = <<>>
      <4>1. mutex' # t
          BY <1>0, <1>14, <2>1, <3>1 DEF Moves
      <4> QED BY <1>2, <4>1
    <3>2. CASE Tail(call[t].todo) = CloseUnlocks
        BY <1>3, <2>1, <3>2, BackDiffer DEF Moves, GoesOn
    <3> QED BY <2>0, <3>1, <3>2
  <2> QED BY <1>11, <2>1, <2>2, <2>3, <2>4, <2>5
<1>15. CASE mutex = t /\ call[t].todo = CloseUnlocks
  <2>0. Head(call[t].todo) = Unlock
      BY <1>15, BackForms
  <2>1. GoesOn(t, CloseStops) /\ mutex' = Nobody /\ store' = store /\ tainted' = tainted
      BY <1>0, <1>15, BackForms, UnlockStep, KeepsTaints, HeadsDiffer
  <2>2. Current' = Current /\ mutex' # t /\ \A u \in Thread \ {t} : call'[u] = call[u]
      BY <1>0, <2>1 DEF Current, GoesOn
  <2>3. call[t].todo # SetsDirty(store.l1)
    <3>1. Head(SetsDirty(store.l1)) = Put("dirty", store.l1)
        BY BackWriteForms
    <3> QED BY <2>0, <3>1, HeadsDiffer
  <2> QED BY <1>2, <1>11, <1>15, <2>1, <2>2, <2>3
(* The steps of a write *)
<1>16. ASSUME NEW v \in Value, mutex = t, call[t].todo = SetsCache(v)
       PROVE  BackAhead(t)' /\ LetsOthers(t) /\ BackFresh'
  <2>0. Head(call[t].todo) = Put("l1", v) /\ Tail(call[t].todo) = SetsDirty(v) /\ SetsDirty(v) # <<>>
      BY <1>16, BackWriteForms
  <2>1. store' = [store EXCEPT !.l1 = v] /\ Moves(t, SetsDirty(v))
      BY <1>0, <2>0, PutStep
  <2>2. /\ mutex' = t /\ call'[t].todo = SetsDirty(v) /\ \A u \in Thread \ {t} : call'[u] = call[u]
        /\ store'.l1 = v /\ store'.l2 = store.l2 /\ store'.updating = store.updating
      BY <1>0, <1>16, <2>0, <2>1 DEF Moves, GoesOn, StoreType
  <2>3. BackAhead(t)'
    <3>1. /\ SetsDirty(v) \notin {<<>>, GetBack, Loads, DeletesDirty, DeletesDb}
          /\ (\A w \in V : SetsDirty(v) # FillsL1(w))
          /\ \A w : SetsDirty(v) = SetsDirty(w) => v = w
        BY BackDiffer
    <3> QED BY <1>1, <2>2, <3>1 DEF BackAhead
  <2>4. BackFresh'
    <3>1. \E x \in Thread : mutex' = x /\ call'[x].todo = SetsDirty(store'.l1)
        BY <2>2
    <3>2. SetsDirty(store.l1)' = SetsDirty(store'.l1) /\ Thread' = Thread
        BY DEF SetsDirty, Put, Thread
    <3> QED BY <3>1, <3>2 DEF BackFresh
  <2> QED BY <1>16, <2>2, <2>3, <2>4 DEF LetsOthers
<1>17. ASSUME NEW v \in Value, mutex = t, call[t].todo = SetsDirty(v)
       PROVE  BackAhead(t)' /\ LetsOthers(t) /\ BackFresh'
  <2>0. /\ Head(call[t].todo) = Put("dirty", v) /\ Tail(call[t].todo) = <<>>
        /\ "l1" \in tainted \/ store.l1 \in {None, v}
      BY <1>0, <1>17, BackWriteForms DEF BackAhead
  <2>1. store' = [store EXCEPT !.dirty = v] /\ Moves(t, <<>>) /\ tainted' = tainted
      BY <1>0, <2>0, PutStep, PutTaints
  <2>2. /\ mutex' = Nobody /\ \A u \in Thread \ {t} : call'[u] = call[u]
        /\ store'.l1 = store.l1 /\ store'.l2 = store.l2 /\ store'.updating = store.updating
        /\ store'.dirty = v
      BY <1>0, <1>17, <2>1 DEF Moves, GoesOn, StoreType
  <2>3. BackFresh'
      BY <1>0, <2>0, <2>1, <2>2 DEF BackFresh, Settled, Agrees, Current
  <2> QED BY <1>0, <1>2, <1>17, <2>2, <2>3 DEF LetsOthers
<1>18. CASE mutex = t /\ call[t].todo = DeletesCache
  <2>0. Head(call[t].todo) = Put("l1", None) /\ Tail(call[t].todo) = DeletesDirty /\ DeletesDirty # <<>>
      BY <1>18, BackWriteForms
  <2>1. store' = [store EXCEPT !.l1 = None] /\ Moves(t, DeletesDirty)
      BY <1>0, <2>0, PutStep
  <2>2. /\ mutex' = t /\ call'[t].todo = DeletesDirty /\ \A u \in Thread \ {t} : call'[u] = call[u]
        /\ store'.l1 = None /\ store'.l2 = store.l2 /\ store'.updating = store.updating
      BY <1>0, <1>18, <2>0, <2>1 DEF Moves, GoesOn, StoreType
  <2>3. BackAhead(t)'
      BY <1>1, <2>2, BackDiffer DEF BackAhead
  <2>4. BackFresh'
      BY <2>2 DEF BackFresh, Settled
  <2> QED BY <1>18, <2>2, <2>3, <2>4 DEF LetsOthers
<1>19. CASE mutex = t /\ call[t].todo \in {DeletesDirty, DeletesDb}
  <2>0. /\ call[t].todo = DeletesDirty => Head(call[t].todo) = Put("dirty", None) /\ Tail(call[t].todo) = DeletesDb
        /\ call[t].todo = DeletesDb => Head(call[t].todo) = Put("db", None) /\ Tail(call[t].todo) = <<>>
        /\ "l1" \in tainted \/ store.l1 = None
        /\ DeletesDb # <<>>
      BY <1>0, <1>19, BackWriteForms DEF BackAhead
  <2>1. PICK s \in {"dirty", "db"} : store' = [store EXCEPT ![s] = None]
      BY <1>0, <1>19, <2>0, PutStep
  <2>2. Moves(t, Tail(call[t].todo)) /\ tainted' = tainted
      BY <1>0, <1>19, <2>0, PutStep, PutTaints
  <2>3. /\ \A u \in Thread \ {t} : call'[u] = call[u]
        /\ store'.l1 = store.l1 /\ store'.l2 = store.l2 /\ store'.updating = store.updating
        /\ (call[t].todo = DeletesDb => mutex' = Nobody)
        /\ (call[t].todo = DeletesDirty => mutex' = t /\ call'[t].todo = DeletesDb)
      BY <1>0, <1>19, <2>0, <2>1, <2>2 DEF Moves, GoesOn, StoreType
  <2>4. BackAhead(t)'
    <3>1. CASE call[t].todo = DeletesDb
        BY <1>0, <1>2, <2>3, <3>1
    <3>2. CASE call[t].todo = DeletesDirty
        BY <1>1, <2>0, <2>2, <2>3, <3>2, BackDiffer DEF BackAhead
    <3> QED BY <1>19, <3>1, <3>2
  <2>5. BackFresh'
      BY <2>0, <2>2, <2>3 DEF BackFresh, Settled
  <2> QED BY <1>19, <2>3, <2>4, <2>5 DEF LetsOthers
<1> QED BY <1>0, <1>5, <1>6, <1>7, <1>9, <1>10, <1>12, <1>13, <1>14, <1>15, <1>16, <1>17, <1>18, <1>19
    DEF BackOK

LEMMA BackFreshNext ==
    ASSUME TypeInv, service = "back", Common, BackHere, [Next]_vars
    PROVE  Common' /\ BackHere'
<1>0. service' = service /\ Thread' = Thread /\ TwoLevels' = TwoLevels
    BY NextCases DEF Thread, TwoLevels
<1>1. \A u \in Thread : BackOK(u)'
    BY BackNext DEF BackHere
<1>2. ASSUME NEW t \in Thread, Step(t) PROVE Common' /\ BackHere'
  <2>1. BackAhead(t)' /\ LetsOthers(t) /\ BackFresh'
      BY <1>2, BackFreshStep
  <2>2. \A u \in Thread : BackAhead(u)'
      BY <2>1, BackAheadAll DEF BackHere
  <2> QED BY <1>0, <1>1, <2>1, <2>2 DEF BackHere, LetsOthers, Common
<1>3. ASSUME NEW t \in Thread, NEW X, Begins(t, X) PROVE Common' /\ BackHere'
  <2>0. /\ call[t].todo = <<>> /\ \A u \in Thread \ {t} : call'[u] = call[u]
        /\ store' = store /\ mutex' = mutex /\ tainted' = tainted
      BY <1>3 DEF Begins, Same
  <2>1. mutex # t
      BY <2>0 DEF BackHere, BackAhead
  <2>2. BackAhead(t)'
      BY <2>0, <2>1 DEF BackAhead
  <2>3. LetsOthers(t)
      BY <2>0 DEF LetsOthers
  <2>4. \A u \in Thread : BackAhead(u)'
      BY <2>2, <2>3, BackAheadAll DEF BackHere
  <2>5. BackFresh'
      BY <2>0, <2>1, BackKept DEF BackHere, Current
  <2> QED BY <1>0, <1>1, <2>0, <2>4, <2>5 DEF BackHere, Common
<1>4. CASE Same /\ call' = call
  <2>1. Common' = Common /\ BackFresh' = BackFresh /\ \A u \in Thread : BackAhead(u)' = BackAhead(u)
      BY <1>0, <1>4 DEF Same, Common, BackAhead, BackFresh, Settled, Agrees, Current
  <2> QED BY <1>0, <1>1, <2>1 DEF BackHere
<1>5. ~ExpireLogically /\ \A s \in Cache : ~Forget(s)
    BY DEF ExpireLogically, Forget, Expires
<1> QED BY <1>2, <1>3, <1>4, <1>5, NextCases

-----------------------------------------------------------------------------
(***************************************************************************)
(* The mutex cache.                                                        *)
(***************************************************************************)
LEMMA MutexFreshStep ==
    ASSUME TypeInv, service = "mutex", MutexHere, NEW t \in Thread, Step(t)
    PROVE  /\ MutexFills(t)' /\ ("l1" \in tainted' \/ Settled("l1")')
           /\ \A u \in Thread \ {t} : call'[u] = call[u]
           /\ store'.db = store.db /\ store'.l2 = store.l2 /\ store'.updating = store.updating
<1>0. /\ call[t].todo # <<>> /\ store \in StoreType /\ store.dirty = None /\ MutexOK(t)
      /\ MutexFills(t) /\ service # "logical" /\ "l1" \in Cache
    BY StepService DEF TypeInv, MutexHere, Cache
<1>1. V' = V /\ \A v : FillsL1(v)' = FillsL1(v)
    BY DEF V, FillsL1, Put
<1>2. ASSUME store' = store, tainted' = tainted, NEW X, GoesOn(t, X),
             \A v \in V : X = FillsL1(v) => v = store.db
      PROVE  /\ MutexFills(t)' /\ ("l1" \in tainted' \/ Settled("l1")')
             /\ \A u \in Thread \ {t} : call'[u] = call[u]
             /\ store'.db = store.db /\ store'.l2 = store.l2 /\ store'.updating = store.updating
  <2>1. MutexFills(t)'
      BY <1>1, <1>2 DEF MutexFills, GoesOn
  <2>2. "l1" \in tainted' \/ Settled("l1")'
      BY <1>2, SettledKept DEF MutexHere
  <2> QED BY <1>2, <2>1, <2>2 DEF GoesOn
<1>3. /\ \A v : <<>> # FillsL1(v)
      /\ \A v, w : FillsL1(v) = FillsL1(w) => v = w
      /\ \A v : FillsL1(v) \notin {Waits, LooksAgain, Loads}
  <2>1. \A v : FillsL1(v) # <<>> /\ Head(FillsL1(v)) = Put("l1", v)
      BY MutexForms
  <2>2. Head(Waits) = Lock /\ Head(LooksAgain) = Look("l1") /\ Head(Loads) = Look("db")
      BY MutexForms
  <2>3. \A v, w : Put("l1", v) = Put("l1", w) => v = w
      BY HeadsDiffer
  <2>4. \A v : Put("l1", v) \notin {Lock, Look("l1"), Look("db")}
      BY HeadsDiffer
  <2> QED BY <2>1, <2>2, <2>3, <2>4
<1>4. CASE call[t].todo = GetOrSet
  <2>1. store' = store /\ tainted' = tainted /\ (Moves(t, <<>>) \/ Moves(t, Waits))
      BY <1>4, MutexForms, LookStep
  <2> QED BY <1>2, <1>3, <2>1 DEF Moves
<1>5. CASE call[t].todo = Waits
  <2>1. GoesOn(t, LooksAgain) /\ store' = store /\ tainted' = tainted
      BY <1>5, MutexForms, LockStep, KeepsTaints, HeadsDiffer
  <2> QED BY <1>2, <1>3, <2>1
<1>6. CASE call[t].todo = LooksAgain
  <2>1. store' = store /\ tainted' = tainted /\ (Moves(t, <<>>) \/ Moves(t, Loads))
      BY <1>6, MutexForms, LookStep
  <2> QED BY <1>2, <1>3, <2>1 DEF Moves
<1>7. CASE call[t].todo = Loads
  <2>1. store' = store /\ tainted' = tainted /\ (Moves(t, <<>>) \/ Moves(t, FillsL1(store.db)))
      BY <1>7, MutexForms, LookStep
  <2> QED BY <1>2, <1>3, <2>1 DEF Moves
<1>8. ASSUME NEW v \in V, mutex = t, call[t].todo = FillsL1(v)
      PROVE  /\ MutexFills(t)' /\ ("l1" \in tainted' \/ Settled("l1")')
             /\ \A u \in Thread \ {t} : call'[u] = call[u]
             /\ store'.db = store.db /\ store'.l2 = store.l2 /\ store'.updating = store.updating
  <2>0. Head(call[t].todo) = Put("l1", v) /\ Tail(call[t].todo) = <<>> /\ v = store.db
      BY <1>0, <1>8, MutexForms DEF MutexFills
  <2>1. store' = [store EXCEPT !.l1 = v] /\ Moves(t, <<>>)
      BY <1>0, <2>0, PutStep
  <2>2. /\ store'.l1 = v /\ store'.l2 = store.l2 /\ store'.updating = store.updating
        /\ store'.dirty = None /\ store'.db = v
      BY <1>0, <2>0, <2>1 DEF StoreType
  <2>3. Settled("l1")'
      BY <2>2 DEF Settled, Agrees, Current
  <2>4. MutexFills(t)'
      BY <1>1, <1>3, <2>1 DEF MutexFills, Moves, GoesOn
  <2> QED BY <2>0, <2>1, <2>2, <2>3, <2>4 DEF Moves, GoesOn
<1> QED BY <1>0, <1>4, <1>5, <1>6, <1>7, <1>8 DEF MutexOK

LEMMA MutexFillsOthers ==
    ASSUME NEW u, MutexFills(u), call'[u] = call[u], store'.db = store.db
    PROVE  MutexFills(u)'
BY DEF MutexFills, V, FillsL1, Put

LEMMA MutexFreshNext ==
    ASSUME TypeInv, service = "mutex", Common, MutexHere, [Next]_vars
    PROVE  Common' /\ MutexHere'
<1>0. service' = service /\ Thread' = Thread /\ TwoLevels' = TwoLevels
    BY NextCases DEF Thread, TwoLevels
<1>1. \A u \in Thread : MutexOK(u)'
  <2>1. MutexInv
      BY DEF MutexInv, MutexHere
  <2> QED BY <1>0, <2>1, MutexNext DEF MutexInv
<1>2. ASSUME NEW t \in Thread, Step(t) PROVE Common' /\ MutexHere'
  <2>1. /\ MutexFills(t)' /\ ("l1" \in tainted' \/ Settled("l1")')
        /\ \A u \in Thread \ {t} : call'[u] = call[u]
        /\ store'.db = store.db /\ store'.l2 = store.l2 /\ store'.updating = store.updating
      BY <1>2, MutexFreshStep
  <2>2. \A u \in Thread : MutexFills(u)'
      BY <2>1, MutexFillsOthers DEF MutexHere
  <2> QED BY <1>0, <1>1, <2>1, <2>2 DEF MutexHere, Common
<1>3. ASSUME NEW t \in Thread, NEW X, Begins(t, X) PROVE Common' /\ MutexHere'
  <2>0. /\ call'[t].todo = X /\ \A u \in Thread \ {t} : call'[u] = call[u]
        /\ store' = store /\ mutex' = mutex /\ tainted' = tainted
      BY <1>3 DEF Begins, Same
  <2>1. X \in {<<>>, GetOrSet}
      BY <1>3 DEF Begins, Get, Writes
  <2>2. MutexFills(t)'
    <3>1. \A v : X # FillsL1(v)
      <4>1. \A v : FillsL1(v) # <<>> /\ Head(FillsL1(v)) = Put("l1", v)
          BY MutexForms
      <4>2. Head(GetOrSet) = Look("l1")
          BY MutexForms
      <4>3. \A v : Put("l1", v) # Look("l1")
          BY HeadsDiffer
      <4> QED BY <2>1, <4>1, <4>2, <4>3
    <3> QED BY <2>0, <3>1 DEF MutexFills, FillsL1, Put
  <2>3. \A u \in Thread : MutexFills(u)'
      BY <2>0, <2>2, MutexFillsOthers DEF MutexHere
  <2>4. "l1" \in tainted' \/ Settled("l1")'
      BY <2>0, SettledKept DEF MutexHere
  <2> QED BY <1>0, <1>1, <2>0, <2>3, <2>4 DEF MutexHere, Common
<1>4. ASSUME NEW s \in Cache, Forget(s) PROVE Common' /\ MutexHere'
  <2>1. /\ call' = call /\ store \in StoreType
        /\ store' = [store EXCEPT ![s] = None] /\ tainted' = tainted \ {s}
      BY <1>4 DEF Forget, TypeInv
  <2>2. /\ store'.dirty = store.dirty /\ store'.db = store.db /\ store'.updating = store.updating
        /\ store.l2 = None => store'.l2 = None
        /\ s = "l1" => store'.l1 = None
        /\ s # "l1" => store'.l1 = store.l1 /\ ("l1" \in tainted => "l1" \in tainted')
      BY <2>1 DEF StoreType, Cache
  <2>3. "l1" \in tainted' \/ Settled("l1")'
    <3>1. CASE s = "l1"
        BY <2>2, <3>1 DEF Settled
    <3>2. CASE s # "l1"
        BY <2>2, <3>2, SettledKept DEF MutexHere
    <3> QED BY <3>1, <3>2
  <2>4. \A u \in Thread : MutexFills(u)'
      BY <2>1, <2>2, MutexFillsOthers DEF MutexHere
  <2> QED BY <1>0, <1>1, <2>2, <2>3, <2>4 DEF MutexHere, Common
<1>5. CASE Same /\ call' = call
  <2>1. Common' /\ ("l1" \in tainted' \/ Settled("l1")')
      BY <1>0, <1>5, SettledKept DEF Same, Common, MutexHere
  <2>2. \A u \in Thread : MutexFills(u)'
      BY <1>5, MutexFillsOthers DEF MutexHere, Same
  <2> QED BY <1>0, <1>1, <2>1, <2>2 DEF MutexHere
<1>6. ~ExpireLogically
    BY DEF ExpireLogically
<1> QED BY <1>2, <1>3, <1>4, <1>5, <1>6, NextCases

-----------------------------------------------------------------------------
(***************************************************************************)
(* The cache of logical expiry.                                            *)
(***************************************************************************)
LEMMA LogicalForms ==
    /\ Asks # <<>> /\ Head(Asks).do = "get logical" /\ Tail(Asks) = <<>>
    /\ asyncUpdate # <<>> /\ Head(asyncUpdate).do = "is updating" /\ Tail(asyncUpdate) = MarksIt
    /\ MarksIt # <<>> /\ Head(MarksIt).do = "set updating" /\ Head(MarksIt).val = TRUE
    /\ Tail(MarksIt) = Refreshes
    /\ Refreshes # <<>> /\ Head(Refreshes) = Look("db") /\ Tail(Refreshes) = Unmarks
    /\ Unmarks # <<>> /\ Head(Unmarks).do = "set updating" /\ Head(Unmarks).val = FALSE
    /\ Tail(Unmarks) = <<>>
    /\ \A v : Renews(v) # <<>> /\ Head(Renews(v)) = Put("l1", v) /\ Tail(Renews(v)) = Unmarks
<1>1. PICK i : i = IsUpdating
    OBVIOUS
<1>2. PICK x : x = SetUpdating(TRUE)
    OBVIOUS
<1>3. PICK y : y = SetUpdating(FALSE)
    OBVIOUS
<1>4. PICK l : l = Look("db")
    OBVIOUS
<1>5. PICK g : g = GetLogical
    OBVIOUS
<1>6. asyncUpdate = <<i, x, l, y>> /\ MarksIt = <<x, l, y>> /\ Refreshes = <<l, y>>
    BY <1>1, <1>2, <1>3, <1>4, Zenon DEF asyncUpdate, MarksIt, Refreshes
<1>7. Unmarks = <<y>> /\ Asks = <<g>> /\ \A v : Renews(v) = <<Put("l1", v), y>>
    BY <1>3, <1>5, Zenon DEF Unmarks, Asks, Renews
<1>8. i.do = "is updating" /\ g.do = "get logical"
    BY <1>1, <1>5 DEF IsUpdating, GetLogical
<1>9. x.do = "set updating" /\ x.val = TRUE
    BY <1>2 DEF SetUpdating
<1>10. y.do = "set updating" /\ y.val = FALSE
    BY <1>3 DEF SetUpdating
<1>11. /\ asyncUpdate # <<>> /\ Head(asyncUpdate) = i /\ Tail(asyncUpdate) = MarksIt
       /\ MarksIt # <<>> /\ Head(MarksIt) = x /\ Tail(MarksIt) = Refreshes
       /\ Refreshes # <<>> /\ Head(Refreshes) = l /\ Tail(Refreshes) = Unmarks
    BY <1>6, <1>7
<1>12. /\ Unmarks # <<>> /\ Head(Unmarks) = y /\ Tail(Unmarks) = <<>>
       /\ Asks # <<>> /\ Head(Asks) = g /\ Tail(Asks) = <<>>
       /\ \A v : Renews(v) # <<>> /\ Head(Renews(v)) = Put("l1", v) /\ Tail(Renews(v)) = Unmarks
  <2>1. \A c : <<c>> # <<>> /\ Head(<<c>>) = c /\ Tail(<<c>>) = <<>>
      OBVIOUS
  <2>2. \A c, d : <<c, d>> # <<>> /\ Head(<<c, d>>) = c /\ Tail(<<c, d>>) = <<d>>
      OBVIOUS
  <2> QED BY <1>7, <2>1, <2>2, Zenon
<1> QED BY <1>4, <1>8, <1>9, <1>10, <1>11, <1>12

(* What each step of a call does, and how the call goes on *)
LEMMA LogicalRest ==
    ASSUME TypeInv, NEW t \in Thread, Step(t)
    PROVE  /\ <<>> \in Seq(Item) /\ Rest(t) \in Seq(Item) /\ Rest(t) = Tail(call[t].todo)
           /\ Next1(t) = Head(call[t].todo) /\ call[t].todo # <<>>
BY StepService, NextLemma DEF Rest, Next1

LEMMA AskStep ==
    ASSUME TypeInv, NEW t \in Thread, Step(t), call[t].todo = Asks
    PROVE  store' = store /\ tainted' = tainted /\ (Moves(t, <<>>) \/ Moves(t, asyncUpdate))
<1>1. DoGetLogical(t)
    BY LogicalForms
       DEF Step, DoLook, DoPut, DoLock, DoUnlock, DoCopy, DoSave, DoRestore, DoClose,
           DoGetLogical, DoIsUpdating, DoSetUpdating, Doing, Next1
<1>2. asyncUpdate \in Seq(Item)
  <2>1. /\ IsUpdating \in Item /\ Look("db") \in Item
        /\ SetUpdating(TRUE) \in Item /\ SetUpdating(FALSE) \in Item
      BY ItemLemma
  <2>2. \A a, b, c, d \in Item : <<a, b, c, d>> \in Seq(Item)
      OBVIOUS
  <2> QED BY <2>1, <2>2, Zenon DEF asyncUpdate
<1>3. Moves(t, <<>>) \/ Moves(t, asyncUpdate)
    BY <1>1, <1>2, LogicalRest, MovesLemma DEF DoGetLogical
<1> QED BY <1>1, <1>3 DEF DoGetLogical

LEMMA CheckStep ==
    ASSUME TypeInv, NEW t \in Thread, Step(t), call[t].todo = asyncUpdate
    PROVE  store' = store /\ tainted' = tainted /\ (Moves(t, <<>>) \/ Moves(t, MarksIt))
<1>1. DoIsUpdating(t)
    BY LogicalForms
       DEF Step, DoLook, DoPut, DoLock, DoUnlock, DoCopy, DoSave, DoRestore, DoClose,
           DoGetLogical, DoIsUpdating, DoSetUpdating, Doing, Next1
<1>2. Rest(t) = MarksIt
    BY LogicalRest, LogicalForms
<1>3. Moves(t, <<>>) \/ Moves(t, MarksIt)
    BY <1>1, <1>2, LogicalRest, MovesLemma DEF DoIsUpdating
<1> QED BY <1>1, <1>3 DEF DoIsUpdating

LEMMA MarkStep ==
    ASSUME TypeInv, NEW t \in Thread, Step(t), call[t].todo \in {MarksIt, Unmarks}
    PROVE  /\ Moves(t, Tail(call[t].todo)) /\ tainted' = tainted
           /\ \/ store.l1 # None /\ store' = [store EXCEPT !.updating = Head(call[t].todo).val]
              \/ store.l1 = None /\ store' = store
<1>1. DoSetUpdating(t)
    BY LogicalForms
       DEF Step, DoLook, DoPut, DoLock, DoUnlock, DoCopy, DoSave, DoRestore, DoClose,
           DoGetLogical, DoIsUpdating, DoSetUpdating, Doing, Next1
<1>2. Moves(t, Tail(call[t].todo))
    BY <1>1, LogicalRest, MovesLemma DEF DoSetUpdating
<1> QED BY <1>1, <1>2 DEF DoSetUpdating, Next1

LEMMA RefreshStep ==
    ASSUME TypeInv, service = "logical", NEW t \in Thread, Step(t), call[t].todo = Refreshes
    PROVE  store' = store /\ tainted' = tainted
           /\ (Moves(t, Unmarks) \/ \E v \in V : Moves(t, Renews(v)))
<1>0. Next1(t) = Look("db") /\ Rest(t) = Unmarks /\ Rest(t) \in Seq(Item)
    BY LogicalRest, LogicalForms
<1>1. DoLook(t)
    BY <1>0, HeadsDiffer
       DEF Step, DoLook, DoPut, DoLock, DoUnlock, DoCopy, DoSave, DoRestore, DoClose,
           DoGetLogical, DoIsUpdating, DoSetUpdating, Doing
<1>2. Next1(t).at = "db"
    BY <1>0, HeadsDiffer
<1>3. PutAll(Fills("db"), store.db) = <<Put("l1", store.db)>>
  <2>1. Fills("db") = <<"l1">>
      BY DEF Fills
  <2>2. \A v : PutAll(<<"l1">>, v) = <<Put("l1", v)>>
      BY DEF PutAll
  <2> QED BY <2>1, <2>2
<1>4. /\ <<Put("l1", store.db)>> \o Unmarks = Renews(store.db)
      /\ Renews(store.db) \in Seq(Item) /\ store.db \in V
  <2>1. store.db \in V
      BY DEF TypeInv, StoreType
  <2>2. Put("l1", store.db) \in Item /\ SetUpdating(FALSE) \in Item
      BY <2>1, ItemLemma
  <2>3. ASSUME NEW a \in Item, NEW b \in Item
        PROVE  <<a>> \o <<b>> = <<a, b>> /\ <<a, b>> \in Seq(Item)
    <3> DEFINE X == <<a>> \o <<b>>
               Y == <<a, b>>
    <3>1. <<a>> \in Seq(Item) /\ <<b>> \in Seq(Item) /\ Y \in Seq(Item)
        OBVIOUS
    <3>2. X \in Seq(Item) /\ Len(X) = 2 /\ Len(Y) = 2
        BY <3>1
    <3>3. \A j \in 1 .. 2 : X[j] = Y[j]
        BY <3>1
    <3> QED BY <3>1, <3>2, <3>3, SeqEqual
  <2> QED BY <2>1, <2>2, <2>3, Zenon DEF Unmarks, Renews
<1>5. Continue(t, Unmarks) \/ Continue(t, Renews(store.db))
  <2>1. CASE store.db = None
      BY <1>0, <1>1, <1>2, <2>1 DEF DoLook
  <2>2. CASE store.db # None
      BY <1>0, <1>1, <1>2, <1>3, <1>4, <2>2 DEF DoLook
  <2> QED BY <2>1, <2>2
<1>6. Moves(t, Unmarks) \/ \E v \in V : Moves(t, Renews(v))
    BY <1>0, <1>4, <1>5, MovesLemma
<1> QED BY <1>1, <1>6 DEF DoLook

LEMMA RenewStep ==
    ASSUME TypeInv, service = "logical", NEW t \in Thread, Step(t), NEW v, call[t].todo = Renews(v)
    PROVE  Moves(t, Unmarks) /\ store' = SetLogical(v)
<1>0. Next1(t) = Put("l1", v) /\ Rest(t) = Unmarks /\ Rest(t) \in Seq(Item)
    BY LogicalRest, LogicalForms
<1>1. Next1(t).do = "put" /\ Next1(t).val = v
    BY <1>0, HeadsDiffer
<1>2. DoPut(t)
    BY <1>1
       DEF Step, DoLook, DoPut, DoLock, DoUnlock, DoCopy, DoSave, DoRestore, DoClose,
           DoGetLogical, DoIsUpdating, DoSetUpdating, Doing
<1> QED BY <1>0, <1>1, <1>2, MovesLemma DEF DoPut

(***************************************************************************)
(* A step keeps the mark's promise: who takes it away is still there, or   *)
(* it is gone.                                                             *)
(***************************************************************************)
LEMMA LogicalStep ==
    ASSUME TypeInv, service = "logical", LogicalHere, NEW t \in Thread, Step(t)
    PROVE  /\ \A u \in Thread \ {t} : call'[u] = call[u]
           /\ LogicalOK(t)' /\ mutex' = Nobody /\ store'.l2 = store.l2
           /\ "l1" \in tainted' \/ Settled("l1")'
           /\ \/ ~store'.updating
              \/ store'.l1 # None /\ Unmarking(t)'
              \/ store.updating /\ store'.l1 = store.l1 /\ ~Unmarking(t)
<1>0. /\ t # Nobody /\ mutex = Nobody /\ LogicalOK(t) /\ store \in StoreType /\ call[t].todo # <<>>
      /\ "l1" \in tainted \/ Settled("l1")
      /\ V' = V /\ \A v : Renews(v)' = Renews(v)
    BY StepService, NamesAssumption DEF LogicalHere, TypeInv, Thread, V, Renews, Put
<1>1. ASSUME NEW X, Moves(t, X)
      PROVE  /\ \A u \in Thread \ {t} : call'[u] = call[u]
             /\ mutex' = Nobody /\ call'[t].todo = X
    BY <1>0, <1>1 DEF Moves, GoesOn
<1>2. ASSUME store'.l1 = store.l1, store'.dirty = store.dirty, store'.db = store.db, tainted' = tainted
      PROVE  "l1" \in tainted' \/ Settled("l1")'
    BY <1>0, <1>2, SettledKept
<1>3. CASE call[t].todo \in {Asks, asyncUpdate}
  <2>1. store' = store /\ tainted' = tainted
      BY <1>3, AskStep, CheckStep
  <2>2. PICK X \in {<<>>, asyncUpdate, MarksIt} : Moves(t, X)
      BY <1>3, AskStep, CheckStep
  <2>3. LogicalOK(t)'
      BY <1>1, <2>2 DEF LogicalOK
  <2>4. ~Unmarking(t)
    <3>1. Head(call[t].todo).do \in {"get logical", "is updating"}
        BY <1>3, LogicalForms
    <3>2. \A v : Head(Renews(v)) = Put("l1", v)
        BY LogicalForms
    <3>3. Head(Refreshes) = Look("db")
        BY LogicalForms
    <3>4. Head(Unmarks).do = "set updating"
        BY LogicalForms
    <3>5. \A v : Put("l1", v).do = "put"
        BY HeadsDiffer
    <3>6. Look("db").do = "look"
        BY HeadsDiffer
    <3>7. \A v : call[t].todo # Renews(v)
        BY <3>1, <3>2, <3>5
    <3>8. call[t].todo # Refreshes
        BY <3>1, <3>3, <3>6
    <3> QED BY <3>1, <3>4, <3>7, <3>8 DEF Unmarking
  <2> QED BY <1>1, <1>2, <2>1, <2>2, <2>3, <2>4
<1>4. CASE call[t].todo = MarksIt
  <2>1. /\ Moves(t, Refreshes) /\ tainted' = tainted
        /\ \/ store.l1 # None /\ store' = [store EXCEPT !.updating = Head(call[t].todo).val]
           \/ store.l1 = None /\ store' = store
      BY <1>4, MarkStep, LogicalForms
  <2>2. /\ store'.l1 = store.l1 /\ store'.l2 = store.l2 /\ store'.dirty = store.dirty
        /\ store'.db = store.db
        /\ store.l1 = None => store'.updating = store.updating
      BY <1>0, <2>1 DEF StoreType
  <2>3. LogicalOK(t)' /\ Unmarking(t)'
      BY <1>1, <2>1 DEF LogicalOK, Unmarking
  <2>4. store.l1 = None => ~store'.updating
      BY <2>2 DEF LogicalHere
  <2> QED BY <1>1, <1>2, <2>1, <2>2, <2>3, <2>4
<1>5. CASE call[t].todo = Refreshes
  <2>1. store' = store /\ tainted' = tainted
      BY <1>5, RefreshStep
  <2>2. Moves(t, Unmarks) \/ \E v \in V : Moves(t, Renews(v))
      BY <1>5, RefreshStep
  <2>3. call'[t].todo = Unmarks \/ \E v \in V : call'[t].todo = Renews(v)
      BY <1>1, <2>2
  <2>4. LogicalOK(t)' /\ Unmarking(t)'
      BY <1>0, <2>3 DEF LogicalOK, Unmarking
  <2>5. store.updating => store.l1 # None
      BY DEF LogicalHere
  <2>6. (\A u \in Thread \ {t} : call'[u] = call[u]) /\ mutex' = Nobody
      BY <1>1, <2>2
  <2> QED BY <1>2, <2>1, <2>4, <2>5, <2>6
<1>6. ASSUME NEW v \in V, call[t].todo = Renews(v)
      PROVE  /\ \A u \in Thread \ {t} : call'[u] = call[u]
             /\ LogicalOK(t)' /\ mutex' = Nobody /\ store'.l2 = store.l2
             /\ "l1" \in tainted' \/ Settled("l1")'
             /\ ~store'.updating
  <2>1. Moves(t, Unmarks) /\ store' = SetLogical(v)
      BY <1>6, RenewStep
  <2>2. /\ store'.l1 = v /\ store'.l2 = store.l2 /\ store'.dirty = store.dirty
        /\ store'.db = store.db /\ ~store'.updating
      BY <1>0, <2>1 DEF StoreType, SetLogical
  <2>3. LogicalOK(t)'
      BY <1>1, <2>1 DEF LogicalOK, Unmarking
  <2>4. Head(call[t].todo) = Put("l1", v) /\ "l1" \in Cache
      BY <1>6, LogicalForms DEF Cache
  <2>5. "l1" \notin tainted' => v = None \/ Agrees(v)
      BY <1>0, <2>4, PutTaints
  <2>6. "l1" \in tainted' \/ Settled("l1")'
      BY <2>2, <2>5, SettledPut
  <2> QED BY <1>1, <2>1, <2>2, <2>3, <2>6
<1>7. CASE call[t].todo = Unmarks
  <2>1. /\ Moves(t, <<>>) /\ tainted' = tainted
        /\ \/ store.l1 # None /\ store' = [store EXCEPT !.updating = Head(call[t].todo).val]
           \/ store.l1 = None /\ store' = store
      BY <1>7, MarkStep, LogicalForms
  <2>2. Head(call[t].todo).val = FALSE
      BY <1>7, LogicalForms
  <2>3. /\ store'.l1 = store.l1 /\ store'.l2 = store.l2 /\ store'.dirty = store.dirty
        /\ store'.db = store.db
        /\ store.l1 = None => store'.updating = store.updating
        /\ store.l1 # None => ~store'.updating
      BY <1>0, <2>1, <2>2 DEF StoreType
  <2>4. ~store'.updating
      BY <2>3 DEF LogicalHere
  <2>5. LogicalOK(t)'
      BY <1>1, <2>1 DEF LogicalOK
  <2> QED BY <1>1, <1>2, <2>1, <2>3, <2>4, <2>5
<1> QED BY <1>0, <1>3, <1>4, <1>5, <1>6, <1>7 DEF LogicalOK, Unmarking

LEMMA LogicalOthers ==
    ASSUME NEW u, call'[u] = call[u]
    PROVE  (LogicalOK(u) => LogicalOK(u)') /\ (Unmarking(u) => Unmarking(u)')
BY DEF LogicalOK, Unmarking, V, Renews, Put

LEMMA LogicalNext ==
    ASSUME TypeInv, service = "logical", Common, LogicalHere, [Next]_vars
    PROVE  Common' /\ LogicalHere'
<1>0. service' = service /\ Thread' = Thread /\ TwoLevels' = TwoLevels
    BY NextCases DEF Thread, TwoLevels
<1>1. ASSUME NEW t \in Thread, Step(t) PROVE Common' /\ LogicalHere'
  <2>1. /\ \A u \in Thread \ {t} : call'[u] = call[u]
        /\ LogicalOK(t)' /\ mutex' = Nobody /\ store'.l2 = store.l2
        /\ "l1" \in tainted' \/ Settled("l1")'
        /\ \/ ~store'.updating
           \/ store'.l1 # None /\ Unmarking(t)'
           \/ store.updating /\ store'.l1 = store.l1 /\ ~Unmarking(t)
      BY <1>1, LogicalStep
  <2>2. \A u \in Thread : LogicalOK(u)'
      BY <2>1, LogicalOthers DEF LogicalHere
  <2>3. store'.updating => store'.l1 # None /\ \E u \in Thread : Unmarking(u)'
    <3>1. CASE store'.l1 # None /\ Unmarking(t)'
        BY <3>1
    <3>2. CASE store.updating /\ store'.l1 = store.l1 /\ ~Unmarking(t)
      <4>1. store.l1 # None
          BY <3>2 DEF LogicalHere
      <4>2. PICK u \in Thread : Unmarking(u)
          BY <3>2 DEF LogicalHere
      <4>3. u # t
          BY <3>2, <4>2
      <4>4. Unmarking(u)'
          BY <2>1, <4>2, <4>3, LogicalOthers
      <4> QED BY <3>2, <4>1, <4>4
    <3> QED BY <2>1, <3>1, <3>2
  <2> QED BY <1>0, <2>1, <2>2, <2>3 DEF LogicalHere, Common
<1>2. ASSUME NEW t \in Thread, NEW X, Begins(t, X) PROVE Common' /\ LogicalHere'
  <2>0. /\ call[t].todo = <<>> /\ call'[t].todo = X /\ \A u \in Thread \ {t} : call'[u] = call[u]
        /\ store' = store /\ mutex' = mutex /\ tainted' = tainted
      BY <1>2 DEF Begins, Same
  <2>1. X \in {<<>>, Asks}
      BY <1>2 DEF Begins, Get, Writes, Asks
  <2>2. LogicalOK(t)' /\ ~Unmarking(t)
      BY <2>0, <2>1, LogicalForms DEF LogicalOK, Unmarking
  <2>3. \A u \in Thread : LogicalOK(u)' /\ (Unmarking(u) => Unmarking(u)')
      BY <2>0, <2>2, LogicalOthers DEF LogicalHere
  <2>4. "l1" \in tainted' \/ Settled("l1")'
      BY <2>0, SettledKept DEF LogicalHere
  <2> QED BY <1>0, <2>0, <2>3, <2>4 DEF LogicalHere, Common
<1>3. ASSUME call' = call, mutex' = mutex, tainted' = tainted, store'.l1 = store.l1,
             store'.l2 = store.l2, store'.dirty = store.dirty, store'.db = store.db,
             store'.updating = store.updating
      PROVE  Common' /\ LogicalHere'
  <2>1. \A u \in Thread : LogicalOK(u)' /\ (Unmarking(u) => Unmarking(u)')
      BY <1>3, LogicalOthers DEF LogicalHere
  <2>2. "l1" \in tainted' \/ Settled("l1")'
      BY <1>3, SettledKept DEF LogicalHere
  <2> QED BY <1>0, <1>3, <2>1, <2>2 DEF LogicalHere, Common
<1>4. CASE ExpireLogically
  <2>1. /\ call' = call /\ mutex' = mutex /\ tainted' = tainted /\ store \in StoreType
        /\ store' = [store EXCEPT !.expired = TRUE]
      BY <1>4 DEF ExpireLogically, TypeInv
  <2>2. /\ store'.l1 = store.l1 /\ store'.l2 = store.l2 /\ store'.dirty = store.dirty
        /\ store'.db = store.db /\ store'.updating = store.updating
      BY <2>1 DEF StoreType
  <2> QED BY <1>3, <2>1, <2>2
<1>5. CASE Same /\ call' = call
    BY <1>3, <1>5 DEF Same
<1>6. \A s \in Cache : ~Forget(s)
    BY DEF Forget, Expires
<1> QED BY <1>1, <1>2, <1>4, <1>5, <1>6, NextCases

-----------------------------------------------------------------------------
(***************************************************************************)
(* When no call is running, no cache of any service holds a value that has *)
(* been replaced, unless it came late: a value put there by a call that    *)
(* had read or written it before another one replaced it, or in the middle *)
(* of a locked write.  Nor is an item left marked as being updated         *)
(* (Get, Set, Delete and their variants of all the services).              *)
(***************************************************************************)
THEOREM StaleSafe == Spec => []StaleOnlyIfLate
<1>1. Init => TypeInv /\ StaleInv
  <2> SUFFICES ASSUME Init PROVE TypeInv /\ StaleInv
      OBVIOUS
  <2>1. PICK v \in Value \cup {None} :
            store = [l1 |-> Preloaded(v), l2 |-> None, dirty |-> None, db |-> v,
                     expired |-> FALSE, updating |-> FALSE]
      BY DEF Init
  <2>2. Preloaded(v) \in {v, None}
      BY DEF Preloaded
  <2>3. /\ store \in StoreType /\ store.dirty = None /\ store.l1 \in {None, v} /\ store.l2 = None
        /\ store.db = v /\ ~store.updating
      BY <2>1, <2>2 DEF StoreType, V
  <2>4. call \in [Thread -> CallType] /\ \A t \in Thread : call[t].todo = <<>>
      BY IdleLemma DEF Init
  <2>5. mutex = Nobody /\ tainted = {} /\ service \in Services /\ \A t \in Thread : t # Nobody
      BY NamesAssumption DEF Init, Thread
  <2>6. Settled("l1") /\ Settled("l2")
      BY <2>3 DEF Settled, Agrees, Current
  <2>7. PlainHere
    <3>1. <<>> \in Seq(CachePuts)
        OBVIOUS
    <3> QED BY <2>4, <2>5, <2>6, <3>1 DEF PlainHere, PlainOK, PlainList, PlainFresh, Cache
  <2>8. ThroughHere
      BY <2>4, <2>5, <2>6 DEF ThroughHere, ThroughOK, ThroughFresh
  <2>9. BackHere
      BY <2>4, <2>5, <2>6 DEF BackHere, BackOK, BackAhead, BackFresh
  <2>10. MutexHere
    <3>1. \A v_1 : FillsL1(v_1) # <<>>
        BY MutexForms
    <3> QED BY <2>4, <2>6, <3>1 DEF MutexHere, MutexOK, MutexFills
  <2>11. LogicalHere
      BY <2>3, <2>4, <2>5, <2>6 DEF LogicalHere, LogicalOK
  <2> QED BY <2>3, <2>4, <2>5, <2>7, <2>8, <2>9, <2>10, <2>11 DEF TypeInv, StaleInv, Common
<1>2. TypeInv /\ StaleInv /\ [Next]_vars => StaleInv'
  <2> SUFFICES ASSUME TypeInv, StaleInv, [Next]_vars PROVE StaleInv'
      OBVIOUS
  <2>1. service' = service /\ service \in Services /\ Common /\ Plain' = Plain
      BY NextCases DEF TypeInv, StaleInv, Plain
  <2>2. CASE service \in Plain
    <3>1. Common' /\ PlainHere'
        BY <2>1, <2>2, PlainNext DEF StaleInv
    <3> QED BY <2>1, <2>2, <3>1 DEF StaleInv, Plain
  <2>3. CASE service = "through"
      BY <2>1, <2>3, ThroughNext DEF StaleInv, Plain
  <2>4. CASE service = "back"
      BY <2>1, <2>4, BackFreshNext DEF StaleInv, Plain
  <2>5. CASE service = "mutex"
      BY <2>1, <2>5, MutexFreshNext DEF StaleInv, Plain
  <2>6. CASE service = "logical"
      BY <2>1, <2>6, LogicalNext DEF StaleInv, Plain
  <2> QED BY <2>1, <2>2, <2>3, <2>4, <2>5, <2>6, ServicesAssumption DEF Plain
<1>3. TypeInv /\ StaleInv => StaleOnlyIfLate
  <2> SUFFICES ASSUME TypeInv, StaleInv, Quiet
               PROVE  (\A s \in Cache \ tainted : Settled(s)) /\ ~store.updating
      BY DEF StaleOnlyIfLate, Settled
  <2>1. Common /\ service \in Services /\ \A t \in Thread : call[t].todo = <<>>
      BY DEF TypeInv, StaleInv, Quiet
  <2>2. service \notin TwoLevels => Settled("l2")
      BY <2>1 DEF Common, Settled
  <2>3. CASE service \in Plain
    <3>1. \A s \in Cache : s \in tainted \/ Settled(s)
        BY <2>1, <2>3, HasNoPut DEF StaleInv, PlainHere, PlainFresh
    <3> QED BY <2>1, <2>3, <3>1 DEF Common, Plain
  <2>4. ASSUME "l1" \in tainted \/ Settled("l1"), service \notin TwoLevels
        PROVE  \A s \in Cache \ tainted : Settled(s)
      BY <2>2, <2>4 DEF Cache
  <2>5. CASE service = "through"
    <3>1. "l1" \in tainted \/ Settled("l1")
        BY <2>1, <2>5, ThroughForms DEF StaleInv, ThroughHere, ThroughFresh
    <3> QED BY <2>1, <2>4, <2>5, <3>1 DEF Common, TwoLevels
  <2>6. CASE service = "back"
    <3>1. "l1" \in tainted \/ Settled("l1")
        BY <2>1, <2>6, BackWriteForms DEF StaleInv, BackHere, BackFresh
    <3> QED BY <2>1, <2>4, <2>6, <3>1 DEF Common, TwoLevels
  <2>7. CASE service = "mutex"
    <3>1. "l1" \in tainted \/ Settled("l1")
        BY <2>7 DEF StaleInv, MutexHere
    <3> QED BY <2>1, <2>4, <2>7, <3>1 DEF Common, TwoLevels
  <2>8. CASE service = "logical"
    <3>1. "l1" \in tainted \/ Settled("l1")
        BY <2>8 DEF StaleInv, LogicalHere
    <3>2. ~store.updating
        BY <2>1, <2>8, LogicalForms DEF StaleInv, LogicalHere, Unmarking
    <3> QED BY <2>4, <2>8, <3>1, <3>2 DEF TwoLevels
  <2> QED BY <2>1, <2>3, <2>5, <2>6, <2>7, <2>8, ServicesAssumption DEF Plain
<1> QED BY <1>1, <1>2, <1>3, TypeStep, PTL DEF Spec
=============================================================================
