--------------------------- MODULE Cluster_proofs ---------------------------
(***************************************************************************)
(* Theorems about the nodes of distributed/, for every set of nodes and    *)
(* every order of the ring: with any number of joins, leaves, crashes,     *)
(* lost requests and timeouts at once, what is never lost and that nobody  *)
(* waits for ever; and with one node that comes and goes, where the nodes  *)
(* and their keys end up.                                                  *)
(***************************************************************************)
EXTENDS Cluster, WellFoundedInduction, NaturalsInduction, TLAPS

Map == UNION {[S -> Value] : S \in SUBSET Key}

TaskType ==
    [kind : {"join", "leave", "sync-add", "sync-remove"}, at : Node, node : Node, from : Node,
     pc : {"wait", "move", "broadcast"}, data : Map, moved : SUBSET Key, targets : SUBSET Node,
     heard : BOOLEAN]

TypeInv ==
    /\ order \in [Key -> Orders]
    /\ phase \in [Node -> {"down", "crashed", "running", "leaving"}]
    /\ ring \in [Node -> SUBSET Node] /\ members \in [Node -> SUBSET Node]
    /\ store \in [Node -> Map] /\ acked \in Map /\ spoiled \in SUBSET Key
    /\ notify \in [Node -> SUBSET ({"join", "leave"} \X Node)]
    /\ call # NoCall => call.req \in Requests /\ call.target \in Node

(***************************************************************************)
(* A node is always on its own ring, and never asked to remove itself.     *)
(***************************************************************************)
SelfInv ==
    /\ \A n \in Node : n \in ring[n] /\ n \notin members[n]
    /\ \A n \in Node : \A x \in notify[n] : x[2] # n

TaskShape(t) ==
    /\ t \in TaskType
    /\ t.kind # "join" => t.node \notin t.targets
    /\ t.kind \in {"leave", "sync-remove"} => t.at # t.node
    /\ t.pc # "move" => DOMAIN t.data = {} /\ t.moved = {}

(***************************************************************************)
(* All copies of a key that is followed have the value last written, those *)
(* that a migration carries too: a write that races a migration spoils its *)
(* key.                                                                    *)
(***************************************************************************)
AgreeInv ==
    \A n \in Node : \A k \in DOMAIN store[n] \ spoiled :
        k \in DOMAIN acked /\ store[n][k] = acked[k]

TaskAgrees(t) ==
    /\ \A k \in DOMAIN t.data \ spoiled : k \in DOMAIN acked /\ t.data[k] = acked[k]
    /\ t.pc = "move" /\ call # NoCall => call.req.key \in spoiled

(* Where the ring of key k meets node n *)
Pos(k, n) == Min({i \in 1 .. Len(order[k]) : order[k][i] = n})

(***************************************************************************)
(* Every key that is followed has a copy, and what a migration is about to *)
(* delete has one at a node that the ring of the key meets earlier:        *)
(* migrations that pass a key on to one another cannot go round in a       *)
(* circle and each delete what the next relies on.                         *)
(***************************************************************************)
HeldInv == \A k \in DOMAIN acked \ spoiled : \E n \in Up : k \in DOMAIN store[n]

TaskHeld(t) ==
    \A k \in t.moved \ spoiled :
        t.at # t.node => \E m \in Up : k \in DOMAIN store[m] /\ Pos(k, m) < Pos(k, t.at)

TaskOK(t) == TaskShape(t) /\ TaskAgrees(t) /\ TaskHeld(t)

Inv == TypeInv /\ SelfInv /\ AgreeInv /\ HeldInv /\ \A t \in tasks : TaskOK(t)

-----------------------------------------------------------------------------
(***************************************************************************)
(* Go maps: m[k] = v and delete(m, k) touch k alone.                       *)
(***************************************************************************)
LEMMA MapLemma ==
    ASSUME NEW m \in Map
    PROVE  DOMAIN m \subseteq Key /\ \A x \in DOMAIN m : m[x] \in Value
BY DEF Map

LEMMA WithLemma ==
    ASSUME NEW m \in Map, NEW k \in Key, NEW v \in Value
    PROVE  /\ With(m, k, v) \in Map
           /\ DOMAIN With(m, k, v) = DOMAIN m \cup {k}
           /\ With(m, k, v)[k] = v
           /\ \A x \in DOMAIN m \ {k} : With(m, k, v)[x] = m[x]
<1>1. With(m, k, v) \in [DOMAIN m \cup {k} -> Value] /\ DOMAIN m \cup {k} \in SUBSET Key
    BY MapLemma DEF With
<1> QED BY <1>1 DEF Map, With

LEMMA WithoutLemma ==
    ASSUME NEW m \in Map, NEW k
    PROVE  /\ Without(m, k) \in Map
           /\ DOMAIN Without(m, k) = DOMAIN m \ {k}
           /\ \A x \in DOMAIN m \ {k} : Without(m, k)[x] = m[x]
<1>1. Without(m, k) \in [DOMAIN m \ {k} -> Value] /\ DOMAIN m \ {k} \in SUBSET Key
    BY MapLemma DEF Without
<1> QED BY <1>1 DEF Map, Without

LEMMA EmptyMapLemma == EmptyMap \in Map /\ DOMAIN EmptyMap = {}
<1>1. EmptyMap \in [{} -> Value] /\ {} \in SUBSET Key
    BY DEF EmptyMap
<1> QED BY <1>1 DEF Map, EmptyMap

(***************************************************************************)
(* A non-empty set of positions has a first one.                           *)
(***************************************************************************)
LEMMA FirstLemma ==
    ASSUME NEW S \in SUBSET Nat, S # {}
    PROVE  Min(S) \in S /\ \A y \in S : Min(S) =< y
<1>1. PICK x \in S : \A y \in S : ~(<<y, x>> \in OpToRel(<, Nat))
    BY WFMin, NatLessThanWellFounded
<1>2. \A y \in S : ~(y < x)
    BY <1>1 DEF OpToRel
<1>3. \A y \in S : x =< y
    BY <1>2
<1> QED BY <1>3 DEF Min

(***************************************************************************)
(* The owner of a key is a member of the ring, and no member is met before *)
(* it.                                                                     *)
(***************************************************************************)
LEMMA OwnerLemma ==
    ASSUME order \in [Key -> Orders], NEW k \in Key, NEW S \in SUBSET Node, S # {}
    PROVE  /\ Owner(k, S) \in S
           /\ \A n \in S : n # Owner(k, S) => Pos(k, Owner(k, S)) < Pos(k, n)
           /\ \A n \in Node : Pos(k, n) \in Nat
<1> DEFINE o == order[k]
           I == {i \in 1 .. Len(o) : o[i] \in S}
           At(n) == {i \in 1 .. Len(o) : o[i] = n}
<1>1. o \in Seq(Node) /\ Range(o) = Node
    BY OrdersAssumption
<1>2. Len(o) \in Nat /\ \A n \in Node : \E i \in 1 .. Len(o) : o[i] = n
    BY <1>1 DEF Range
<1>3. ASSUME NEW n \in Node PROVE Pos(k, n) \in At(n) /\ \A i \in At(n) : Pos(k, n) =< i
  <2>1. At(n) \in SUBSET Nat /\ At(n) # {}
      BY <1>2
  <2>2. Pos(k, n) = Min(At(n))
      BY DEF Pos
  <2> HIDE DEF At
  <2> QED BY <2>1, <2>2, FirstLemma
<1>4. Min(I) \in I /\ \A i \in I : Min(I) =< i
  <2>1. I \in SUBSET Nat /\ I # {}
      BY <1>2
  <2> HIDE DEF I
  <2> QED BY <2>1, FirstLemma
<1>5. Owner(k, S) = o[Min(I)]
    BY DEF Owner
<1>6. Owner(k, S) \in S /\ Owner(k, S) \in Node /\ Min(I) \in At(Owner(k, S))
    BY <1>4, <1>5
<1>7. ASSUME NEW n \in S, n # Owner(k, S) PROVE Pos(k, Owner(k, S)) < Pos(k, n)
  <2>1. Pos(k, n) \in I /\ o[Pos(k, n)] = n
      BY <1>3
  <2>2. Min(I) =< Pos(k, n) /\ Min(I) # Pos(k, n)
      BY <1>4, <1>5, <1>7, <2>1
  <2>3. Pos(k, Owner(k, S)) =< Min(I)
      BY <1>3, <1>6
  <2>4. Pos(k, Owner(k, S)) \in Nat /\ Pos(k, n) \in Nat /\ Min(I) \in Nat
      BY <1>2, <1>3, <1>4, <1>6
  <2> HIDE DEF I
  <2> QED BY <2>2, <2>3, <2>4
<1>8. \A n \in Node : Pos(k, n) \in Nat
    BY <1>3
<1> QED BY <1>6, <1>7, <1>8

-----------------------------------------------------------------------------
(***************************************************************************)
(* A step that, for the keys still followed afterwards, takes no copy away *)
(* and leaves what was written as it was.                                  *)
(***************************************************************************)
Mild ==
    /\ order' = order /\ spoiled \subseteq spoiled'
    /\ \A k \in Key \ spoiled' :
          /\ k \in DOMAIN acked' <=> k \in DOMAIN acked
          /\ k \in DOMAIN acked => acked'[k] = acked[k]
          /\ \A m \in Up : k \in DOMAIN store[m] => m \in Up' /\ k \in DOMAIN store'[m]

LEMMA MildHeld ==
    ASSUME Inv, Mild, acked' \in Map
    PROVE  HeldInv'
<1> SUFFICES ASSUME NEW k \in DOMAIN acked' \ spoiled' PROVE \E n \in Up' : k \in DOMAIN store'[n]
    BY DEF HeldInv
<1>1. k \in Key \ spoiled' /\ k \in DOMAIN acked \ spoiled
    BY DEF Mild, Map
<1>2. PICK n \in Up : k \in DOMAIN store[n]
    BY <1>1 DEF Inv, HeldInv
<1> QED BY <1>1, <1>2 DEF Mild

LEMMA MildTask ==
    ASSUME Inv, Mild, NEW t, TaskOK(t),
           call' \in {call, NoCall} \/ call'.req.key \in spoiled' \/ t.pc # "move"
    PROVE  TaskOK(t)'
<1>1. TaskShape(t)'
    BY DEF TaskOK, TaskShape
<1>2. DOMAIN t.data \subseteq Key /\ t.moved \subseteq Key
    BY MapLemma DEF TaskOK, TaskShape, TaskType, Map
<1>3. TaskAgrees(t)'
  <2>1. ASSUME NEW k \in DOMAIN t.data \ spoiled' PROVE k \in DOMAIN acked' /\ t.data[k] = acked'[k]
      BY <1>2 DEF Mild, TaskOK, TaskAgrees
  <2>2. t.pc = "move" /\ call' # NoCall => call'.req.key \in spoiled'
      BY DEF Mild, TaskOK, TaskAgrees
  <2> QED BY <2>1, <2>2 DEF TaskAgrees
<1>4. TaskHeld(t)'
  <2> SUFFICES ASSUME NEW k \in t.moved \ spoiled', t.at # t.node
               PROVE  \E m \in Up' : k \in DOMAIN store'[m] /\ Pos(k, m)' < Pos(k, t.at)'
      BY DEF TaskHeld
  <2>1. PICK m \in Up : k \in DOMAIN store[m] /\ Pos(k, m) < Pos(k, t.at)
      BY DEF Mild, TaskOK, TaskHeld
  <2>2. m \in Up' /\ k \in DOMAIN store'[m]
      BY <1>2, <2>1 DEF Mild
  <2>3. Pos(k, m)' = Pos(k, m) /\ Pos(k, t.at)' = Pos(k, t.at)
      BY DEF Mild, Pos
  <2> QED BY <2>1, <2>2, <2>3
<1> QED BY <1>1, <1>3, <1>4 DEF TaskOK

(***************************************************************************)
(* Steps that touch neither stores nor what was written: a request is      *)
(* routed or fails, members are checked, a node starts or begins to leave. *)
(***************************************************************************)
LEMMA RouteStep == ASSUME Inv, NEW n \in Node, NEW r \in Requests, Route(n, r) PROVE Inv'
<1>1. /\ UNCHANGED <<order, phase, ring, members, store, tasks, notify, acked>>
      /\ spoiled \subseteq spoiled'
      /\ spoiled' = spoiled \cup {r.key} \/ (spoiled' = spoiled /\ ~Changing)
      /\ call'.req = r /\ call'.target = Owner(r.key, ring[n])
    BY DEF Route, nodeVars
<1>2. r.key \in Key
    BY DEF Requests
<1>3. Owner(r.key, ring[n]) \in Node
  <2>1. ring[n] \in SUBSET Node /\ ring[n] # {}
      BY DEF Inv, TypeInv, SelfInv
  <2> QED BY <1>2, <2>1, OwnerLemma DEF Inv, TypeInv
<1>4. TypeInv'
    BY <1>1, <1>2, <1>3 DEF Inv, TypeInv
<1>5. Mild
    BY <1>1 DEF Mild, Up
<1>6. HeldInv'
    BY <1>4, <1>5, MildHeld DEF TypeInv
<1>7. SelfInv' /\ AgreeInv'
    BY <1>1 DEF Inv, SelfInv, AgreeInv
<1>8. ASSUME NEW t \in tasks' PROVE TaskOK(t)'
  <2>1. t \in tasks /\ r.key \in spoiled'
      BY <1>1 DEF Changing
  <2>2. call'.req.key \in spoiled'
      BY <1>1, <2>1
  <2> QED BY <1>5, <2>1, <2>2, MildTask DEF Inv
<1> QED BY <1>4, <1>6, <1>7, <1>8 DEF Inv

LEMMA QuietStep ==
    ASSUME Inv, UNCHANGED <<order, store, tasks, acked>>, TypeInv', SelfInv',
           spoiled \subseteq spoiled', Up \subseteq Up', call' \in {call, NoCall}
    PROVE  Inv'
<1>1. Mild
    BY DEF Mild
<1>2. HeldInv'
    BY <1>1, MildHeld DEF TypeInv
<1>3. AgreeInv'
    BY DEF Inv, AgreeInv
<1>4. \A t \in tasks' : TaskOK(t)'
    BY <1>1, MildTask DEF Inv
<1> QED BY <1>2, <1>3, <1>4 DEF Inv

LEMMA SpoilLemma ==
    ASSUME Inv, SpoilCall
    PROVE  spoiled \subseteq spoiled' /\ spoiled' \subseteq Key
           /\ (call # NoCall => call.req.key \in spoiled')
BY DEF Inv, TypeInv, SpoilCall, Requests

LEMMA ConfigLemma == ASSUME NEW n \in Node PROVE Config[n] \in SUBSET Node /\ n \in Config[n]
BY ConfigAssumption DEF validateConfig

LEMMA ConfigureLemma ==
    ASSUME Inv, NEW n \in Node, NEW p \in {"down", "crashed", "running"}, Configure(n, p)
    PROVE  /\ phase' \in [Node -> {"down", "crashed", "running", "leaving"}]
           /\ ring' \in [Node -> SUBSET Node] /\ members' \in [Node -> SUBSET Node]
           /\ \A m \in Node : m \in ring'[m] /\ m \notin members'[m]
           /\ p = "running" => Up \subseteq Up'
           /\ p # "running" => Up' = Up \ {n}
<1>1. /\ phase' = [phase EXCEPT ![n] = p]
      /\ ring' = [ring EXCEPT ![n] = Config[n]]
      /\ members' = [members EXCEPT ![n] = Config[n] \ {n}]
    BY DEF Configure, NewDistributedNode, NewClusterManager
<1> QED BY <1>1, ConfigLemma DEF Inv, TypeInv, SelfInv, Up

LEMMA AnnouncementsLemma ==
    ASSUME NEW n \in Node
    PROVE  /\ Announcements(n) \in SUBSET ({"join", "leave"} \X Node)
           /\ \A x \in Announcements(n) : x[2] # n
BY ConfigLemma DEF Announcements

LEMMA StartStep == ASSUME Inv, NEW n \in Node, Start(n) PROVE Inv'
<1>1. /\ Configure(n, "running") /\ notify' = [notify EXCEPT ![n] = Announcements(n)]
      /\ SpoilCall /\ UNCHANGED <<order, store, tasks, call, acked>>
    BY DEF Start, StartManager
<1>2. TypeInv'
    BY <1>1, ConfigureLemma, AnnouncementsLemma, SpoilLemma DEF Inv, TypeInv
<1>3. SelfInv'
    BY <1>1, ConfigureLemma, AnnouncementsLemma DEF Inv, TypeInv, SelfInv
<1>4. Up \subseteq Up' /\ spoiled \subseteq spoiled'
    BY <1>1, ConfigureLemma, SpoilLemma
<1> QED BY <1>1, <1>2, <1>3, <1>4, QuietStep

LEMMA LeaveStep == ASSUME Inv, NEW n \in Node, Leave(n) PROVE Inv'
<1>1. /\ phase[n] = "running" /\ phase' = [phase EXCEPT ![n] = "leaving"]
      /\ notify' = [notify EXCEPT ![n] = @ \cup {"leave"} \X members[n]]
      /\ UNCHANGED <<order, ring, members, store, tasks, call, acked, spoiled>>
    BY DEF Leave, callVars
<1>2. TypeInv'
    BY <1>1 DEF Inv, TypeInv
<1>3. SelfInv'
  <2>1. \A x \in {"leave"} \X members[n] : x[2] # n
      BY DEF Inv, SelfInv
  <2> QED BY <1>1, <2>1 DEF Inv, TypeInv, SelfInv
<1>4. Up \subseteq Up'
    BY <1>1 DEF Inv, TypeInv, Up
<1> QED BY <1>1, <1>2, <1>3, <1>4, QuietStep

LEMMA CheckStep ==
    ASSUME Inv, CallFails \/ \E n \in Node : performHealthCheck(n) \/ ForwardFails(n)
    PROVE  Inv'
<1>1. /\ UNCHANGED <<order, phase, ring, members, store, tasks, notify, acked, spoiled>>
      /\ call' \in {call, NoCall}
    BY DEF CallFails, performHealthCheck, ForwardFails, nodeVars, callVars, history
<1>2. TypeInv' /\ SelfInv' /\ Up' = Up
    BY <1>1 DEF Inv, TypeInv, SelfInv, Up
<1> QED BY <1>1, <1>2, QuietStep

(* What a write does to a map *)
LEMMA EffectLemma ==
    ASSUME NEW r \in Requests, NEW m \in Map
    PROVE  /\ Effect(r, m) \in Map
           /\ \A x \in Key \ {r.key} : x \in DOMAIN Effect(r, m) <=> x \in DOMAIN m
           /\ \A x \in DOMAIN m \ {r.key} : Effect(r, m)[x] = m[x]
           /\ r.op = "Set" => r.key \in DOMAIN Effect(r, m) /\ Effect(r, m)[r.key] = r.val
           /\ r.op # "Set" => r.key \notin DOMAIN Effect(r, m)
<1>1. r.key \in Key /\ (r.op = "Set" => r.val \in Value)
    BY DEF Requests
<1>2. PICK k \in Key : k = r.key
    BY <1>1
<1>3. CASE r.op = "Set"
  <2>1. PICK v \in Value : v = r.val
      BY <1>1, <1>3
  <2>2. Effect(r, m) = With(m, k, v)
      BY <1>2, <1>3, <2>1 DEF Effect
  <2>3. /\ With(m, k, v) \in Map
        /\ DOMAIN With(m, k, v) = DOMAIN m \cup {k}
        /\ With(m, k, v)[k] = v
        /\ \A x \in DOMAIN m \ {k} : With(m, k, v)[x] = m[x]
    <3>1. With(m, k, v) \in Map
        BY WithLemma
    <3> QED BY <3>1 DEF With
  <2>4. /\ Effect(r, m) \in Map
        /\ DOMAIN Effect(r, m) = DOMAIN m \cup {r.key}
        /\ Effect(r, m)[r.key] = r.val
        /\ \A x \in DOMAIN m \ {r.key} : Effect(r, m)[x] = m[x]
      BY <1>2, <2>1, <2>2, <2>3
  <2> QED BY <1>3, <2>4
<1>4. CASE r.op # "Set"
  <2>1. Effect(r, m) = Without(m, k)
      BY <1>2, <1>4 DEF Effect
  <2>2. /\ Without(m, k) \in Map
        /\ DOMAIN Without(m, k) = DOMAIN m \ {k}
        /\ \A x \in DOMAIN m \ {k} : Without(m, k)[x] = m[x]
      BY WithoutLemma
  <2> QED BY <1>2, <1>4, <2>1, <2>2
<1> QED BY <1>3, <1>4

(***************************************************************************)
(* The write of a client.  While a migration is under way it spoils its    *)
(* key; otherwise there is no task that carries or relies on anything.     *)
(***************************************************************************)
LEMMA ExecuteStep == ASSUME Inv, Execute PROVE Inv'
<1> DEFINE r == call.req
           o == call.target
           k == r.key
<1>1. /\ call # NoCall /\ o \in Up /\ call' = NoCall
      /\ store' = [store EXCEPT ![o] = Effect(r, @)]
      /\ acked' = Effect(r, acked)
      /\ spoiled' = IF \E n \in Node \ {o} : k \in DOMAIN store[n] THEN spoiled \cup {k} ELSE spoiled
      /\ UNCHANGED <<order, phase, ring, members, tasks, notify>>
    BY DEF Execute, nodeVars
<1>2. r \in Requests /\ k \in Key /\ o \in Node
    BY <1>1 DEF Inv, TypeInv, Requests
<1>3. ASSUME NEW m \in Map
      PROVE  /\ Effect(r, m) \in Map
             /\ \A x \in Key \ {k} : x \in DOMAIN Effect(r, m) <=> x \in DOMAIN m
             /\ \A x \in DOMAIN m \ {k} : Effect(r, m)[x] = m[x]
             /\ r.op = "Set" => k \in DOMAIN Effect(r, m) /\ Effect(r, m)[k] = r.val
             /\ r.op # "Set" => k \notin DOMAIN Effect(r, m)
    BY <1>2, EffectLemma
<1>4. acked \in Map /\ \A n \in Node : store[n] \in Map
    BY DEF Inv, TypeInv
<1>5. TypeInv' /\ SelfInv' /\ Up' = Up
    BY <1>1, <1>2, <1>3, <1>4 DEF Inv, TypeInv, SelfInv, Up
<1>6. \A n \in Node : DOMAIN store[n] \subseteq Key
    BY <1>2, <1>4, MapLemma
<1>7. ASSUME NEW n \in Node, NEW x \in DOMAIN store'[n] \ spoiled'
      PROVE  x \in DOMAIN acked' /\ store'[n][x] = acked'[x]
  <2>1. x \in Key /\ x \notin spoiled
      BY <1>1, <1>5, <1>2, MapLemma DEF TypeInv
  <2>2. CASE x = k
    <3>1. n = o
        BY <1>1, <2>2 DEF Inv, TypeInv
    <3>2. store'[o] = Effect(r, store[o])
        BY <1>1, <1>2 DEF Inv, TypeInv
    <3> QED BY <1>1, <1>2, <1>3, <1>4, <2>2, <3>1, <3>2
  <2>3. CASE x # k
    <3>1. x \in DOMAIN store[n] /\ store'[n][x] = store[n][x]
        BY <1>1, <1>2, <1>3, <1>4, <2>1, <2>3 DEF Inv, TypeInv
    <3>2. x \in DOMAIN acked /\ store[n][x] = acked[x]
        BY <2>1, <3>1 DEF Inv, AgreeInv
    <3> QED BY <1>1, <1>3, <1>4, <2>1, <2>3, <3>1, <3>2
  <2> QED BY <2>2, <2>3
<1>8. ASSUME NEW x \in DOMAIN acked' \ spoiled' PROVE \E n \in Up' : x \in DOMAIN store'[n]
  <2>1. x \in Key /\ x \notin spoiled
      BY <1>1, <1>2, <1>5, MapLemma DEF TypeInv
  <2>2. CASE x = k
    <3>1. r.op = "Set"
        BY <1>1, <1>3, <1>4, <2>2
    <3>2. k \in DOMAIN store'[o]
        BY <1>1, <1>2, <1>3, <1>4, <3>1 DEF Inv, TypeInv
    <3> QED BY <1>1, <1>5, <2>2, <3>2
  <2>3. CASE x # k
    <3>1. x \in DOMAIN acked
        BY <1>1, <1>3, <1>4, <2>1, <2>3
    <3>2. PICK n \in Up : x \in DOMAIN store[n]
        BY <2>1, <3>1 DEF Inv, HeldInv
    <3>3. x \in DOMAIN store'[n]
        BY <1>1, <1>2, <1>3, <1>4, <2>1, <2>3, <3>2 DEF Inv, TypeInv, Up
    <3> QED BY <1>5, <3>2, <3>3
  <2> QED BY <2>2, <2>3
<1>9. ASSUME NEW t \in tasks' PROVE TaskOK(t)'
  <2>1. t \in tasks /\ TaskOK(t)
      BY <1>1 DEF Inv
  <2>2. CASE t.pc = "move"
    <3>1. k \in spoiled
        BY <1>1, <2>1, <2>2 DEF TaskOK, TaskAgrees
    <3>2. spoiled \subseteq spoiled'
        BY <1>1
    <3>3. ASSUME NEW x \in Key \ spoiled'
          PROVE  /\ x \in DOMAIN acked' <=> x \in DOMAIN acked
                 /\ x \in DOMAIN acked => acked'[x] = acked[x]
                 /\ \A m \in Up : x \in DOMAIN store[m] => x \in DOMAIN store'[m]
      <4>1. x # k
          BY <3>1, <3>2
      <4>2. \A m \in Node : x \in DOMAIN store[m] => x \in DOMAIN store'[m]
          BY <1>1, <1>2, <1>3, <1>4, <4>1 DEF Inv, TypeInv
      <4> QED BY <1>1, <1>3, <1>4, <4>1, <4>2 DEF Up
    <3>4. Mild
        BY <1>1, <1>5, <3>2, <3>3 DEF Mild
    <3> QED BY <1>1, <2>1, <3>4, MildTask
  <2>3. CASE t.pc # "move"
    <3>1. DOMAIN t.data = {} /\ t.moved = {} /\ TaskShape(t)
        BY <2>1, <2>3 DEF TaskOK, TaskShape
    <3> QED BY <2>3, <3>1 DEF TaskOK, TaskShape, TaskAgrees, TaskHeld
  <2> QED BY <2>2, <2>3
<1> QED BY <1>5, <1>7, <1>8, <1>9 DEF Inv, AgreeInv, HeldInv

(***************************************************************************)
(* A node ends: the keys it held are no longer followed.                   *)
(***************************************************************************)
LEMMA DownStep ==
    ASSUME Inv, NEW n \in Node, NEW p \in {"down", "crashed"}, Down(n, p),
           UNCHANGED <<order, acked, call>>, \A t \in tasks' : t.at # n /\ TaskOK(t)
    PROVE  Inv'
<1>1. /\ Configure(n, p)
      /\ store' = [store EXCEPT ![n] = EmptyMap]
      /\ notify' = [notify EXCEPT ![n] = {}]
      /\ spoiled' = spoiled \cup DOMAIN store[n]
    BY DEF Down
<1>2. Up' = Up \ {n}
    BY <1>1, ConfigureLemma
<1>3. DOMAIN store[n] \subseteq Key
    BY DEF Inv, TypeInv, Map
<1>4. TypeInv'
    BY <1>1, <1>3, ConfigureLemma, EmptyMapLemma DEF Inv, TypeInv
<1>5. SelfInv'
    BY <1>1, ConfigureLemma DEF Inv, TypeInv, SelfInv
<1>6. Mild
    BY <1>1, <1>2 DEF Mild, Inv, TypeInv
<1>7. HeldInv'
    BY <1>4, <1>6, MildHeld DEF TypeInv
<1>8. AgreeInv'
    BY <1>1, EmptyMapLemma DEF Inv, TypeInv, AgreeInv
<1>9. \A t \in tasks' : TaskOK(t)'
    BY <1>6, MildTask
<1> QED BY <1>4, <1>5, <1>7, <1>8, <1>9 DEF Inv

(* What a sender has heard makes no difference to a task. *)
LEMMA HeardLemma ==
    ASSUME NEW t, TaskOK(t), NEW b \in BOOLEAN
    PROVE  TaskOK([t EXCEPT !.heard = b])
<1> DEFINE u == [t EXCEPT !.heard = b]
<1>1. t \in TaskType
    BY DEF TaskOK, TaskShape
<1>2. /\ u \in TaskType /\ u.kind = t.kind /\ u.at = t.at /\ u.node = t.node /\ u.pc = t.pc
      /\ u.data = t.data /\ u.moved = t.moved /\ u.targets = t.targets
    BY <1>1 DEF TaskType
<1> HIDE DEF u
<1>3. TaskShape(u)
    BY <1>2 DEF TaskOK, TaskShape
<1>4. TaskAgrees(u) /\ TaskHeld(u)
    BY <1>2 DEF TaskOK, TaskAgrees, TaskHeld
<1>5. TaskOK(u)
    BY <1>3, <1>4 DEF TaskOK
<1> QED BY <1>5 DEF u

LEMMA EndStep == ASSUME Inv, NEW n \in Node, Exit(n) \/ Crash(n) PROVE Inv'
<1>1. CASE Exit(n)
    BY <1>1, DownStep DEF Exit, Inv, callVars
<1>2. CASE Crash(n)
  <2>1. ASSUME NEW t \in tasks' PROVE t.at # n /\ TaskOK(t)
    <3>1. PICK u \in tasks : u.at # n /\ t = [u EXCEPT !.heard = @ /\ u.from # n]
        BY <1>2 DEF Crash
    <3>2. u \in TaskType /\ TaskOK(u)
        BY DEF Inv, TaskOK, TaskShape
    <3>3. (u.heard /\ u.from # n) \in BOOLEAN
        OBVIOUS
    <3>4. t.at = u.at
        BY <3>1, <3>2 DEF TaskType
    <3> QED BY <3>1, <3>2, <3>3, <3>4, HeardLemma
  <2> QED BY <1>2, <2>1, DownStep DEF Crash, callVars
<1> QED BY <1>1, <1>2

(***************************************************************************)
(* Steps that change nothing but the tasks.                                *)
(***************************************************************************)
LEMMA TasksStep ==
    ASSUME Inv, UNCHANGED <<order, phase, ring, members, store, acked, spoiled, call>>,
           notify' \in [Node -> SUBSET ({"join", "leave"} \X Node)],
           \A n \in Node : notify'[n] \subseteq notify[n],
           \A t \in tasks' : TaskOK(t)
    PROVE  Inv'
<1>1. TypeInv'
    BY DEF Inv, TypeInv
<1>2. SelfInv'
    BY DEF Inv, SelfInv
<1>3. Mild
    BY DEF Mild, Up
<1>4. HeldInv'
    BY <1>1, <1>3, MildHeld DEF TypeInv
<1>5. AgreeInv'
    BY DEF Inv, AgreeInv
<1>6. \A t \in tasks' : TaskOK(t)'
    BY <1>3, MildTask
<1> QED BY <1>1, <1>2, <1>4, <1>5, <1>6 DEF Inv

(* A request that has just been sent *)
LEMMA NewTaskLemma ==
    ASSUME NEW kind \in {"join", "leave", "sync-add", "sync-remove"}, NEW at \in Node,
           NEW node \in Node, NEW from \in Node, kind \in {"leave", "sync-remove"} => at # node
    PROVE  TaskOK(Task(kind, at, node, from))
<1> DEFINE t == Task(kind, at, node, from)
<1>1. /\ t \in TaskType /\ t.kind = kind /\ t.at = at /\ t.node = node /\ t.pc = "wait"
      /\ t.data = EmptyMap /\ t.moved = {} /\ t.targets = {}
    BY EmptyMapLemma DEF Task, TaskType
<1> HIDE DEF t
<1>2. TaskOK(t)
    BY <1>1, EmptyMapLemma DEF TaskOK, TaskShape, TaskAgrees, TaskHeld
<1> QED BY <1>2 DEF t

LEMMA NotifyStep ==
    ASSUME Inv, NEW n \in Node, NEW kind \in {"join", "leave"}, NEW m \in Node, Notify(n, kind, m)
    PROVE  Inv'
<1>1. m # n
    BY DEF Inv, SelfInv, Notify
<1>2. TaskOK(Task(kind, m, n, n))
    BY <1>1, NewTaskLemma
<1>3. \A t \in tasks' : TaskOK(t)
    BY <1>2 DEF Notify, Inv
<1>4. notify' = [notify EXCEPT ![n] = @ \ {<<kind, m>>}]
    BY DEF Notify
<1>5. /\ notify' \in [Node -> SUBSET ({"join", "leave"} \X Node)]
      /\ \A x \in Node : notify'[x] \subseteq notify[x]
    BY <1>4 DEF Inv, TypeInv
<1> QED BY <1>3, <1>5, TasksStep DEF Notify, nodeVars, callVars, history

(* A migration that has one key less to look at *)
LEMMA LessData ==
    ASSUME NEW t, TaskOK(t), NEW k, t.pc = "move"
    PROVE  TaskOK([t EXCEPT !.data = Without(@, k)])
<1> DEFINE u == [t EXCEPT !.data = Without(@, k)]
<1>1. t \in TaskType /\ t.data \in Map
    BY DEF TaskOK, TaskShape, TaskType
<1>2. /\ u \in TaskType /\ u.kind = t.kind /\ u.at = t.at /\ u.node = t.node /\ u.pc = t.pc
      /\ u.data = Without(t.data, k) /\ u.moved = t.moved /\ u.targets = t.targets
    BY <1>1, WithoutLemma DEF TaskType
<1> HIDE DEF u
<1>3. TaskShape(u) /\ TaskHeld(u)
    BY <1>2 DEF TaskOK, TaskShape, TaskHeld
<1>4. TaskAgrees(u)
  <2>1. DOMAIN u.data \subseteq DOMAIN t.data /\ \A x \in DOMAIN u.data : u.data[x] = t.data[x]
    <3>1. /\ DOMAIN Without(t.data, k) = DOMAIN t.data \ {k}
          /\ \A x \in DOMAIN t.data \ {k} : Without(t.data, k)[x] = t.data[x]
        BY <1>1, WithoutLemma
    <3> QED BY <1>2, <3>1
  <2> QED BY <1>2, <2>1 DEF TaskOK, TaskAgrees
<1>5. TaskOK(u)
    BY <1>3, <1>4 DEF TaskOK
<1> QED BY <1>5 DEF u

(* What is told to the targets of a broadcast *)
LEMMA SendLemma ==
    ASSUME NEW t, TaskOK(t), NEW S, S \subseteq t.targets, t.pc = "broadcast"
    PROVE  TaskOK([t EXCEPT !.targets = S])
<1> DEFINE u == [t EXCEPT !.targets = S]
<1>1. t \in TaskType
    BY DEF TaskOK, TaskShape
<1>2. /\ u \in TaskType /\ u.kind = t.kind /\ u.at = t.at /\ u.node = t.node /\ u.pc = t.pc
      /\ u.data = t.data /\ u.moved = t.moved /\ u.targets = S
    BY <1>1 DEF TaskType
<1> HIDE DEF u
<1>3. TaskOK(u)
    BY <1>2 DEF TaskOK, TaskShape, TaskAgrees, TaskHeld
<1> QED BY <1>3 DEF u

(* From waiting or migrating to the broadcast *)
LEMMA BroadcastLemma ==
    ASSUME NEW t, TaskOK(t), DOMAIN t.data = {}, t.moved = {}, NEW S \in SUBSET Node,
           t.kind # "join" => t.node \notin S
    PROVE  TaskOK([t EXCEPT !.pc = "broadcast", !.targets = S])
<1> DEFINE u == [t EXCEPT !.pc = "broadcast", !.targets = S]
<1>1. t \in TaskType
    BY DEF TaskOK, TaskShape
<1>2. /\ u \in TaskType /\ u.kind = t.kind /\ u.at = t.at /\ u.node = t.node
      /\ u.pc = "broadcast" /\ u.data = t.data /\ u.moved = t.moved /\ u.targets = S
    BY <1>1 DEF TaskType
<1> HIDE DEF u
<1>3. TaskOK(u)
    BY <1>2 DEF TaskOK, TaskShape, TaskAgrees, TaskHeld
<1> QED BY <1>3 DEF u

LEMMA TaskOnlyStep ==
    ASSUME Inv, NEW t \in tasks,
           \/ \E k \in Key : SkipKey(t, k)
           \/ EndMigration(t) \/ EndBroadcast(t) \/ TimesOut(t)
           \/ \E m \in Node : sendNodeChangeRequest(t, m)
    PROVE  Inv'
<1>0. TaskOK(t) /\ t \in TaskType /\ \A u \in tasks : TaskOK(u)
    BY DEF Inv, TaskOK, TaskShape
<1>1. UNCHANGED <<order, phase, ring, members, store, acked, spoiled, call, notify>>
    BY DEF SkipKey, EndMigration, EndBroadcast, TimesOut, sendNodeChangeRequest, nodeVars, callVars,
           history
<1>2. ASSUME \A u \in tasks' : TaskOK(u) PROVE Inv'
    BY <1>1, <1>2, TasksStep DEF Inv, TypeInv
<1>3. ASSUME NEW k \in Key, SkipKey(t, k) PROVE \A u \in tasks' : TaskOK(u)
    BY <1>0, <1>3, LessData DEF SkipKey, Replace
<1>4. ASSUME EndMigration(t) PROVE \A u \in tasks' : TaskOK(u)
  <2>1. broadcastTargets(t.at) \in SUBSET Node
      BY <1>0 DEF broadcastTargets, GetNodes, Inv, TypeInv, TaskType
  <2>2. t.kind = "join" =>
            TaskOK([t EXCEPT !.pc = "broadcast", !.targets = broadcastTargets(t.at)])
      BY <1>0, <1>4, <2>1, BroadcastLemma DEF EndMigration
  <2> QED BY <1>0, <1>4, <2>2 DEF EndMigration, Replace, Reply
<1>5. ASSUME EndBroadcast(t) PROVE \A u \in tasks' : TaskOK(u)
    BY <1>0, <1>5 DEF EndBroadcast, Reply
<1>6. ASSUME TimesOut(t) PROVE \A u \in tasks' : TaskOK(u)
  <2>1. TaskOK([t EXCEPT !.heard = FALSE])
      BY <1>0, HeardLemma
  <2> QED BY <1>0, <1>6, <2>1 DEF TimesOut
<1>7. ASSUME NEW m \in Node, sendNodeChangeRequest(t, m) PROVE \A u \in tasks' : TaskOK(u)
  <2>1. t.pc = "broadcast" /\ m \in t.targets
      BY <1>7 DEF sendNodeChangeRequest
  <2>2. TaskOK([t EXCEPT !.targets = @ \ {m}])
      BY <1>0, <2>1, SendLemma
  <2>3. t.at \in Node /\ t.node \in Node
      BY <1>0 DEF TaskType
  <2>4. SyncKind(t) = "sync-remove" => m # t.node
      BY <1>0, <2>1 DEF SyncKind, TaskOK, TaskShape
  <2>5. TaskOK(Task(SyncKind(t), m, t.node, t.at))
    <3>1. SyncKind(t) \in {"sync-add", "sync-remove"}
        BY DEF SyncKind
    <3> QED BY <2>3, <2>4, <3>1, NewTaskLemma
  <2> QED BY <1>0, <1>7, <2>2, <2>5 DEF sendNodeChangeRequest
<1> QED BY <1>2, <1>3, <1>4, <1>5, <1>6, <1>7

(***************************************************************************)
(* A member is added and the cache is copied: what is copied agrees with   *)
(* what was written, and a write on its way spoils its key.                *)
(***************************************************************************)
LEMMA AddStep == ASSUME Inv, NEW t \in tasks, AddNodeToCluster(t) \/ SyncAddNode(t) PROVE Inv'
<1> DEFINE u == [t EXCEPT !.pc = "move", !.data = store[t.at]]
<1>0. TaskOK(t) /\ t \in TaskType /\ t.at \in Node /\ t.node \in Node
    BY DEF Inv, TaskOK, TaskShape, TaskType
<1>1. /\ t.kind \in {"join", "sync-add"} /\ t.pc = "wait"
      /\ members' = [members EXCEPT ![t.at] = @ \cup ({t.node} \ {t.at})]
      /\ ring' = [ring EXCEPT ![t.at] = @ \cup {t.node}]
      /\ tasks' = (tasks \ {t}) \cup {u}
      /\ SpoilCall /\ MayMeet(t) /\ UNCHANGED <<order, phase, store, call, acked>>
    BY DEF AddNodeToCluster, SyncAddNode, AddMember, Snapshot, Replace, callVars
<1>n. /\ notify' \in [Node -> SUBSET ({"join", "leave"} \X Node)]
      /\ \A n \in Node : \A x \in notify'[n] : x[2] # n
  <2>1. PICK S \in SUBSET Unmet(t) : notify' = [notify EXCEPT ![t.at] = @ \cup {"join"} \X S]
      BY <1>1 DEF MayMeet
  <2>2. S \subseteq Node \ {t.at}
      BY <1>0, <2>1 DEF Unmet
  <2>3. /\ {"join"} \X S \in SUBSET ({"join", "leave"} \X Node)
        /\ \A x \in {"join"} \X S : x[2] # t.at
      BY <2>2
  <2> QED BY <1>0, <2>1, <2>3 DEF Inv, TypeInv, SelfInv
<1>2. TypeInv'
    BY <1>0, <1>1, <1>n, SpoilLemma DEF Inv, TypeInv
<1>3. SelfInv'
    BY <1>0, <1>1, <1>n DEF Inv, TypeInv, SelfInv
<1>4. spoiled \subseteq spoiled' /\ (call # NoCall => call.req.key \in spoiled')
    BY <1>1, SpoilLemma
<1>5. Mild
    BY <1>1, <1>4 DEF Mild, Up
<1>6. HeldInv'
    BY <1>2, <1>5, MildHeld DEF TypeInv
<1>7. AgreeInv'
    BY <1>1, <1>4 DEF Inv, AgreeInv
<1>8. TaskOK(u)'
  <2>1. store[t.at] \in Map
      BY <1>0 DEF Inv, TypeInv
  <2>2. /\ u \in TaskType /\ u.kind = t.kind /\ u.at = t.at /\ u.node = t.node /\ u.pc = "move"
        /\ u.data = store[t.at] /\ u.moved = t.moved /\ u.targets = t.targets
      BY <1>0, <2>1 DEF TaskType
  <2>3. t.moved = {}
      BY <1>0, <1>1 DEF TaskOK, TaskShape
  <2>4. ASSUME NEW w, w = u PROVE TaskOK(w)'
    <3> HIDE DEF u
    <3>1. TaskShape(w)'
        BY <1>0, <2>2, <2>4 DEF TaskOK, TaskShape
    <3>2. TaskAgrees(w)'
        BY <1>0, <1>1, <1>4, <2>2, <2>4 DEF TaskAgrees, Inv, AgreeInv
    <3>3. TaskHeld(w)'
        BY <2>2, <2>3, <2>4 DEF TaskHeld
    <3> QED BY <3>1, <3>2, <3>3 DEF TaskOK
  <2> QED BY <2>4, <1>1
<1>9. \A w \in tasks' : TaskOK(w)'
  <2>1. \A w \in tasks : TaskOK(w)'
      BY <1>1, <1>5, MildTask DEF Inv
  <2> QED BY <1>1, <1>8, <2>1
<1> QED BY <1>2, <1>3, <1>6, <1>7, <1>9 DEF Inv

LEMMA RemoveStep ==
    ASSUME Inv, NEW t \in tasks, RemoveNodeFromCluster(t) \/ SyncRemoveNode(t)
    PROVE  Inv'
<1> DEFINE u == [t EXCEPT !.pc = "broadcast", !.targets = broadcastTargets(t.at) \ {t.node}]
<1>0. TaskOK(t) /\ t \in TaskType /\ t.at \in Node /\ t.node \in Node
    BY DEF Inv, TaskOK, TaskShape, TaskType
<1>1. /\ t.kind \in {"leave", "sync-remove"} /\ t.at # t.node
      /\ ring' \in {ring, [ring EXCEPT ![t.at] = @ \ {t.node}]}
      /\ members' \in {members, [members EXCEPT ![t.at] = @ \ {t.node}]}
      /\ notify' \in {notify, [notify EXCEPT ![t.at] = @ \ {<<"join", t.node>>}]}
      /\ SpoilCall /\ UNCHANGED <<order, phase, store, call, acked>>
    BY <1>0 DEF RemoveNodeFromCluster, SyncRemoveNode, RemoveMember, DoesNotMeet, callVars,
       TaskOK, TaskShape
<1>2. TypeInv'
    BY <1>0, <1>1, SpoilLemma DEF Inv, TypeInv
<1>3. SelfInv'
    BY <1>0, <1>1 DEF Inv, TypeInv, SelfInv
<1>4. spoiled \subseteq spoiled'
    BY <1>1, SpoilLemma
<1>5. Mild
    BY <1>1, <1>4 DEF Mild, Up
<1>6. HeldInv'
    BY <1>2, <1>5, MildHeld DEF TypeInv
<1>7. AgreeInv'
    BY <1>1, <1>4 DEF Inv, AgreeInv
<1>8. \A w \in tasks' : TaskOK(w)
  <2>1. ASSUME RemoveNodeFromCluster(t) PROVE TaskOK(u)
    <3>1. t.pc = "wait" /\ DOMAIN t.data = {} /\ t.moved = {}
        BY <1>0, <2>1 DEF RemoveNodeFromCluster, TaskOK, TaskShape
    <3>2. broadcastTargets(t.at) \ {t.node} \in SUBSET Node
        BY <1>0 DEF broadcastTargets, GetNodes, Inv, TypeInv
    <3> QED BY <1>0, <3>1, <3>2, BroadcastLemma
  <2> QED BY <2>1 DEF RemoveNodeFromCluster, SyncRemoveNode, Replace, Reply, Inv
<1>9. \A w \in tasks' : TaskOK(w)'
    BY <1>1, <1>5, <1>8, MildTask
<1> QED BY <1>2, <1>3, <1>6, <1>7, <1>9 DEF Inv

(***************************************************************************)
(* A put that arrives adds a copy that agrees.                             *)
(***************************************************************************)
LEMMA PutLemma ==
    ASSUME Inv, NEW t \in tasks, NEW k \in DOMAIN t.data,
           store' = [store EXCEPT ![t.node] = With(@, k, t.data[k])],
           UNCHANGED <<order, phase, ring, members, acked, spoiled, call, notify>>
    PROVE  /\ TypeInv' /\ SelfInv' /\ AgreeInv' /\ HeldInv' /\ Mild
           /\ k \in DOMAIN store'[t.node]
<1>0. TaskOK(t) /\ t.node \in Node /\ t.data \in Map
    BY DEF Inv, TaskOK, TaskShape, TaskType
<1>1. k \in Key /\ t.data[k] \in Value
    BY <1>0, MapLemma
<1> DEFINE m == With(store[t.node], k, t.data[k])
<1>2. /\ m \in Map /\ DOMAIN m = DOMAIN store[t.node] \cup {k} /\ m[k] = t.data[k]
      /\ \A x \in DOMAIN store[t.node] \ {k} : m[x] = store[t.node][x]
  <2>1. PICK s \in Map : s = store[t.node]
      BY <1>0 DEF Inv, TypeInv
  <2>2. PICK v \in Value : v = t.data[k]
      BY <1>1
  <2>3. /\ With(s, k, v) \in Map
        /\ DOMAIN With(s, k, v) = DOMAIN s \cup {k}
        /\ With(s, k, v)[k] = v
        /\ \A x \in DOMAIN s \ {k} : With(s, k, v)[x] = s[x]
      BY <1>1, WithLemma
  <2> QED BY <2>1, <2>2, <2>3
<1>3. store' = [store EXCEPT ![t.node] = m]
    OBVIOUS
<1> HIDE DEF m
<1>4. TypeInv' /\ SelfInv'
    BY <1>0, <1>2, <1>3 DEF Inv, TypeInv, SelfInv
<1>5. Mild
    BY <1>0, <1>2, <1>3 DEF Mild, Up, Inv, TypeInv
<1>6. ASSUME NEW n \in Node, NEW x \in DOMAIN store'[n] \ spoiled
      PROVE  x \in DOMAIN acked /\ store'[n][x] = acked[x]
  <2>1. CASE n = t.node /\ x = k
    <3>1. store'[n][x] = t.data[k]
        BY <1>0, <1>2, <1>3, <2>1 DEF Inv, TypeInv
    <3> QED BY <1>0, <2>1, <3>1 DEF TaskOK, TaskAgrees
  <2>2. CASE n # t.node \/ x # k
    <3>1. x \in DOMAIN store[n] /\ store'[n][x] = store[n][x]
        BY <1>0, <1>2, <1>3, <2>2 DEF Inv, TypeInv
    <3> QED BY <3>1 DEF Inv, AgreeInv
  <2> QED BY <2>1, <2>2
<1>7. AgreeInv'
    BY <1>6 DEF AgreeInv
<1>8. HeldInv'
    BY <1>4, <1>5, MildHeld DEF TypeInv
<1>9. k \in DOMAIN store'[t.node]
    BY <1>0, <1>2, <1>3 DEF Inv, TypeInv
<1> QED BY <1>4, <1>5, <1>7, <1>8, <1>9

LEMMA PutFailsStep == ASSUME Inv, NEW t \in tasks, NEW k \in Key, PutFails(t, k) PROVE Inv'
<1>0. TaskOK(t)
    BY DEF Inv
<1>1. /\ t.pc = "move" /\ k \in DOMAIN t.data
      /\ UNCHANGED <<order, phase, ring, members, acked, spoiled, call, notify>>
      /\ \A w \in tasks' : w \in tasks \/ w = [t EXCEPT !.data = Without(@, k)]
    BY DEF PutFails, Moves, Replace, nodeVars, callVars
<1>2. store' = store \/ store' = [store EXCEPT ![t.node] = With(@, k, t.data[k])]
  <2>1. [store EXCEPT ![t.node] = store[t.node]] = store
      BY DEF Inv, TypeInv
  <2> QED BY <2>1 DEF PutFails
<1>3. \A w \in tasks' : TaskOK(w)
    BY <1>0, <1>1, LessData DEF Inv
<1>4. CASE store' = store
    BY <1>1, <1>3, <1>4, TasksStep DEF Inv, TypeInv
<1>5. CASE store' = [store EXCEPT ![t.node] = With(@, k, t.data[k])]
  <2>1. TypeInv' /\ SelfInv' /\ AgreeInv' /\ HeldInv' /\ Mild
      BY <1>1, <1>5, PutLemma
  <2>2. \A w \in tasks' : TaskOK(w)'
      BY <1>1, <1>3, <2>1, MildTask
  <2> QED BY <2>1, <2>2 DEF Inv
<1> QED BY <1>2, <1>4, <1>5

(***************************************************************************)
(* The put is answered: the copy is at the owner, which the ring of the    *)
(* key meets before the node that still has the key.                       *)
(***************************************************************************)
LEMMA MigrateStep == ASSUME Inv, NEW t \in tasks, NEW k \in Key, migrateKeyToNode(t, k) PROVE Inv'
<1> DEFINE u == [t EXCEPT !.data = Without(@, k), !.moved = {k}]
<1>0. /\ TaskOK(t) /\ t \in TaskType /\ t.at \in Node /\ t.node \in Node /\ t.data \in Map
      /\ TypeInv /\ SelfInv
    BY DEF Inv, TaskOK, TaskShape, TaskType
<1>1. /\ t.pc = "move" /\ k \in DOMAIN t.data /\ t.node \in Up /\ Owner(k, ring[t.at]) = t.node
      /\ UNCHANGED <<order, phase, ring, members, acked, spoiled, call, notify>>
      /\ store' = [store EXCEPT ![t.node] = With(@, k, t.data[k])]
      /\ tasks' = (tasks \ {t}) \cup {u}
    BY DEF migrateKeyToNode, Moves, Replace, nodeVars, callVars, history
<1>2. TypeInv' /\ SelfInv' /\ AgreeInv' /\ HeldInv' /\ Mild /\ k \in DOMAIN store'[t.node]
    BY <1>1, PutLemma
<1>3. t.at # t.node => Pos(k, t.node) < Pos(k, t.at)
  <2>1. ring[t.at] \in SUBSET Node /\ ring[t.at] # {} /\ t.at \in ring[t.at]
      BY <1>0 DEF TypeInv, SelfInv
  <2> QED BY <1>0, <1>1, <2>1, OwnerLemma DEF TypeInv
<1>4. /\ u \in TaskType /\ u.kind = t.kind /\ u.at = t.at /\ u.node = t.node /\ u.pc = "move"
      /\ u.data = Without(t.data, k) /\ u.moved = {k} /\ u.targets = t.targets
    BY <1>0, <1>1, WithoutLemma DEF TaskType
<1>5. DOMAIN u.data \subseteq DOMAIN t.data /\ \A x \in DOMAIN u.data : u.data[x] = t.data[x]
  <2>1. /\ DOMAIN Without(t.data, k) = DOMAIN t.data \ {k}
        /\ \A x \in DOMAIN t.data \ {k} : Without(t.data, k)[x] = t.data[x]
      BY <1>0, WithoutLemma
  <2> HIDE DEF u
  <2> QED BY <1>4, <2>1
<1> HIDE DEF u
<1>6. TaskShape(u)'
    BY <1>0, <1>4 DEF TaskOK, TaskShape
<1>7. TaskAgrees(u)'
    BY <1>0, <1>1, <1>4, <1>5 DEF TaskOK, TaskAgrees
<1>8. TaskHeld(u)'
  <2>1. t.node \in Up' /\ Pos(k, t.node)' = Pos(k, t.node) /\ Pos(k, t.at)' = Pos(k, t.at)
      BY <1>1 DEF Up, Pos
  <2> QED BY <1>2, <1>3, <1>4, <2>1 DEF TaskHeld
<1>9. \A w \in tasks' : TaskOK(w)'
  <2>1. \A w \in tasks : TaskOK(w)'
      BY <1>1, <1>2, MildTask DEF Inv
  <2> QED BY <1>1, <1>6, <1>7, <1>8, <2>1 DEF TaskOK
<1> QED BY <1>2, <1>9 DEF Inv

(***************************************************************************)
(* The key is deleted here.  Whoever relied on this copy, the ring meeting *)
(* it earlier than his own, can rely on the one this migration relies on,  *)
(* which it meets earlier still.                                           *)
(***************************************************************************)
LEMMA DeleteStep == ASSUME Inv, NEW t \in tasks, NEW k \in Key, DeleteMoved(t, k) PROVE Inv'
<1> DEFINE u == [t EXCEPT !.moved = {}]
<1>0. /\ TaskOK(t) /\ t \in TaskType /\ t.at \in Node /\ t.node \in Node
      /\ TypeInv /\ SelfInv /\ AgreeInv /\ HeldInv
    BY DEF Inv, TaskOK, TaskShape, TaskType
<1>1. /\ t.pc = "move" /\ k \in t.moved
      /\ store' = [store EXCEPT ![t.at] = Without(@, k)]
      /\ tasks' = (tasks \ {t}) \cup {u}
      /\ spoiled \subseteq spoiled' /\ spoiled' \subseteq spoiled \cup {k}
      /\ t.at = t.node => k \in spoiled'
      /\ UNCHANGED <<order, phase, ring, members, acked, call, notify>>
    BY DEF DeleteMoved, Replace, nodeVars, callVars
<1>2. /\ Without(store[t.at], k) \in Map
      /\ DOMAIN Without(store[t.at], k) = DOMAIN store[t.at] \ {k}
      /\ \A x \in DOMAIN store[t.at] \ {k} : Without(store[t.at], k)[x] = store[t.at][x]
  <2>1. store[t.at] \in Map
      BY <1>0 DEF TypeInv
  <2> QED BY <2>1, WithoutLemma
<1>3. TypeInv' /\ SelfInv' /\ Up' = Up
    BY <1>0, <1>1, <1>2 DEF TypeInv, SelfInv, Up
<1>4. ASSUME NEW n \in Node
      PROVE  /\ DOMAIN store'[n] \subseteq DOMAIN store[n]
             /\ \A x \in DOMAIN store'[n] : store'[n][x] = store[n][x]
             /\ \A x \in DOMAIN store[n] : x # k \/ n # t.at => x \in DOMAIN store'[n]
    BY <1>0, <1>1, <1>2 DEF TypeInv
<1>5. AgreeInv'
    BY <1>0, <1>1, <1>4 DEF AgreeInv
<1>6. \A x \in Key, n \in Node : Pos(x, n) \in Nat /\ Pos(x, n)' = Pos(x, n)
  <2>1. Node \in SUBSET Node /\ Node # {}
      BY <1>0
  <2> QED BY <1>0, <1>1, <2>1, OwnerLemma DEF TypeInv, Pos
<1>7. ASSUME NEW x \in Key \ spoiled', NEW m \in Up, x \in DOMAIN store[m]
      PROVE  \E n \in Up' : x \in DOMAIN store'[n] /\ Pos(x, n) =< Pos(x, m)
  <2>0. m \in Node
      BY DEF Up
  <2>1. CASE x # k \/ m # t.at
    <3>1. x \in DOMAIN store'[m] /\ Pos(x, m) =< Pos(x, m)
        BY <1>4, <1>6, <1>7, <2>0, <2>1
    <3> QED BY <1>3, <3>1
  <2>2. CASE x = k /\ m = t.at
    <3>1. k \in t.moved \ spoiled /\ t.at # t.node
        BY <1>1, <2>2
    <3>2. PICK n \in Up : k \in DOMAIN store[n] /\ Pos(k, n) < Pos(k, t.at)
        BY <1>0, <3>1 DEF TaskOK, TaskHeld
    <3>3. n \in Node /\ n # t.at
        BY <1>0, <1>6, <3>2 DEF Up
    <3>4. k \in DOMAIN store'[n]
        BY <1>4, <3>2, <3>3
    <3>5. Pos(k, n) =< Pos(k, m)
        BY <1>0, <1>6, <2>2, <3>2, <3>3
    <3> QED BY <1>3, <2>2, <3>2, <3>4, <3>5
  <2> QED BY <2>1, <2>2
<1>8. HeldInv'
  <2> SUFFICES ASSUME NEW x \in DOMAIN acked \ spoiled' PROVE \E n \in Up' : x \in DOMAIN store'[n]
      BY <1>1 DEF HeldInv
  <2>1. x \in Key \ spoiled' /\ x \notin spoiled
      BY <1>0, <1>1 DEF TypeInv, Map
  <2>2. PICK m \in Up : x \in DOMAIN store[m]
      BY <1>0, <2>1 DEF HeldInv
  <2> QED BY <1>7, <2>1, <2>2
<1>9. ASSUME NEW w \in tasks, NEW v, v = w \/ (w = t /\ v = u) PROVE TaskOK(v)'
  <2>1. TaskOK(w) /\ w \in TaskType /\ w.at \in Node
      BY DEF Inv, TaskOK, TaskShape, TaskType
  <2>2. /\ v \in TaskType /\ v.kind = w.kind /\ v.at = w.at /\ v.node = w.node /\ v.pc = w.pc
        /\ v.data = w.data /\ v.moved \subseteq w.moved /\ v.targets = w.targets
        /\ w.moved = {} => v.moved = {}
      BY <1>9, <2>1 DEF TaskType
  <2>3. TaskShape(v)'
      BY <2>1, <2>2 DEF TaskOK, TaskShape
  <2>4. TaskAgrees(v)'
      BY <1>1, <2>1, <2>2 DEF TaskOK, TaskAgrees
  <2>5. TaskHeld(v)'
    <3> SUFFICES ASSUME NEW x \in v.moved \ spoiled', v.at # v.node
                 PROVE  \E n \in Up' : x \in DOMAIN store'[n] /\ Pos(x, n)' < Pos(x, v.at)'
        BY DEF TaskHeld
    <3>1. x \in w.moved \ spoiled /\ x \in Key \ spoiled' /\ w.at # w.node
        BY <1>1, <2>1, <2>2 DEF TaskType
    <3>2. PICK m \in Up : x \in DOMAIN store[m] /\ Pos(x, m) < Pos(x, w.at)
        BY <2>1, <3>1 DEF TaskOK, TaskHeld
    <3>3. PICK n \in Up' : x \in DOMAIN store'[n] /\ Pos(x, n) =< Pos(x, m)
        BY <1>7, <3>1, <3>2
    <3>4. n \in Node /\ m \in Node
        BY <1>3, <3>2, <3>3 DEF Up
    <3>5. Pos(x, n)' < Pos(x, w.at)'
        BY <1>6, <2>1, <3>1, <3>2, <3>3, <3>4
    <3> QED BY <2>2, <3>3, <3>5
  <2> QED BY <2>3, <2>4, <2>5 DEF TaskOK
<1>10. \A v \in tasks' : TaskOK(v)'
    BY <1>1, <1>9
<1> QED BY <1>3, <1>5, <1>8, <1>10 DEF Inv

LEMMA ClusterStep == ASSUME Inv, [Next]_vars PROVE Inv'
<1>1. CASE UNCHANGED vars
    BY <1>1, TasksStep DEF vars, nodeVars, callVars, history, Inv, TypeInv
<1>2. CASE \E n \in Node : Notifies(n)
    BY <1>2, NotifyStep DEF Notifies, notifyNodeJoin, notifyNodeLeave
<1>3. CASE \E t \in tasks : TaskStep(t) \/ TimesOut(t) \/ \E k \in Key : PutFails(t, k)
    BY <1>3, AddStep, RemoveStep, TaskOnlyStep, MigrateStep, DeleteStep, PutFailsStep DEF TaskStep
<1>4. CASE \/ \E n \in Node : \/ \E r \in Requests : Route(n, r)
                              \/ performHealthCheck(n) \/ ForwardFails(n)
                              \/ Start(n) \/ Leave(n) \/ Exit(n) \/ Crash(n)
           \/ Execute \/ CallFails
    BY <1>4, RouteStep, CheckStep, StartStep, LeaveStep, EndStep, ExecuteStep
<1> QED BY <1>1, <1>2, <1>3, <1>4 DEF Next

LEMMA ClusterInit == ASSUME Init PROVE Inv
<1>1. acked \in Map /\ DOMAIN acked \subseteq Key
    BY DEF Init, Map
<1>2. \A n \in Node : /\ store[n] = Restrict(acked, {k \in DOMAIN acked : n = Owner(k, Running)})
    BY DEF Init, RestrictDomain
<1>3. ASSUME NEW n \in Node
      PROVE  /\ store[n] \in Map
             /\ DOMAIN store[n] = {k \in DOMAIN acked : n = Owner(k, Running)}
             /\ \A k \in DOMAIN store[n] : store[n][k] = acked[k]
  <2> DEFINE S == {k \in DOMAIN acked : n = Owner(k, Running)}
  <2>1. S \in SUBSET Key /\ S \subseteq DOMAIN acked /\ \A k \in S : acked[k] \in Value
      BY <1>1, MapLemma
  <2>2. store[n] = [k \in S |-> acked[k]]
      BY <1>2 DEF Restrict
  <2> HIDE DEF S
  <2>3. store[n] \in [S -> Value]
      BY <2>1, <2>2
  <2>4. store[n] \in Map
      BY <2>1, <2>3 DEF Map
  <2> QED BY <2>2, <2>4 DEF S
<1>4. TypeInv
  <2>1. store \in [Node -> Map]
      BY <1>3 DEF Init
  <2> QED BY <1>1, <2>1, ConfigLemma, AnnouncementsLemma, ConfigAssumption DEF Init, TypeInv
<1>5. SelfInv
    BY ConfigLemma, AnnouncementsLemma DEF Init, SelfInv
<1>6. AgreeInv
    BY <1>3 DEF AgreeInv
<1>7. HeldInv
  <2> SUFFICES ASSUME NEW k \in DOMAIN acked PROVE \E n \in Up : k \in DOMAIN store[n]
      BY DEF HeldInv
  <2>1. Owner(k, Running) \in Running
      BY <1>1, <1>4, OwnerLemma, NodesAssumption DEF TypeInv
  <2>2. Owner(k, Running) \in Up /\ Owner(k, Running) \in Node
      BY <2>1, NodesAssumption DEF Init, Up
  <2> QED BY <1>3, <2>2
<1> QED BY <1>4, <1>5, <1>6, <1>7 DEF Inv, Init

(***************************************************************************)
(* In every run of a cluster, whatever its size, its configuration and the *)
(* order of its ring, with any number of nodes joining, leaving and        *)
(* crashing at once and any requests and answers lost, a value whose write *)
(* was completed outside a change is held by a running node                *)
(* (performNetworkDataMigration deletes only what has arrived).            *)
(***************************************************************************)
THEOREM CopiesSafe == Spec => []CopySurvives
<1>1. Init => Inv
    BY ClusterInit
<1>2. Inv /\ [Next]_vars => Inv'
    BY ClusterStep
<1>3. Inv => CopySurvives
    BY DEF Inv, HeldInv, AgreeInv, CopySurvives, Up
<1> QED BY <1>1, <1>2, <1>3, PTL DEF Spec

-----------------------------------------------------------------------------
(***************************************************************************)
(* Node c comes and goes, the others stay (OnlyMoves).  FrameInv is what   *)
(* holds of all requests, faults or not: they are about c, announcements   *)
(* come from c and broadcasts from the others.                             *)
(***************************************************************************)
Others(c) == Node \ {c}

ViewTask(c, t) ==
    /\ t.node = c
    /\ t.kind \in {"join", "leave"} => t.from = c /\ t.at # c
    /\ t.kind \in {"sync-add", "sync-remove"} => t.from \in Others(c) /\ t.pc # "broadcast"
    /\ \A x, y \in t.moved : x = y

FrameInv(c) ==
    /\ faults \in Nat
    /\ ring[c] = Node /\ members[c] = Others(c)
    /\ \A m \in Others(c) : phase[m] = "running" /\ notify[m] = {} /\ Others(c) \subseteq ring[m]
    /\ \A t \in tasks : ViewTask(c, t)

(***************************************************************************)
(* Without a fault, and when no node left too early: every sender waits    *)
(* for its answer, what is broadcast is broadcast by someone, and whoever  *)
(* has not heard of the arrival or the departure of c is going to.         *)
(***************************************************************************)
Clean == faults = 0 /\ ~overtaken

Announced(c, kind, m) ==
    \/ <<kind, m>> \in notify[c]
    \/ \E t \in tasks : t.kind = kind /\ t.at = m /\ t.pc = "wait"

Broadcasts(kind, m) == \E t \in tasks : t.kind = kind /\ t.at = m /\ t.pc = "broadcast"

HeardInv ==
    \A t \in tasks : /\ t.heard
                     /\ t.kind = "sync-add" => Broadcasts("join", t.from)
                     /\ t.kind = "sync-remove" => Broadcasts("leave", t.from)

JoinInv(c) ==
    phase[c] = "running" =>
        /\ \A t \in tasks : t.kind \in {"join", "sync-add"}
        /\ \A m \in Others(c) : <<"leave", m>> \notin notify[c]
        /\ \A m \in Others(c) : c \in ring[m] \/ Announced(c, "join", m)

LeaveInv(c) ==
    phase[c] = "leaving" =>
        /\ \A t \in tasks : t.kind \in {"leave", "sync-remove"}
        /\ \A m \in Others(c) : <<"join", m>> \notin notify[c]
        /\ \A m \in Others(c) : c \notin ring[m] \/ Announced(c, "leave", m)

GoneInv(c) ==
    /\ phase[c] \in {"down", "crashed"} => tasks = {} /\ notify[c] = {}
    /\ phase[c] = "down" => \A m \in Others(c) : c \notin ring[m]

CleanInv(c) == HeardInv /\ JoinInv(c) /\ LeaveInv(c) /\ GoneInv(c)

ViewInv(c) == FrameInv(c) /\ (Clean => CleanInv(c))

(* Steps that neither the rings nor the requests see *)
LEMMA StillView ==
    ASSUME NEW c \in Node, ViewInv(c),
           UNCHANGED <<phase, ring, members, notify, tasks, faults, overtaken>>
    PROVE  ViewInv(c)'
<1>1. FrameInv(c)'
    BY DEF ViewInv, FrameInv, ViewTask
<1>2. Clean' => CleanInv(c)'
    BY DEF ViewInv, Clean, CleanInv, HeardInv, JoinInv, LeaveInv, GoneInv, Announced, Broadcasts
<1> QED BY <1>1, <1>2 DEF ViewInv

LEMMA StartView ==
    ASSUME NEW c \in Node, OnlyMoves(c), Inv, ViewInv(c), NEW n \in Node, Start(n)
    PROVE  ViewInv(c)'
<1>1. /\ n = c /\ phase[c] \in {"down", "crashed"}
      /\ phase' = [phase EXCEPT ![c] = "running"] /\ ring' = [ring EXCEPT ![c] = Node]
      /\ members' = [members EXCEPT ![c] = Others(c)]
      /\ notify' = [notify EXCEPT ![c] = {"join"} \X Others(c)]
      /\ UNCHANGED <<tasks, faults, overtaken>>
    BY DEF Start, OnlyMoves, Configure, NewDistributedNode, NewClusterManager, StartManager,
           Announcements, Others, Up, Inv, TypeInv
<1>2. FrameInv(c)'
    BY <1>1 DEF ViewInv, FrameInv, ViewTask, Others, Inv, TypeInv
<1>3. ASSUME Clean' PROVE CleanInv(c)'
  <2>1. tasks' = {} /\ phase'[c] = "running" /\ notify'[c] = {"join"} \X Others(c)
      BY <1>1, <1>3 DEF ViewInv, Clean, CleanInv, GoneInv, Inv, TypeInv
  <2>2. JoinInv(c)'
      BY <2>1 DEF JoinInv, Announced
  <2> QED BY <2>1, <2>2 DEF CleanInv, HeardInv, LeaveInv, GoneInv
<1> QED BY <1>2, <1>3 DEF ViewInv

LEMMA LeaveView ==
    ASSUME NEW c \in Node, OnlyMoves(c), Inv, ViewInv(c), NEW n \in Node, Leave(n)
    PROVE  ViewInv(c)'
<1>1. /\ n = c /\ phase[c] = "running" /\ phase' = [phase EXCEPT ![c] = "leaving"]
      /\ notify' = [notify EXCEPT ![c] = @ \cup {"leave"} \X Others(c)]
      /\ overtaken' = (overtaken \/ Announcing(c))
      /\ UNCHANGED <<ring, members, tasks, faults>>
    BY DEF Leave, OnlyMoves, ViewInv, FrameInv
<1>2. FrameInv(c)'
    BY <1>1 DEF ViewInv, FrameInv, ViewTask, Others, Inv, TypeInv
<1>3. ASSUME Clean' PROVE CleanInv(c)'
  <2>1. notify[c] = {} /\ tasks = {}
      BY <1>1, <1>3 DEF Clean, Announcing, ViewInv, FrameInv, ViewTask
  <2>2. tasks' = {} /\ phase'[c] = "leaving" /\ notify'[c] = {"leave"} \X Others(c)
      BY <1>1, <2>1 DEF Inv, TypeInv
  <2>3. LeaveInv(c)'
      BY <2>2 DEF LeaveInv, Announced
  <2> QED BY <2>2, <2>3 DEF CleanInv, HeardInv, JoinInv, GoneInv
<1> QED BY <1>2, <1>3 DEF ViewInv

(***************************************************************************)
(* Node c ends.  The process waits for what it has announced, and without  *)
(* faults no request about it is left.                                     *)
(***************************************************************************)
LEMMA DownView ==
    ASSUME NEW c \in Node, OnlyMoves(c), Inv, NEW p \in {"down", "crashed"}, Down(c, p)
    PROVE  /\ phase' = [phase EXCEPT ![c] = p] /\ phase'[c] = p
           /\ ring' = [ring EXCEPT ![c] = Node] /\ members' = [members EXCEPT ![c] = Others(c)]
           /\ notify' = [notify EXCEPT ![c] = {}] /\ notify'[c] = {}
BY DEF Down, OnlyMoves, Configure, NewDistributedNode, NewClusterManager, Others, Inv, TypeInv

LEMMA ExitView ==
    ASSUME NEW c \in Node, OnlyMoves(c), Inv, ViewInv(c), NEW n \in Node, Exit(n)
    PROVE  ViewInv(c)'
<1>1. n = c /\ phase[c] = "leaving" /\ Down(c, "down") /\ UNCHANGED <<tasks, faults, overtaken>>
    BY DEF Exit, ViewInv, FrameInv, Others
<1>2. /\ phase' = [phase EXCEPT ![c] = "down"] /\ phase'[c] = "down"
      /\ ring' = [ring EXCEPT ![c] = Node] /\ members' = [members EXCEPT ![c] = Others(c)]
      /\ notify' = [notify EXCEPT ![c] = {}] /\ notify'[c] = {}
    BY <1>1, DownView
<1>3. FrameInv(c)'
    BY <1>1, <1>2 DEF ViewInv, FrameInv, ViewTask, Others, Inv, TypeInv
<1>4. ASSUME Clean' PROVE CleanInv(c)'
  <2>1. CleanInv(c)
      BY <1>1, <1>4 DEF ViewInv, Clean
  <2>2. \A t \in tasks : t.kind # "leave"
      BY <1>1, <2>1 DEF CleanInv, HeardInv, Exit, Waits, ViewInv, FrameInv, ViewTask
  <2>3. tasks = {}
      BY <1>1, <2>1, <2>2 DEF CleanInv, HeardInv, LeaveInv, Broadcasts
  <2>4. \A m \in Others(c) : c \notin ring[m]
      BY <1>1, <2>1, <2>3 DEF CleanInv, LeaveInv, Announced, Exit, Others
  <2>5. \A m \in Others(c) : c \notin ring'[m]
      BY <1>2, <2>4 DEF Others, Inv, TypeInv
  <2> QED BY <1>1, <1>2, <2>3, <2>5 DEF CleanInv, HeardInv, JoinInv, LeaveInv, GoneInv
<1> QED BY <1>3, <1>4 DEF ViewInv

LEMMA CrashView ==
    ASSUME NEW c \in Node, OnlyMoves(c), Inv, ViewInv(c), NEW n \in Node, Crash(n)
    PROVE  ViewInv(c)'
<1>1. /\ n = c /\ Down(c, "crashed") /\ overtaken' = overtaken
      /\ tasks' = {[t EXCEPT !.heard = @ /\ t.from # c] : t \in {u \in tasks : u.at # c}}
      /\ faults' = IF Announcing(c) THEN faults + 1 ELSE faults
    BY DEF Crash, OnlyMoves
<1>2. /\ phase' = [phase EXCEPT ![c] = "crashed"] /\ phase'[c] = "crashed"
      /\ ring' = [ring EXCEPT ![c] = Node] /\ members' = [members EXCEPT ![c] = Others(c)]
      /\ notify' = [notify EXCEPT ![c] = {}] /\ notify'[c] = {}
    BY <1>1, DownView
<1>3. ASSUME NEW t \in tasks' PROVE ViewTask(c, t)
  <2>1. PICK u \in tasks : t = [u EXCEPT !.heard = @ /\ u.from # c]
      BY <1>1
  <2>2. u \in TaskType /\ ViewTask(c, u)
      BY DEF Inv, TaskOK, TaskShape, ViewInv, FrameInv
  <2>3. /\ t.kind = u.kind /\ t.at = u.at /\ t.node = u.node /\ t.from = u.from
        /\ t.pc = u.pc /\ t.moved = u.moved
      BY <2>1, <2>2 DEF TaskType
  <2> QED BY <2>2, <2>3 DEF ViewTask
<1>4. FrameInv(c)'
    BY <1>1, <1>2, <1>3 DEF ViewInv, FrameInv, ViewTask, Others, Inv, TypeInv
<1>5. ASSUME Clean' PROVE CleanInv(c)'
  <2>1. faults \in Nat
      BY DEF ViewInv, FrameInv
  <2>2. ~Announcing(c)
      BY <1>1, <1>5, <2>1 DEF Clean
  <2>3. tasks = {}
      BY <2>2 DEF Announcing, ViewInv, FrameInv, ViewTask
  <2>4. tasks' = {}
      BY <1>1, <2>3
  <2> QED BY <1>2, <2>4 DEF CleanInv, HeardInv, JoinInv, LeaveInv, GoneInv
<1> QED BY <1>4, <1>5 DEF ViewInv

LEMMA NotifyView ==
    ASSUME NEW c \in Node, Inv, ViewInv(c), NEW n \in Node, NEW kind \in {"join", "leave"},
           NEW m \in Node, Notify(n, kind, m)
    PROVE  ViewInv(c)'
<1> DEFINE u == Task(kind, m, c, c)
<1>1. n = c /\ <<kind, m>> \in notify[c] /\ m # c
    BY DEF Notify, ViewInv, FrameInv, Others, Inv, SelfInv
<1>2. phase[m] = "running" /\ m \in Others(c)
    BY <1>1 DEF ViewInv, FrameInv, Others
<1>3. /\ notify' = [notify EXCEPT ![c] = @ \ {<<kind, m>>}] /\ tasks' = tasks \cup {u}
      /\ UNCHANGED <<phase, ring, members, faults, overtaken>>
    BY <1>1, <1>2 DEF Notify, Up, nodeVars, history
<1>4. /\ u.kind = kind /\ u.at = m /\ u.node = c /\ u.from = c /\ u.pc = "wait" /\ u.moved = {}
      /\ u.heard
    BY DEF Task
<1> HIDE DEF u
<1>5. ViewTask(c, u)
    BY <1>1, <1>4 DEF ViewTask
<1>6. /\ \A x \in Others(c) : notify'[x] = notify[x]
      /\ notify'[c] = notify[c] \ {<<kind, m>>}
    BY <1>3 DEF Others, Inv, TypeInv
<1>7. FrameInv(c)'
    BY <1>3, <1>5, <1>6 DEF ViewInv, FrameInv, ViewTask
<1>8. ASSUME Clean' PROVE CleanInv(c)'
  <2>1. CleanInv(c)
      BY <1>3, <1>8 DEF ViewInv, Clean
  <2>2. HeardInv'
      BY <1>3, <1>4, <2>1 DEF CleanInv, HeardInv, Broadcasts
  <2>3. \A x \in Others(c), a \in {"join", "leave"} : Announced(c, a, x) => Announced(c, a, x)'
      BY <1>3, <1>4, <1>6 DEF Announced
  <2>4. JoinInv(c)'
    <3>1. phase[c] = "running" => kind = "join"
        BY <1>1, <1>2, <2>1 DEF CleanInv, JoinInv
    <3> QED BY <1>3, <1>4, <1>6, <2>1, <2>3, <3>1 DEF CleanInv, JoinInv
  <2>5. LeaveInv(c)'
    <3>1. phase[c] = "leaving" => kind = "leave"
        BY <1>1, <1>2, <2>1 DEF CleanInv, LeaveInv
    <3> QED BY <1>3, <1>4, <1>6, <2>1, <2>3, <3>1 DEF CleanInv, LeaveInv
  <2>6. GoneInv(c)'
      BY <1>1, <1>3, <2>1 DEF CleanInv, GoneInv
  <2> QED BY <2>2, <2>4, <2>5, <2>6 DEF CleanInv
<1> QED BY <1>7, <1>8 DEF ViewInv

(***************************************************************************)
(* What a step of request t may do to the rings: at its node, and only add *)
(* or only remove c.                                                       *)
(***************************************************************************)
RingsFollow(c, t) ==
    /\ ring'[c] = Node /\ members'[c] = Others(c)
    /\ \A m \in Others(c) :
          /\ Others(c) \subseteq ring'[m]
          /\ m # t.at => ring'[m] = ring[m]
          /\ t.kind \in {"join", "sync-add"} /\ c \in ring[m] => c \in ring'[m]
          /\ t.kind \in {"leave", "sync-remove"} /\ c \notin ring[m] => c \notin ring'[m]

(* Request t goes on as u, and sends at most a part of its broadcast. *)
LEMMA ReplaceView ==
    ASSUME NEW c \in Node, ViewInv(c), NEW t \in tasks, NEW u, ViewTask(c, u), RingsFollow(c, t),
           t.kind \in {"join", "leave", "sync-add", "sync-remove"},
           u.kind = t.kind, u.at = t.at, u.heard = t.heard, u.from = t.from,
           t.pc = "broadcast" => u.pc = "broadcast",
           \/ t.pc # "wait" \/ u.pc = "wait"
           \/ t.kind = "join" /\ c \in ring'[t.at]
           \/ t.kind = "leave" /\ c \notin ring'[t.at]
           \/ t.kind = "sync-add",
           u \in tasks', \A w \in tasks \ {t} : w \in tasks',
           \A w \in tasks' :
              \/ w \in tasks \/ w = u
              \/ /\ w.kind = SyncKind(t) /\ w.from = t.at /\ w.heard /\ ViewTask(c, w)
                 /\ u.pc = "broadcast" /\ t.kind \in {"join", "leave"},
           UNCHANGED <<phase, notify, faults, overtaken>>
    PROVE  ViewInv(c)'
<1>1. FrameInv(c)'
    BY DEF ViewInv, FrameInv, RingsFollow, ViewTask
<1>2. ASSUME Clean' PROVE CleanInv(c)'
  <2>1. HeardInv /\ JoinInv(c) /\ LeaveInv(c) /\ GoneInv(c)
      BY <1>2 DEF ViewInv, Clean, CleanInv
  <2>2. ASSUME NEW kind, NEW m, Broadcasts(kind, m) PROVE Broadcasts(kind, m)'
      BY <2>2 DEF Broadcasts
  <2>3. HeardInv'
    <3> SUFFICES ASSUME NEW w \in tasks'
                 PROVE  /\ w.heard
                        /\ w.kind = "sync-add" => Broadcasts("join", w.from)'
                        /\ w.kind = "sync-remove" => Broadcasts("leave", w.from)'
        BY DEF HeardInv
    <3>1. CASE w \in tasks
        BY <2>1, <2>2, <3>1 DEF HeardInv
    <3>2. CASE w = u
        BY <2>1, <2>2, <3>2 DEF HeardInv
    <3>3. CASE /\ w.kind = SyncKind(t) /\ w.from = t.at /\ w.heard
               /\ u.pc = "broadcast" /\ t.kind \in {"join", "leave"}
        BY <3>3 DEF Broadcasts, SyncKind
    <3> QED BY <3>1, <3>2, <3>3
  <2>4. \A w \in tasks' : (w.kind \in {"join", "sync-add"} <=> t.kind \in {"join", "sync-add"})
                           \/ w \in tasks
      BY DEF SyncKind
  <2>5. JoinInv(c)'
    <3> SUFFICES ASSUME phase[c] = "running" PROVE JoinInv(c)'
        BY DEF JoinInv
    <3>1. t.kind \in {"join", "sync-add"}
        BY <2>1 DEF JoinInv
    <3>2. \A w \in tasks' : w.kind \in {"join", "sync-add"}
        BY <2>1, <2>4, <3>1 DEF JoinInv
    <3>3. ASSUME NEW m \in Others(c), Announced(c, "join", m)
          PROVE  c \in ring'[m] \/ Announced(c, "join", m)'
      <4>1. CASE <<"join", m>> \in notify[c]
          BY <4>1 DEF Announced
      <4>2. CASE \E w \in tasks : w.kind = "join" /\ w.at = m /\ w.pc = "wait"
        <5>1. PICK w \in tasks : w.kind = "join" /\ w.at = m /\ w.pc = "wait"
            BY <4>2
        <5>2. CASE w # t
            BY <5>1, <5>2 DEF Announced
        <5>3. CASE w = t
            BY <5>1, <5>3 DEF Announced
        <5> QED BY <5>2, <5>3
      <4> QED BY <3>3, <4>1, <4>2 DEF Announced
    <3>4. \A m \in Others(c) : c \in ring'[m] \/ Announced(c, "join", m)'
        BY <2>1, <3>1, <3>3 DEF JoinInv, RingsFollow
    <3> QED BY <2>1, <3>2, <3>4 DEF JoinInv
  <2>6. LeaveInv(c)'
    <3> SUFFICES ASSUME phase[c] = "leaving" PROVE LeaveInv(c)'
        BY DEF LeaveInv
    <3>1. t.kind \in {"leave", "sync-remove"}
        BY <2>1 DEF LeaveInv
    <3>2. \A w \in tasks' : w.kind \in {"leave", "sync-remove"}
        BY <2>1, <3>1 DEF LeaveInv, SyncKind
    <3>3. ASSUME NEW m \in Others(c), Announced(c, "leave", m)
          PROVE  c \notin ring'[m] \/ Announced(c, "leave", m)'
      <4>1. CASE <<"leave", m>> \in notify[c]
          BY <4>1 DEF Announced
      <4>2. CASE \E w \in tasks : w.kind = "leave" /\ w.at = m /\ w.pc = "wait"
        <5>1. PICK w \in tasks : w.kind = "leave" /\ w.at = m /\ w.pc = "wait"
            BY <4>2
        <5>2. CASE w # t
            BY <5>1, <5>2 DEF Announced
        <5>3. CASE w = t
            BY <5>1, <5>3 DEF Announced
        <5> QED BY <5>2, <5>3
      <4> QED BY <3>3, <4>1, <4>2 DEF Announced
    <3>4. \A m \in Others(c) : c \notin ring'[m] \/ Announced(c, "leave", m)'
        BY <2>1, <3>1, <3>3 DEF LeaveInv, RingsFollow
    <3> QED BY <2>1, <3>2, <3>4 DEF LeaveInv
  <2>7. GoneInv(c)'
      BY <2>1 DEF GoneInv
  <2> QED BY <2>3, <2>5, <2>6, <2>7 DEF CleanInv
<1> QED BY <1>1, <1>2 DEF ViewInv

(* Request t is answered: nobody is still to hear of c through it. *)
LEMMA ReplyView ==
    ASSUME NEW c \in Node, ViewInv(c), NEW t \in tasks, RingsFollow(c, t),
           t.kind \in {"join", "leave", "sync-add", "sync-remove"},
           t.pc = "broadcast" => Answered(t),
           t.pc = "wait" /\ t.kind = "join" => c \in ring'[t.at],
           t.pc = "wait" /\ t.kind = "leave" => c \notin ring'[t.at],
           tasks' = tasks \ {t},
           UNCHANGED <<phase, notify, faults, overtaken>>
    PROVE  ViewInv(c)'
<1>0. FrameInv(c) /\ \A w \in tasks : ViewTask(c, w)
    BY DEF ViewInv, FrameInv
<1>1. FrameInv(c)'
    BY <1>0 DEF FrameInv, RingsFollow, ViewTask
<1>2. ASSUME Clean' PROVE CleanInv(c)'
  <2>1. HeardInv /\ JoinInv(c) /\ LeaveInv(c) /\ GoneInv(c)
      BY <1>2 DEF ViewInv, Clean, CleanInv
  <2>2. HeardInv'
    <3> SUFFICES ASSUME NEW w \in tasks, w # t
                 PROVE  /\ w.heard
                        /\ w.kind = "sync-add" => Broadcasts("join", w.from)'
                        /\ w.kind = "sync-remove" => Broadcasts("leave", w.from)'
        BY DEF HeardInv
    <3>1. w.heard /\ w.node = c /\ t.node = c
        BY <1>0, <2>1 DEF HeardInv, ViewTask
    <3>2. ASSUME w.kind = "sync-add" PROVE Broadcasts("join", w.from)'
      <4>1. PICK b \in tasks : b.kind = "join" /\ b.at = w.from /\ b.pc = "broadcast"
          BY <2>1, <3>2 DEF HeardInv, Broadcasts
      <4>2. b # t
          BY <3>1, <3>2, <4>1 DEF Answered, SyncKind
      <4> QED BY <4>1, <4>2 DEF Broadcasts
    <3>3. ASSUME w.kind = "sync-remove" PROVE Broadcasts("leave", w.from)'
      <4>1. PICK b \in tasks : b.kind = "leave" /\ b.at = w.from /\ b.pc = "broadcast"
          BY <2>1, <3>3 DEF HeardInv, Broadcasts
      <4>2. b # t
          BY <3>1, <3>3, <4>1 DEF Answered, SyncKind
      <4> QED BY <4>1, <4>2 DEF Broadcasts
    <3> QED BY <3>1, <3>2, <3>3
  <2>3. JoinInv(c)'
    <3> SUFFICES ASSUME phase[c] = "running" PROVE JoinInv(c)'
        BY DEF JoinInv
    <3>1. t.kind \in {"join", "sync-add"}
        BY <2>1 DEF JoinInv
    <3>2. ASSUME NEW m \in Others(c), Announced(c, "join", m)
          PROVE  c \in ring'[m] \/ Announced(c, "join", m)'
        BY <3>2 DEF Announced
    <3>3. \A m \in Others(c) : c \in ring'[m] \/ Announced(c, "join", m)'
        BY <2>1, <3>1, <3>2 DEF JoinInv, RingsFollow
    <3> QED BY <2>1, <3>3 DEF JoinInv
  <2>4. LeaveInv(c)'
    <3> SUFFICES ASSUME phase[c] = "leaving" PROVE LeaveInv(c)'
        BY DEF LeaveInv
    <3>1. t.kind \in {"leave", "sync-remove"}
        BY <2>1 DEF LeaveInv
    <3>2. ASSUME NEW m \in Others(c), Announced(c, "leave", m)
          PROVE  c \notin ring'[m] \/ Announced(c, "leave", m)'
        BY <3>2 DEF Announced
    <3>3. \A m \in Others(c) : c \notin ring'[m] \/ Announced(c, "leave", m)'
        BY <2>1, <3>1, <3>2 DEF LeaveInv, RingsFollow
    <3> QED BY <2>1, <3>3 DEF LeaveInv
  <2>5. GoneInv(c)'
      BY <2>1 DEF GoneInv
  <2> QED BY <2>2, <2>3, <2>4, <2>5 DEF CleanInv
<1> QED BY <1>1, <1>2 DEF ViewInv

(* A request as the two invariants describe it *)
LEMMA TaskFacts ==
    ASSUME NEW c \in Node, Inv, ViewInv(c), NEW t \in tasks
    PROVE  /\ t \in TaskType /\ TaskShape(t) /\ ViewTask(c, t) /\ t.node = c /\ t.at \in Node
           /\ t.kind \in {"join", "leave", "sync-add", "sync-remove"}
BY DEF Inv, TaskOK, TaskShape, TaskType, ViewInv, FrameInv, ViewTask

LEMMA SameRings ==
    ASSUME NEW c \in Node, ViewInv(c), NEW t, UNCHANGED <<ring, members>>
    PROVE  RingsFollow(c, t)
BY DEF ViewInv, FrameInv, RingsFollow

(* A migration goes on, or ends. *)
LEMMA MigrationView ==
    ASSUME NEW c \in Node, Inv, ViewInv(c), NEW t \in tasks,
           \/ \E k \in Key : SkipKey(t, k) \/ migrateKeyToNode(t, k) \/ DeleteMoved(t, k)
           \/ EndMigration(t)
    PROVE  ViewInv(c)'
<1>0. /\ t \in TaskType /\ TaskShape(t) /\ ViewTask(c, t)
      /\ t.kind \in {"join", "leave", "sync-add", "sync-remove"}
    BY TaskFacts
<1>1. UNCHANGED <<phase, ring, members, notify, faults, overtaken>> /\ t.pc = "move"
    BY DEF SkipKey, migrateKeyToNode, DeleteMoved, EndMigration, nodeVars, history
<1>2. RingsFollow(c, t)
    BY <1>1, SameRings
<1>3. ASSUME NEW u, ViewTask(c, u), u.kind = t.kind, u.at = t.at, u.heard = t.heard,
             u.from = t.from, tasks' = (tasks \ {t}) \cup {u}
      PROVE  ViewInv(c)'
  <2>1. /\ u \in tasks' /\ \A w \in tasks \ {t} : w \in tasks'
        /\ \A w \in tasks' : w \in tasks \/ w = u
      BY <1>3
  <2> QED BY <1>0, <1>1, <1>2, <1>3, <2>1, ReplaceView
<1>4. CASE \E k \in Key : SkipKey(t, k) \/ migrateKeyToNode(t, k) \/ DeleteMoved(t, k)
  <2>1. PICK k \in Key : SkipKey(t, k) \/ migrateKeyToNode(t, k) \/ DeleteMoved(t, k)
      BY <1>4
  <2>2. PICK u \in {[t EXCEPT !.data = Without(@, k)],
                    [t EXCEPT !.data = Without(@, k), !.moved = {k}],
                    [t EXCEPT !.moved = {}]} : tasks' = (tasks \ {t}) \cup {u}
      BY <2>1 DEF SkipKey, migrateKeyToNode, DeleteMoved, Replace
  <2>3. /\ u.kind = t.kind /\ u.at = t.at /\ u.node = t.node /\ u.from = t.from /\ u.pc = t.pc
        /\ u.heard = t.heard /\ u.moved \in {t.moved, {k}, {}}
      BY <1>0, <2>2 DEF TaskType
  <2>4. ViewTask(c, u)
      BY <1>0, <2>3 DEF ViewTask
  <2> QED BY <1>3, <2>2, <2>3, <2>4
<1>5. CASE EndMigration(t)
  <2>1. CASE t.kind = "join"
    <3>1. PICK u : /\ u = [t EXCEPT !.pc = "broadcast", !.targets = broadcastTargets(t.at)]
                   /\ tasks' = (tasks \ {t}) \cup {u}
        BY <1>5, <2>1 DEF EndMigration, Replace
    <3>2. /\ u.kind = t.kind /\ u.at = t.at /\ u.node = t.node /\ u.from = t.from
          /\ u.heard = t.heard /\ u.moved = t.moved
        BY <1>0, <3>1 DEF TaskType
    <3>3. ViewTask(c, u)
        BY <1>0, <2>1, <3>2 DEF ViewTask
    <3> QED BY <1>3, <3>1, <3>2, <3>3
  <2>2. CASE t.kind # "join"
    <3>1. tasks' = tasks \ {t}
        BY <1>5, <2>2 DEF EndMigration, Reply
    <3> QED BY <1>0, <1>1, <1>2, <3>1, ReplyView
  <2> QED BY <2>1, <2>2
<1> QED BY <1>4, <1>5

(* A broadcast goes on, or ends. *)
LEMMA BroadcastView ==
    ASSUME NEW c \in Node, Inv, ViewInv(c), NEW t \in tasks,
           EndBroadcast(t) \/ \E m \in Node : sendNodeChangeRequest(t, m)
    PROVE  ViewInv(c)'
<1>0. /\ t \in TaskType /\ TaskShape(t) /\ ViewTask(c, t) /\ t.node = c /\ t.at \in Node
      /\ t.kind \in {"join", "leave", "sync-add", "sync-remove"}
    BY TaskFacts
<1>1. /\ UNCHANGED <<phase, ring, members, notify, faults, overtaken>>
      /\ t.pc = "broadcast" /\ Answered(t)
    BY DEF EndBroadcast, sendNodeChangeRequest, nodeVars, history
<1>2. RingsFollow(c, t)
    BY <1>1, SameRings
<1>3. CASE EndBroadcast(t)
  <2>1. tasks' = tasks \ {t}
      BY <1>3 DEF EndBroadcast, Reply
  <2> QED BY <1>0, <1>1, <1>2, <2>1, ReplyView
<1>4. ASSUME NEW m \in Node, sendNodeChangeRequest(t, m) PROVE ViewInv(c)'
  <2>1. PICK u : /\ u = [t EXCEPT !.targets = @ \ {m}]
                 /\ tasks' = (tasks \ {t}) \cup {u}
                               \cup {Task(SyncKind(t), x, t.node, t.at) : x \in {m} \cap Up}
      BY <1>4 DEF sendNodeChangeRequest
  <2>2. /\ u.kind = t.kind /\ u.at = t.at /\ u.node = t.node /\ u.from = t.from /\ u.pc = t.pc
        /\ u.heard = t.heard /\ u.moved = t.moved
      BY <1>0, <2>1 DEF TaskType
  <2>3. ViewTask(c, u)
      BY <1>0, <2>2 DEF ViewTask
  <2>4. t.kind \in {"join", "leave"} /\ t.at \in Others(c)
      BY <1>0, <1>1 DEF ViewTask, Others
  <2>5. ASSUME NEW w \in {Task(SyncKind(t), x, t.node, t.at) : x \in {m} \cap Up}
        PROVE  w.kind = SyncKind(t) /\ w.from = t.at /\ w.heard /\ ViewTask(c, w)
    <3>1. /\ w.kind = SyncKind(t) /\ w.from = t.at /\ w.heard /\ w.node = c
          /\ w.pc = "wait" /\ w.moved = {}
        BY <1>0, <2>5 DEF Task
    <3>2. w.kind \in {"sync-add", "sync-remove"}
        BY <3>1 DEF SyncKind
    <3> QED BY <2>4, <3>1, <3>2 DEF ViewTask
  <2>6. /\ u \in tasks' /\ \A w \in tasks \ {t} : w \in tasks'
        /\ \A w \in tasks' : w \in tasks \/ w = u
              \/ w \in {Task(SyncKind(t), x, t.node, t.at) : x \in {m} \cap Up}
      BY <2>1
  <2>7. \A w \in tasks' : \/ w \in tasks \/ w = u
                          \/ /\ w.kind = SyncKind(t) /\ w.from = t.at /\ w.heard /\ ViewTask(c, w)
                             /\ u.pc = "broadcast" /\ t.kind \in {"join", "leave"}
      BY <1>1, <2>2, <2>4, <2>5, <2>6
  <2> QED BY <1>0, <1>1, <1>2, <2>2, <2>3, <2>6, <2>7, ReplaceView
<1> QED BY <1>3, <1>4

LEMMA AddView ==
    ASSUME NEW c \in Node, Inv, ViewInv(c), NEW t \in tasks, AddNodeToCluster(t) \/ SyncAddNode(t)
    PROVE  ViewInv(c)'
<1>0. /\ t \in TaskType /\ TaskShape(t) /\ ViewTask(c, t) /\ t.node = c /\ t.at \in Node
      /\ t.kind \in {"join", "leave", "sync-add", "sync-remove"}
    BY TaskFacts
<1>1. /\ t.kind \in {"join", "sync-add"}
      /\ members' = [members EXCEPT ![t.at] = @ \cup ({c} \ {t.at})]
      /\ ring' = [ring EXCEPT ![t.at] = @ \cup {c}]
      /\ UNCHANGED <<phase, notify, faults, overtaken>>
  <2>1. ASSUME t.at # c PROVE ~Waits(t.at, "join") /\ notify[t.at] = {}
      BY <1>0, <2>1 DEF ViewInv, FrameInv, ViewTask, Others, Waits
  <2>2. MayMeet(t)
      BY DEF AddNodeToCluster, SyncAddNode, AddMember
  <2>3. PICK S \in SUBSET Unmet(t) : notify' = [notify EXCEPT ![t.at] = @ \cup {"join"} \X S]
      BY <2>2 DEF MayMeet
  <2>4. {"join"} \X S = {}
    <3>1. S = {}
        BY <1>0, <2>1, <2>3 DEF Unmet
    <3> QED BY <3>1
  <2>5. UNCHANGED notify
      BY <1>0, <2>3, <2>4 DEF Inv, TypeInv
  <2> QED BY <1>0, <2>5 DEF AddNodeToCluster, SyncAddNode, AddMember
<1>2. PICK u : /\ u = [t EXCEPT !.pc = "move", !.data = store[t.at]]
               /\ tasks' = (tasks \ {t}) \cup {u} /\ t.pc = "wait"
    BY DEF AddNodeToCluster, SyncAddNode, Snapshot, Replace
<1>3. /\ u.kind = t.kind /\ u.at = t.at /\ u.node = t.node /\ u.from = t.from /\ u.pc = "move"
      /\ u.heard = t.heard /\ u.moved = t.moved
    BY <1>0, <1>2 DEF TaskType
<1>4. ViewTask(c, u)
    BY <1>0, <1>3 DEF ViewTask
<1>5. RingsFollow(c, t) /\ c \in ring'[t.at]
    BY <1>0, <1>1 DEF RingsFollow, ViewInv, FrameInv, Others, Inv, TypeInv
<1>6. /\ u \in tasks' /\ \A w \in tasks \ {t} : w \in tasks'
      /\ \A w \in tasks' : w \in tasks \/ w = u
    BY <1>2
<1> QED BY <1>0, <1>1, <1>2, <1>3, <1>4, <1>5, <1>6, ReplaceView

LEMMA RemoveView ==
    ASSUME NEW c \in Node, Inv, ViewInv(c), NEW t \in tasks,
           RemoveNodeFromCluster(t) \/ SyncRemoveNode(t)
    PROVE  ViewInv(c)'
<1>0. /\ t \in TaskType /\ TaskShape(t) /\ ViewTask(c, t) /\ t.node = c /\ t.at \in Node
      /\ t.kind \in {"join", "leave", "sync-add", "sync-remove"}
    BY TaskFacts
<1>1. /\ t.kind \in {"leave", "sync-remove"} /\ t.at \in Others(c)
      /\ \/ c \notin ring[t.at] /\ UNCHANGED <<ring, members>>
         \/ /\ ring' = [ring EXCEPT ![t.at] = @ \ {c}]
            /\ members' = [members EXCEPT ![t.at] = @ \ {c}]
      /\ UNCHANGED <<phase, notify, faults, overtaken>>
  <2>1. t.kind \in {"leave", "sync-remove"} /\ t.at \in Others(c)
      BY <1>0 DEF RemoveNodeFromCluster, SyncRemoveNode, TaskShape, Others
  <2>2. notify[t.at] = {}
      BY <2>1 DEF ViewInv, FrameInv
  <2>3. UNCHANGED notify
    <3>1. UNCHANGED notify \/ notify' = [notify EXCEPT ![t.at] = {}]
        BY <2>2 DEF RemoveNodeFromCluster, SyncRemoveNode, RemoveMember, DoesNotMeet
    <3>2. notify = [n \in Node |-> notify[n]]
        BY DEF Inv, TypeInv
    <3> QED BY <2>2, <3>1, <3>2
  <2> QED BY <1>0, <2>1, <2>3 DEF RemoveNodeFromCluster, SyncRemoveNode, RemoveMember
<1>2. RingsFollow(c, t) /\ c \notin ring'[t.at]
    BY <1>0, <1>1 DEF RingsFollow, ViewInv, FrameInv, Others, Inv, TypeInv
<1>3. CASE tasks' = tasks \ {t} /\ t.pc # "broadcast"
    BY <1>0, <1>1, <1>2, <1>3, ReplyView
<1>4. CASE /\ t.kind = "leave"
           /\ Replace(t, [t EXCEPT !.pc = "broadcast", !.targets = broadcastTargets(t.at) \ {t.node}])
  <2>1. PICK u : /\ u = [t EXCEPT !.pc = "broadcast", !.targets = broadcastTargets(t.at) \ {t.node}]
                 /\ tasks' = (tasks \ {t}) \cup {u}
      BY <1>4 DEF Replace
  <2>2. /\ u.kind = t.kind /\ u.at = t.at /\ u.node = t.node /\ u.from = t.from
        /\ u.pc = "broadcast" /\ u.heard = t.heard /\ u.moved = t.moved
      BY <1>0, <2>1 DEF TaskType
  <2>3. ViewTask(c, u)
      BY <1>0, <1>4, <2>2 DEF ViewTask
  <2>4. /\ u \in tasks' /\ \A w \in tasks \ {t} : w \in tasks'
        /\ \A w \in tasks' : w \in tasks \/ w = u
      BY <2>1
  <2> QED BY <1>0, <1>1, <1>2, <1>4, <2>2, <2>3, <2>4, ReplaceView
<1>5. t.kind = "sync-remove" => t.pc # "broadcast"
    BY <1>0 DEF ViewTask
<1> QED BY <1>3, <1>4, <1>5 DEF RemoveNodeFromCluster, SyncRemoveNode, Reply

(* A fault: nothing is said of what it leaves behind. *)
LEMMA FaultView ==
    ASSUME NEW c \in Node, Inv, ViewInv(c), NEW t \in tasks,
           TimesOut(t) \/ \E k \in Key : PutFails(t, k)
    PROVE  ViewInv(c)'
<1>0. t \in TaskType /\ ViewTask(c, t) /\ faults \in Nat
    BY TaskFacts DEF ViewInv, FrameInv
<1>1. faults' = faults + 1 /\ UNCHANGED <<phase, ring, members, notify>>
    BY DEF TimesOut, PutFails, nodeVars
<1>2. ASSUME NEW w \in tasks' PROVE ViewTask(c, w)
  <2>1. CASE w \in tasks
      BY <2>1 DEF ViewInv, FrameInv
  <2>2. CASE w = [t EXCEPT !.heard = FALSE] \/ \E k \in Key : w = [t EXCEPT !.data = Without(@, k)]
    <3>1. /\ w.kind = t.kind /\ w.at = t.at /\ w.node = t.node /\ w.from = t.from
          /\ w.pc = t.pc /\ w.moved = t.moved
        BY <1>0, <2>2 DEF TaskType
    <3> QED BY <1>0, <3>1 DEF ViewTask
  <2> QED BY <1>2, <2>1, <2>2 DEF TimesOut, PutFails, Replace
<1>3. ~Clean'
    BY <1>0, <1>1 DEF Clean
<1>4. FrameInv(c)'
    BY <1>0, <1>1, <1>2 DEF ViewInv, FrameInv, ViewTask
<1> QED BY <1>3, <1>4 DEF ViewInv

LEMMA ViewStep ==
    ASSUME NEW c \in Node, OnlyMoves(c), Inv, ViewInv(c), [Next]_vars
    PROVE  ViewInv(c)'
<1>1. CASE \/ UNCHANGED vars \/ Execute \/ CallFails
           \/ \E n \in Node : performHealthCheck(n) \/ ForwardFails(n) \/ \E r \in Requests : Route(n, r)
    BY <1>1, StillView DEF vars, Execute, CallFails, performHealthCheck, ForwardFails, Route, nodeVars, history
<1>2. CASE \E n \in Node : Notifies(n)
    BY <1>2, NotifyView DEF Notifies, notifyNodeJoin, notifyNodeLeave
<1>3. CASE \E t \in tasks : TaskStep(t) \/ TimesOut(t) \/ \E k \in Key : PutFails(t, k)
    BY <1>3, MigrationView, BroadcastView, AddView, RemoveView, FaultView DEF TaskStep
<1>4. CASE \E n \in Node : Start(n) \/ Leave(n) \/ Exit(n) \/ Crash(n)
    BY <1>4, StartView, LeaveView, ExitView, CrashView
<1> QED BY <1>1, <1>2, <1>3, <1>4 DEF Next

LEMMA ViewInit == ASSUME NEW c \in Node, OnlyMoves(c), Init PROVE ViewInv(c)
<1>1. FrameInv(c)
    BY DEF Init, OnlyMoves, FrameInv, Others
<1>2. CleanInv(c)
    BY DEF Init, OnlyMoves, CleanInv, HeardInv, JoinInv, LeaveInv, GoneInv, Others
<1> QED BY <1>1, <1>2 DEF ViewInv

(* Once nothing is changing, everybody has the ring of the running nodes. *)
LEMMA SettledViews ==
    ASSUME NEW c \in Node, Inv, ViewInv(c), Settled
    PROVE  /\ \A n \in Up : ring[n] = Up
           /\ phase[c] = "running" => Up = Node /\ \A m \in Others(c) : c \in ring[m]
           /\ phase[c] # "running" => Up = Others(c)
<1>1. CleanInv(c) /\ FrameInv(c) /\ phase[c] \in {"running", "down"}
    BY DEF Settled, ViewInv, Clean
<1>2. CASE phase[c] = "running"
  <2>1. \A m \in Others(c) : c \in ring[m]
      BY <1>1, <1>2 DEF Settled, CleanInv, JoinInv, Announced
  <2>2. Up = Node
      BY <1>1, <1>2 DEF FrameInv, Up, Others
  <2>3. ASSUME NEW n \in Node PROVE ring[n] = Node
    <3>1. ring[n] \in SUBSET Node
        BY DEF Inv, TypeInv
    <3>2. n # c => c \in ring[n] /\ Others(c) \subseteq ring[n]
        BY <1>1, <2>1 DEF FrameInv, Others
    <3> QED BY <1>1, <3>1, <3>2 DEF FrameInv, Others
  <2> QED BY <1>2, <2>1, <2>2, <2>3
<1>3. CASE phase[c] = "down"
  <2>1. \A m \in Others(c) : c \notin ring[m]
      BY <1>1, <1>3 DEF CleanInv, GoneInv
  <2>2. Up = Others(c)
      BY <1>1, <1>3 DEF FrameInv, Up, Others
  <2>3. \A n \in Up : ring[n] = Up
      BY <1>1, <2>1, <2>2 DEF FrameInv, Others, Inv, TypeInv
  <2> QED BY <1>3, <2>2, <2>3
<1> QED BY <1>1, <1>2, <1>3

(***************************************************************************)
(* When one node comes and goes, any number of times, leaving and crashing *)
(* at any moment, the others do learn of it: once nothing is changing, and *)
(* no request was lost, all running nodes have the ring of the running     *)
(* nodes (AddNodeToCluster and RemoveNodeFromCluster at every member,      *)
(* broadcastNodeChange to the healthy ones).                               *)
(***************************************************************************)
THEOREM ViewsSafe == \A c \in Node : OnlyMoves(c) => (Spec => []ViewsConverge)
<1> SUFFICES ASSUME NEW c \in Node, OnlyMoves(c) PROVE Spec => []ViewsConverge
    OBVIOUS
<1> DEFINE I == Inv /\ ViewInv(c)
<1>1. Init => I
    BY ClusterInit, ViewInit
<1>2. I /\ [Next]_vars => I'
    BY ClusterStep, ViewStep
<1>3. I => ViewsConverge
    BY SettledViews DEF ViewsConverge
<1> HIDE DEF I
<1> QED BY <1>1, <1>2, <1>3, PTL DEF Spec

-----------------------------------------------------------------------------
(***************************************************************************)
(* Where the keys are that are followed, without a fault: a node that      *)
(* stays has a key only if it owns it among those that stay, and if it has *)
(* heard that c owns it now, it is moving it; c has only what it owns when *)
(* it is there; and a write on its way goes to the owner.                  *)
(***************************************************************************)
Leaving(k, m) == \E t \in tasks : t.at = m /\ t.pc = "move" /\ k \in DOMAIN t.data \cup t.moved

PlaceOK(c, k) ==
    /\ \A m \in Others(c) : k \in DOMAIN store[m] =>
          /\ m = Owner(k, Others(c))
          /\ Owner(k, Node) = c /\ c \in ring[m] => Leaving(k, m)
    /\ k \in DOMAIN store[c] => Owner(k, Node) = c
    /\ call # NoCall /\ call.req.key = k =>
          \/ call.target = Owner(k, Node)
          \/ call.target = Owner(k, Others(c)) /\ \A m \in Others(c) : c \notin ring[m]

PlaceInv(c) == Clean => \A k \in Key \ spoiled : PlaceOK(c, k)

(* The owner among all nodes is c, or the owner without c. *)
LEMMA OwnerSplit ==
    ASSUME order \in [Key -> Orders], NEW k \in Key, NEW c \in Node
    PROVE  /\ Owner(k, Node) \in Node
           /\ Owner(k, Node) # c => Owner(k, Node) = Owner(k, Others(c))
           /\ Others(c) # {} => Owner(k, Others(c)) \in Others(c)
<1>1. /\ Owner(k, Node) \in Node
      /\ \A n \in Node : n # Owner(k, Node) => Pos(k, Owner(k, Node)) < Pos(k, n)
      /\ \A n \in Node : Pos(k, n) \in Nat
    BY OwnerLemma
<1>2. ASSUME Others(c) # {}
      PROVE  /\ Owner(k, Others(c)) \in Others(c)
             /\ \A n \in Others(c) :
                   n # Owner(k, Others(c)) => Pos(k, Owner(k, Others(c))) < Pos(k, n)
  <2>1. Others(c) \in SUBSET Node
      BY DEF Others
  <2> QED BY <1>2, <2>1, OwnerLemma
<1>3. ASSUME Owner(k, Node) # c PROVE Owner(k, Node) = Owner(k, Others(c))
  <2>1. PICK o \in Node : o = Owner(k, Node)
      BY <1>1
  <2>2. o \in Others(c) /\ Others(c) # {}
      BY <1>3, <2>1 DEF Others
  <2>3. PICK p \in Node : p = Owner(k, Others(c)) /\ p \in Others(c)
      BY <1>2, <2>2 DEF Others
  <2>4. /\ o # p => Pos(k, o) < Pos(k, p) /\ Pos(k, p) < Pos(k, o)
        /\ Pos(k, o) \in Nat /\ Pos(k, p) \in Nat
      BY <1>1, <1>2, <2>1, <2>2, <2>3
  <2>5. o = p
      BY <2>4
  <2> QED BY <2>1, <2>3, <2>5
<1> QED BY <1>1, <1>2, <1>3

LEMMA SameOwner ==
    ASSUME order' = order, NEW k, NEW S
    PROVE  Owner(k, S)' = Owner(k, S)
BY DEF Owner

(***************************************************************************)
(* A step that puts no key anywhere: what has to leave a node is still     *)
(* leaving it.                                                             *)
(***************************************************************************)
LEMMA LessPlace ==
    ASSUME NEW c \in Node, NEW k \in Key, PlaceOK(c, k), order' = order,
           \A n \in Node : k \in DOMAIN store'[n] => k \in DOMAIN store[n],
           \A m \in Others(c) : Owner(k, Node) = c /\ c \in ring'[m] /\ k \in DOMAIN store'[m] =>
               Leaving(k, m)' \/ (c \in ring[m] /\ ~Leaving(k, m)),
           call' # NoCall /\ call'.req.key = k =>
               call' = call /\ \A m \in Others(c) : c \notin ring[m] => c \notin ring'[m]
    PROVE  PlaceOK(c, k)'
<1>1. /\ Owner(k, Node)' = Owner(k, Node) /\ Owner(k, Others(c))' = Owner(k, Others(c))
      /\ c \in Node /\ Others(c) \subseteq Node
    BY SameOwner DEF Others
<1>2. ASSUME NEW m \in Others(c), k \in DOMAIN store'[m]
      PROVE  /\ m = Owner(k, Others(c))
             /\ Owner(k, Node) = c /\ c \in ring'[m] => Leaving(k, m)'
  <2>1. k \in DOMAIN store[m]
      BY <1>1, <1>2
  <2>2. m = Owner(k, Others(c)) /\ (Owner(k, Node) = c /\ c \in ring[m] => Leaving(k, m))
      BY <2>1 DEF PlaceOK
  <2> QED BY <1>2, <2>2
<1>3. k \in DOMAIN store'[c] => Owner(k, Node) = c
    BY DEF PlaceOK
<1>4. call' # NoCall /\ call'.req.key = k =>
          \/ call'.target = Owner(k, Node)
          \/ call'.target = Owner(k, Others(c)) /\ \A m \in Others(c) : c \notin ring'[m]
    BY DEF PlaceOK
<1>5. Others(c)' = Others(c)
    BY DEF Others
<1> QED BY <1>1, <1>2, <1>3, <1>4, <1>5 DEF PlaceOK

(* Steps that touch neither stores nor the rings of those that stay *)
LEMMA StillPlace ==
    ASSUME NEW c \in Node, PlaceInv(c), order' = order, spoiled \subseteq spoiled',
           Clean' => Clean, Clean' => tasks \subseteq tasks',
           \A m \in Others(c) : ring'[m] = ring[m],
           \A n \in Node : DOMAIN store'[n] \subseteq DOMAIN store[n],
           call' \in {call, NoCall}
    PROVE  PlaceInv(c)'
<1> SUFFICES ASSUME Clean', NEW k \in Key \ spoiled' PROVE PlaceOK(c, k)'
    BY DEF PlaceInv
<1>1. PlaceOK(c, k)
    BY DEF PlaceInv
<1>2. \A m \in Others(c) : Leaving(k, m) => Leaving(k, m)'
    BY DEF Leaving
<1> QED BY <1>1, <1>2, LessPlace

LEMMA QuietPlace ==
    ASSUME NEW c \in Node, OnlyMoves(c), Inv, ViewInv(c), PlaceInv(c),
           \/ UNCHANGED vars \/ CallFails
           \/ \E n \in Node : performHealthCheck(n) \/ ForwardFails(n) \/ Notifies(n) \/ Leave(n)
    PROVE  PlaceInv(c)'
<1>1. /\ UNCHANGED <<order, store, ring, spoiled, faults>> /\ call' \in {call, NoCall}
      /\ tasks \subseteq tasks'
    BY DEF vars, CallFails, performHealthCheck, ForwardFails, Notifies, notifyNodeJoin, notifyNodeLeave, Notify,
           Leave, nodeVars, callVars, history
<1>2. Clean' => Clean
    BY DEF Clean, vars, CallFails, performHealthCheck, ForwardFails, Notifies, notifyNodeJoin, notifyNodeLeave,
           Notify, Leave, nodeVars, callVars, history
<1> QED BY <1>1, <1>2, StillPlace

LEMMA EndsPlace ==
    ASSUME NEW c \in Node, OnlyMoves(c), Inv, ViewInv(c), PlaceInv(c), NEW n \in Node,
           Start(n) \/ Exit(n) \/ Crash(n)
    PROVE  PlaceInv(c)'
<1>0. faults \in Nat /\ \A t \in tasks : t.node = c
    BY DEF ViewInv, FrameInv, ViewTask
<1>1. n = c
    BY DEF Start, Exit, Crash, OnlyMoves, ViewInv, FrameInv, Others
<1>2. /\ ring' = [ring EXCEPT ![c] = Config[c]] /\ UNCHANGED <<order, call, overtaken>>
      /\ store' \in {store, [store EXCEPT ![c] = EmptyMap]}
    BY <1>1 DEF Start, Exit, Crash, Down, Configure, NewDistributedNode, callVars
<1>3. \A m \in Others(c) : ring'[m] = ring[m]
    BY <1>2 DEF Others, Inv, TypeInv
<1>4. \A m \in Node : DOMAIN store'[m] \subseteq DOMAIN store[m]
    BY <1>2, EmptyMapLemma DEF Inv, TypeInv
<1>5. spoiled \subseteq spoiled'
    BY SpoilLemma DEF Start, Exit, Crash, Down
<1>6. faults' = faults \/ (faults' = faults + 1 /\ Announcing(c))
    BY <1>1 DEF Start, Exit, Crash
<1>7. Clean' => Clean
    BY <1>0, <1>2, <1>6 DEF Clean
<1>8. Clean' => tasks \subseteq tasks'
  <2>1. CASE Start(n) \/ Exit(n)
      BY <2>1 DEF Start, Exit
  <2>2. CASE Crash(n)
    <3>1. Announcing(c) => faults' = faults + 1
        BY <1>1, <2>2 DEF Crash
    <3>2. Clean' => ~Announcing(c)
        BY <1>0, <3>1 DEF Clean
    <3> QED BY <1>0, <3>2 DEF Announcing
  <2> QED BY <2>1, <2>2
<1> QED BY <1>2, <1>3, <1>4, <1>5, <1>7, <1>8, StillPlace

(* Request t is replaced or answered: what others are moving they move on. *)
LEMMA OthersLeave ==
    ASSUME NEW k, NEW m, NEW t, \A w \in tasks \ {t} : w \in tasks', Leaving(k, m),
           t.at = m /\ t.pc = "move" /\ k \in DOMAIN t.data \cup t.moved => Leaving(k, m)'
    PROVE  Leaving(k, m)'
BY DEF Leaving

LEMMA AddPlace ==
    ASSUME NEW c \in Node, Inv, ViewInv(c), PlaceInv(c), NEW t \in tasks,
           AddNodeToCluster(t) \/ SyncAddNode(t)
    PROVE  PlaceInv(c)'
<1>0. t \in TaskType /\ t.at \in Node /\ t.node = c
    BY TaskFacts
<1>1. /\ ring' = [ring EXCEPT ![t.at] = @ \cup {c}] /\ SpoilCall /\ t.pc = "wait"
      /\ UNCHANGED <<order, store, call, faults, overtaken>>
    BY <1>0 DEF AddNodeToCluster, SyncAddNode, AddMember, callVars
<1>2. PICK u : /\ u = [t EXCEPT !.pc = "move", !.data = store[t.at]]
               /\ tasks' = (tasks \ {t}) \cup {u}
    BY DEF AddNodeToCluster, SyncAddNode, Snapshot, Replace
<1>3. u.at = t.at /\ u.pc = "move" /\ u.data = store[t.at]
    BY <1>0, <1>2 DEF TaskType
<1>4. spoiled \subseteq spoiled' /\ (call # NoCall => call.req.key \in spoiled')
    BY <1>1, SpoilLemma
<1> SUFFICES ASSUME Clean', NEW k \in Key \ spoiled' PROVE PlaceOK(c, k)'
    BY DEF PlaceInv
<1>5. PlaceOK(c, k)
    BY <1>1, <1>4 DEF PlaceInv, Clean
<1>6. ASSUME NEW m \in Others(c), c \in ring'[m], k \in DOMAIN store'[m]
      PROVE  Leaving(k, m)' \/ (c \in ring[m] /\ ~Leaving(k, m))
  <2>1. CASE m = t.at
      BY <1>1, <1>2, <1>3, <1>6, <2>1 DEF Leaving
  <2>2. CASE m # t.at
    <3>1. c \in ring[m]
        BY <1>1, <1>6, <2>2 DEF Others, Inv, TypeInv
    <3>2. Leaving(k, m) => Leaving(k, m)'
        BY <1>2, <2>2, OthersLeave
    <3> QED BY <3>1, <3>2
  <2> QED BY <2>1, <2>2
<1>7. ~(call' # NoCall /\ call'.req.key = k)
    BY <1>1, <1>4
<1>8. \A n \in Node : k \in DOMAIN store'[n] => k \in DOMAIN store[n]
    BY <1>1
<1> QED BY <1>1, <1>5, <1>6, <1>7, <1>8, LessPlace

LEMMA RemovePlace ==
    ASSUME NEW c \in Node, Inv, ViewInv(c), PlaceInv(c), NEW t \in tasks,
           RemoveNodeFromCluster(t) \/ SyncRemoveNode(t)
    PROVE  PlaceInv(c)'
<1>0. t \in TaskType /\ t.at \in Node /\ t.node = c
    BY TaskFacts
<1>1. /\ \/ c \notin ring[t.at] /\ ring' = ring
         \/ ring' = [ring EXCEPT ![t.at] = @ \ {c}]
      /\ SpoilCall /\ UNCHANGED <<order, store, call, faults, overtaken>>
    BY <1>0 DEF RemoveNodeFromCluster, SyncRemoveNode, RemoveMember, callVars
<1>2. \A w \in tasks \ {t} : w \in tasks'
    BY DEF RemoveNodeFromCluster, SyncRemoveNode, Replace, Reply
<1>3. spoiled \subseteq spoiled' /\ (call # NoCall => call.req.key \in spoiled')
    BY <1>1, SpoilLemma
<1> SUFFICES ASSUME Clean', NEW k \in Key \ spoiled' PROVE PlaceOK(c, k)'
    BY DEF PlaceInv
<1>4. PlaceOK(c, k)
    BY <1>1, <1>3 DEF PlaceInv, Clean
<1>5. ASSUME NEW m \in Others(c), c \in ring'[m]
      PROVE  Leaving(k, m)' \/ (c \in ring[m] /\ ~Leaving(k, m))
  <2>1. m # t.at /\ c \in ring[m]
      BY <1>0, <1>1, <1>5 DEF Others, Inv, TypeInv
  <2>2. Leaving(k, m) => Leaving(k, m)'
      BY <1>2, <2>1, OthersLeave
  <2> QED BY <2>1, <2>2
<1>6. ~(call' # NoCall /\ call'.req.key = k)
    BY <1>1, <1>3
<1>7. \A n \in Node : k \in DOMAIN store'[n] => k \in DOMAIN store[n]
    BY <1>1
<1> QED BY <1>1, <1>4, <1>5, <1>6, <1>7, LessPlace

(* A broadcast goes on or ends, or a migration has nothing left. *)
LEMMA TasksPlace ==
    ASSUME NEW c \in Node, Inv, ViewInv(c), PlaceInv(c), NEW t \in tasks,
           EndMigration(t) \/ EndBroadcast(t) \/ \E m \in Node : sendNodeChangeRequest(t, m)
    PROVE  PlaceInv(c)'
<1>1. /\ UNCHANGED <<order, ring, store, call, spoiled, faults, overtaken>>
      /\ t.pc # "move" \/ (DOMAIN t.data = {} /\ t.moved = {})
    BY DEF EndMigration, EndBroadcast, sendNodeChangeRequest, nodeVars, callVars, history
<1>2. \A w \in tasks \ {t} : w \in tasks'
    BY DEF EndMigration, EndBroadcast, sendNodeChangeRequest, Replace, Reply
<1> SUFFICES ASSUME Clean', NEW k \in Key \ spoiled' PROVE PlaceOK(c, k)'
    BY DEF PlaceInv
<1>3. PlaceOK(c, k)
    BY <1>1 DEF PlaceInv, Clean
<1>4. \A m : Leaving(k, m) => Leaving(k, m)'
    BY <1>1, <1>2, OthersLeave
<1> QED BY <1>1, <1>3, <1>4, LessPlace

(* The ring of a node that stays and has heard of c is that of all nodes. *)
LEMMA FullRing ==
    ASSUME NEW c \in Node, Inv, ViewInv(c), NEW m \in Node, c \in ring[m]
    PROVE  ring[m] = Node
<1>1. ring[m] \in SUBSET Node
    BY DEF Inv, TypeInv
<1>2. m = c \/ Others(c) \subseteq ring[m]
    BY DEF ViewInv, FrameInv, Others
<1> QED BY <1>1, <1>2 DEF Others, ViewInv, FrameInv

LEMMA SkipPlace ==
    ASSUME NEW c \in Node, Inv, ViewInv(c), PlaceInv(c), NEW t \in tasks, NEW x \in Key,
           SkipKey(t, x)
    PROVE  PlaceInv(c)'
<1>0. t \in TaskType /\ t.at \in Node /\ t.node = c /\ t.data \in Map
    BY TaskFacts DEF TaskType
<1>1. /\ UNCHANGED <<order, ring, store, call, spoiled, faults, overtaken>>
      /\ t.pc = "move" /\ (Owner(x, ring[t.at]) # c \/ c \notin Up)
    BY <1>0 DEF SkipKey, nodeVars, callVars, history
<1>2. PICK u : u = [t EXCEPT !.data = Without(@, x)] /\ tasks' = (tasks \ {t}) \cup {u}
    BY DEF SkipKey, Replace
<1>3. /\ u.at = t.at /\ u.pc = "move" /\ u.moved = t.moved
      /\ DOMAIN u.data = DOMAIN t.data \ {x}
  <2>1. DOMAIN Without(t.data, x) = DOMAIN t.data \ {x}
      BY <1>0, WithoutLemma
  <2>2. u.at = t.at /\ u.pc = "move" /\ u.moved = t.moved /\ u.data = Without(t.data, x)
      BY <1>0, <1>1, <1>2 DEF TaskType
  <2> QED BY <2>1, <2>2
<1> SUFFICES ASSUME Clean', NEW k \in Key \ spoiled' PROVE PlaceOK(c, k)'
    BY DEF PlaceInv
<1>4. Clean /\ PlaceOK(c, k)
    BY <1>1 DEF PlaceInv, Clean
<1>5. Owner(x, ring[t.at]) # c
    BY <1>1, <1>4 DEF ViewInv, CleanInv, GoneInv, Inv, TypeInv, Up
<1>6. ASSUME NEW m \in Others(c), Owner(k, Node) = c, c \in ring'[m], Leaving(k, m)
      PROVE  Leaving(k, m)'
  <2>1. ring[m] = Node
      BY <1>1, <1>6, FullRing DEF Others
  <2>2. m = t.at => k # x
      BY <1>5, <1>6, <2>1
  <2>3. t.at = m /\ t.pc = "move" /\ k \in DOMAIN t.data \cup t.moved => Leaving(k, m)'
      BY <1>2, <1>3, <2>2 DEF Leaving
  <2> QED BY <1>2, <1>6, <2>3, OthersLeave
<1> QED BY <1>1, <1>4, <1>6, LessPlace

LEMMA DeletePlace ==
    ASSUME NEW c \in Node, Inv, ViewInv(c), PlaceInv(c), NEW t \in tasks, NEW x \in Key,
           DeleteMoved(t, x)
    PROVE  PlaceInv(c)'
<1>0. t \in TaskType /\ t.at \in Node /\ t.node = c /\ \A y, z \in t.moved : y = z
    BY TaskFacts DEF ViewTask
<1>1. /\ UNCHANGED <<order, ring, call, faults, overtaken>> /\ spoiled \subseteq spoiled'
      /\ t.pc = "move" /\ x \in t.moved
      /\ store' = [store EXCEPT ![t.at] = Without(@, x)]
      /\ t.at = c => x \in spoiled'
    BY <1>0 DEF DeleteMoved, nodeVars, callVars
<1>2. PICK u : u = [t EXCEPT !.moved = {}] /\ tasks' = (tasks \ {t}) \cup {u}
    BY DEF DeleteMoved, Replace
<1>3. u.at = t.at /\ u.pc = "move" /\ u.data = t.data
    BY <1>0, <1>1, <1>2 DEF TaskType
<1>4. ASSUME NEW n \in Node
      PROVE  /\ DOMAIN store'[n] \subseteq DOMAIN store[n]
             /\ n = t.at => x \notin DOMAIN store'[n]
  <2>1. store[t.at] \in Map
      BY <1>0 DEF Inv, TypeInv
  <2>2. DOMAIN Without(store[t.at], x) = DOMAIN store[t.at] \ {x}
      BY <2>1, WithoutLemma
  <2> QED BY <1>0, <1>1, <2>2 DEF Inv, TypeInv
<1> SUFFICES ASSUME Clean', NEW k \in Key \ spoiled' PROVE PlaceOK(c, k)'
    BY DEF PlaceInv
<1>5. PlaceOK(c, k)
    BY <1>1 DEF PlaceInv, Clean
<1>6. ASSUME NEW m \in Others(c), k \in DOMAIN store'[m], Leaving(k, m)
      PROVE  Leaving(k, m)'
  <2>1. m = t.at => k # x
      BY <1>4, <1>6 DEF Others
  <2>2. t.at = m /\ t.pc = "move" /\ k \in DOMAIN t.data \cup t.moved => Leaving(k, m)'
    <3>1. k \in t.moved => k = x
        BY <1>0, <1>1
    <3> QED BY <1>2, <1>3, <2>1, <3>1 DEF Leaving
  <2> QED BY <1>2, <1>6, <2>2, OthersLeave
<1> QED BY <1>1, <1>4, <1>5, <1>6, LessPlace

(* The key is put to c: it is c's on the ring of all nodes. *)
LEMMA MigratePlace ==
    ASSUME NEW c \in Node, Inv, ViewInv(c), PlaceInv(c), NEW t \in tasks, NEW x \in Key,
           migrateKeyToNode(t, x)
    PROVE  PlaceInv(c)'
<1>0. t \in TaskType /\ t.at \in Node /\ t.node = c /\ t.data \in Map
    BY TaskFacts DEF TaskType
<1>1. /\ UNCHANGED <<order, ring, call, spoiled, faults, overtaken>>
      /\ t.pc = "move" /\ x \in DOMAIN t.data /\ t.moved = {} /\ Owner(x, ring[t.at]) = c
      /\ store' = [store EXCEPT ![c] = With(@, x, t.data[x])]
    BY <1>0 DEF migrateKeyToNode, Moves, nodeVars, callVars, history
<1>2. PICK u : /\ u = [t EXCEPT !.data = Without(@, x), !.moved = {x}]
               /\ tasks' = (tasks \ {t}) \cup {u}
    BY DEF migrateKeyToNode, Replace
<1>3. /\ u.at = t.at /\ u.pc = "move" /\ u.moved = {x}
      /\ DOMAIN u.data = DOMAIN t.data \ {x}
  <2>1. DOMAIN Without(t.data, x) = DOMAIN t.data \ {x}
      BY <1>0, WithoutLemma
  <2>2. u.at = t.at /\ u.pc = "move" /\ u.moved = {x} /\ u.data = Without(t.data, x)
      BY <1>0, <1>1, <1>2 DEF TaskType
  <2> QED BY <2>1, <2>2
<1>4. Owner(x, Node) = c
  <2>1. ring[t.at] \in SUBSET Node /\ ring[t.at] # {}
      BY <1>0 DEF Inv, TypeInv, SelfInv
  <2>2. c \in ring[t.at]
      BY <1>1, <2>1, OwnerLemma DEF Inv, TypeInv
  <2>3. ring[t.at] = Node
      BY <1>0, <2>2, FullRing
  <2> QED BY <1>1, <2>3
<1>5. /\ DOMAIN store'[c] = DOMAIN store[c] \cup {x}
      /\ \A m \in Others(c) : store'[m] = store[m]
  <2>1. DOMAIN With(store[c], x, t.data[x]) = DOMAIN store[c] \cup {x}
      BY DEF With
  <2> QED BY <1>1, <2>1 DEF Others, Inv, TypeInv
<1> SUFFICES ASSUME Clean', NEW k \in Key \ spoiled' PROVE PlaceOK(c, k)'
    BY DEF PlaceInv
<1>6. PlaceOK(c, k)
    BY <1>1 DEF PlaceInv, Clean
<1>7. ASSUME NEW m \in Others(c), Leaving(k, m) PROVE Leaving(k, m)'
  <2>1. t.at = m /\ t.pc = "move" /\ k \in DOMAIN t.data \cup t.moved => Leaving(k, m)'
      BY <1>1, <1>2, <1>3 DEF Leaving
  <2> QED BY <1>2, <1>7, <2>1, OthersLeave
<1>8. Owner(k, Node)' = Owner(k, Node) /\ Owner(k, Others(c))' = Owner(k, Others(c))
    BY <1>1, SameOwner
<1>9. k \in DOMAIN store'[c] => Owner(k, Node) = c
    BY <1>4, <1>5, <1>6 DEF PlaceOK
<1>10. \A m \in Others(c) : k \in DOMAIN store'[m] =>
          /\ m = Owner(k, Others(c))
          /\ Owner(k, Node) = c /\ c \in ring'[m] => Leaving(k, m)'
    BY <1>1, <1>5, <1>6, <1>7 DEF PlaceOK
<1>11. Others(c)' = Others(c)
    BY DEF Others
<1> QED BY <1>1, <1>6, <1>8, <1>9, <1>10, <1>11 DEF PlaceOK

(* A write is routed: it is followed only if all running nodes have one ring. *)
LEMMA RoutePlace ==
    ASSUME NEW c \in Node, Inv, ViewInv(c), PlaceInv(c), NEW n \in Node, NEW r \in Requests,
           Route(n, r)
    PROVE  PlaceInv(c)'
<1>1. /\ UNCHANGED <<order, ring, store, tasks, phase, faults, overtaken>> /\ n \in Up
      /\ spoiled \subseteq spoiled' /\ (r.key \notin spoiled' => ~Changing)
      /\ call'.req = r /\ call'.target = Owner(r.key, ring[n])
    BY DEF Route, nodeVars
<1> SUFFICES ASSUME Clean', NEW k \in Key \ spoiled' PROVE PlaceOK(c, k)'
    BY DEF PlaceInv
<1>2. PlaceOK(c, k)
    BY <1>1 DEF PlaceInv, Clean
<1>3. ASSUME r.key = k
      PROVE  \/ Owner(k, ring[n]) = Owner(k, Node)
             \/ Owner(k, ring[n]) = Owner(k, Others(c)) /\ \A m \in Others(c) : c \notin ring[m]
  <2>1. CASE c \in ring[n]
      BY <2>1, FullRing
  <2>2. CASE c \notin ring[n]
    <3>1. n \in Others(c) /\ ring[n] \in SUBSET Node /\ Others(c) \subseteq ring[n]
        BY <2>2 DEF Inv, TypeInv, SelfInv, ViewInv, FrameInv, Others
    <3>2. ring[n] = Others(c)
        BY <2>2, <3>1 DEF Others
    <3>3. \A m \in Others(c) : m \in Up /\ ring[m] = ring[n]
        BY <1>1, <1>3 DEF Changing, Up, ViewInv, FrameInv, Others
    <3> QED BY <2>2, <3>2, <3>3
  <2> QED BY <2>1, <2>2
<1>4. call'.req = r /\ call'.target = Owner(r.key, ring[n])
    BY <1>1
<1>5. Owner(k, Node)' = Owner(k, Node) /\ Owner(k, Others(c))' = Owner(k, Others(c))
    BY <1>1, SameOwner
<1>6. call'.req.key = k =>
          \/ call'.target = Owner(k, Node)
          \/ call'.target = Owner(k, Others(c)) /\ \A m \in Others(c) : c \notin ring'[m]
    BY <1>1, <1>3, <1>4
<1>7. \A m : Leaving(k, m)' <=> Leaving(k, m)
    BY <1>1 DEF Leaving
<1>8. \A m \in Others(c) : k \in DOMAIN store'[m] =>
          /\ m = Owner(k, Others(c))
          /\ Owner(k, Node) = c /\ c \in ring'[m] => Leaving(k, m)'
    BY <1>1, <1>2, <1>7 DEF PlaceOK
<1>9. k \in DOMAIN store'[c] => Owner(k, Node) = c
    BY <1>1, <1>2 DEF PlaceOK
<1>10. Others(c)' = Others(c)
    BY DEF Others
<1> QED BY <1>5, <1>6, <1>8, <1>9, <1>10 DEF PlaceOK

(* A write arrives: followed, it is at the owner, and nowhere else. *)
LEMMA ExecutePlace ==
    ASSUME NEW c \in Node, Inv, ViewInv(c), PlaceInv(c), Execute
    PROVE  PlaceInv(c)'
<1> DEFINE r == call.req
           o == call.target
<1>1. /\ call # NoCall /\ call' = NoCall /\ r \in Requests /\ o \in Node
      /\ UNCHANGED <<order, ring, tasks, faults, overtaken>> /\ spoiled \subseteq spoiled'
      /\ store' = [store EXCEPT ![o] = Effect(r, @)]
    BY DEF Execute, nodeVars, Inv, TypeInv
<1> SUFFICES ASSUME Clean', NEW k \in Key \ spoiled' PROVE PlaceOK(c, k)'
    BY DEF PlaceInv
<1>2. PlaceOK(c, k)
    BY <1>1 DEF PlaceInv, Clean
<1>3. \A m : Leaving(k, m)' <=> Leaving(k, m)
    BY <1>1 DEF Leaving
<1>4. CASE k # r.key
  <2>1. \A n \in Node : k \in DOMAIN store'[n] => k \in DOMAIN store[n]
    <3>1. store[o] \in Map
        BY <1>1 DEF Inv, TypeInv
    <3>2. k \in DOMAIN Effect(r, store[o]) <=> k \in DOMAIN store[o]
        BY <1>1, <1>4, <3>1, EffectLemma
    <3> HIDE DEF r, o
    <3> QED BY <1>1, <3>2 DEF Inv, TypeInv
  <2> QED BY <1>1, <1>2, <1>3, <2>1, LessPlace
<1>5. CASE k = r.key
  <2>1. \/ o = Owner(k, Node)
        \/ o = Owner(k, Others(c)) /\ \A m \in Others(c) : c \notin ring[m]
      BY <1>1, <1>2, <1>5 DEF PlaceOK
  <2>2. Owner(k, Node)' = Owner(k, Node) /\ Owner(k, Others(c))' = Owner(k, Others(c))
      BY <1>1, SameOwner
  <2>3. /\ Owner(k, Node) \in Node
        /\ Owner(k, Node) # c => Owner(k, Node) = Owner(k, Others(c))
        /\ Others(c) # {} => Owner(k, Others(c)) \in Others(c)
      BY OwnerSplit DEF Inv, TypeInv
  <2>4. \A n \in Node \ {o} : k \notin DOMAIN store'[n]
    <3>1. \A n \in Node \ {o} : k \notin DOMAIN store[n]
        BY <1>5 DEF Execute
    <3> HIDE DEF r, o
    <3> QED BY <1>1, <3>1 DEF Inv, TypeInv
  <2>5. ASSUME NEW m \in Others(c), k \in DOMAIN store'[m]
        PROVE  /\ m = Owner(k, Others(c))
               /\ Owner(k, Node) = c /\ c \in ring'[m] => Leaving(k, m)'
    <3>1. m = o /\ m # c
        BY <2>4, <2>5 DEF Others
    <3> HIDE DEF r, o
    <3> QED BY <1>1, <2>1, <2>3, <3>1
  <2>6. k \in DOMAIN store'[c] => Owner(k, Node) = c
    <3>1. k \in DOMAIN store'[c] => o = c
        BY <2>4
    <3>2. o = Owner(k, Others(c)) /\ o = c => Owner(k, Node) = c
      <4>1. Others(c) = {} => Node = {c}
          BY DEF Others
      <4>2. Owner(k, Others(c)) = c => Others(c) = {}
          BY <2>3 DEF Others
      <4> HIDE DEF r, o
      <4> QED BY <2>3, <4>1, <4>2
    <3> HIDE DEF r, o
    <3> QED BY <2>1, <3>1, <3>2
  <2>7. Others(c)' = Others(c)
      BY DEF Others
  <2> HIDE DEF r, o
  <2> QED BY <1>1, <2>2, <2>5, <2>6, <2>7 DEF PlaceOK
<1> QED BY <1>4, <1>5

LEMMA PlaceStep ==
    ASSUME NEW c \in Node, OnlyMoves(c), Inv, ViewInv(c), PlaceInv(c), [Next]_vars
    PROVE  PlaceInv(c)'
<1>1. CASE \/ UNCHANGED vars \/ CallFails
           \/ \E n \in Node : performHealthCheck(n) \/ ForwardFails(n) \/ Notifies(n) \/ Leave(n)
    BY <1>1, QuietPlace
<1>2. CASE Execute \/ \E n \in Node : \E r \in Requests : Route(n, r)
    BY <1>2, ExecutePlace, RoutePlace
<1>3. CASE \E n \in Node : Start(n) \/ Exit(n) \/ Crash(n)
    BY <1>3, EndsPlace
<1>4. ASSUME NEW t \in tasks, TaskStep(t) PROVE PlaceInv(c)'
    BY <1>4, AddPlace, RemovePlace, TasksPlace, SkipPlace, MigratePlace, DeletePlace DEF TaskStep
<1>5. ASSUME NEW t \in tasks, TimesOut(t) \/ \E k \in Key : PutFails(t, k) PROVE PlaceInv(c)'
  <2>1. faults' = faults + 1 /\ faults \in Nat
      BY <1>5 DEF TimesOut, PutFails, ViewInv, FrameInv
  <2> QED BY <2>1 DEF PlaceInv, Clean
<1> QED BY <1>1, <1>2, <1>3, <1>4, <1>5 DEF Next

LEMMA PlaceInit == ASSUME NEW c \in Node, OnlyMoves(c), Init PROVE PlaceInv(c)
<1> SUFFICES ASSUME NEW k \in Key PROVE PlaceOK(c, k)
    BY DEF PlaceInv
<1>1. order \in [Key -> Orders] /\ call = NoCall
    BY DEF Init
<1>2. ASSUME NEW n \in Node, k \in DOMAIN store[n] PROVE n = Owner(k, Running)
    BY <1>2 DEF Init, RestrictDomain, Restrict
<1>3. /\ Owner(k, Node) # c => Owner(k, Node) = Owner(k, Others(c))
      /\ Others(c) # {} => Owner(k, Others(c)) \in Others(c)
    BY <1>1, OwnerSplit
<1>4. CASE Running = Node
    BY <1>1, <1>2, <1>3, <1>4 DEF PlaceOK, Others
<1>5. CASE Running = Others(c)
  <2>1. Others(c) # {} /\ \A m \in Others(c) : c \notin ring[m]
      BY <1>5, NodesAssumption DEF Init, OnlyMoves, Others
  <2> QED BY <1>1, <1>2, <1>3, <1>5, <2>1 DEF PlaceOK, Others
<1> QED BY <1>4, <1>5 DEF OnlyMoves, Others

LEMMA SettledPlaces ==
    ASSUME NEW c \in Node, Inv, ViewInv(c), PlaceInv(c), Settled, NEW k \in Key \ spoiled,
           NEW n \in Up
    PROVE  k \in DOMAIN store[n] <=> k \in DOMAIN acked /\ n = Owner(k, Up)
<1>1. /\ phase[c] = "running" => Up = Node /\ \A m \in Others(c) : c \in ring[m]
      /\ phase[c] # "running" => Up = Others(c)
    BY SettledViews
<1>2. PlaceOK(c, k) /\ \A m : ~Leaving(k, m)
    BY DEF PlaceInv, Settled, Clean, Leaving
<1>3. /\ Owner(k, Node) \in Node
      /\ Owner(k, Node) # c => Owner(k, Node) = Owner(k, Others(c))
    BY OwnerSplit DEF Inv, TypeInv
<1>4. ASSUME NEW m \in Up, k \in DOMAIN store[m] PROVE m = Owner(k, Up)
  <2>1. CASE phase[c] = "running"
      BY <1>1, <1>2, <1>3, <1>4, <2>1 DEF PlaceOK, Others
  <2>2. CASE phase[c] # "running"
      BY <1>1, <1>2, <1>4, <2>2 DEF PlaceOK
  <2> QED BY <2>1, <2>2
<1>5. k \in DOMAIN store[n] => k \in DOMAIN acked
    BY DEF Inv, AgreeInv, Up
<1>6. k \in DOMAIN acked => \E m \in Up : k \in DOMAIN store[m]
    BY DEF Inv, HeldInv
<1> QED BY <1>4, <1>5, <1>6

(***************************************************************************)
(* When one node comes and goes and no request was lost, then once nothing *)
(* is changing every value whose write was completed outside a change is   *)
(* on its owner, and no other running node has a copy that a read through  *)
(* another ring, or a later migration, could bring back                    *)
(* (performNetworkDataMigration, at the coordinator and at every node the  *)
(* change is broadcast to).                                                *)
(***************************************************************************)
THEOREM OwnersSafe == \A c \in Node : OnlyMoves(c) => (Spec => []OwnerHoldsKey)
<1> SUFFICES ASSUME NEW c \in Node, OnlyMoves(c) PROVE Spec => []OwnerHoldsKey
    OBVIOUS
<1> DEFINE I == Inv /\ ViewInv(c) /\ PlaceInv(c)
<1>1. Init => I
    BY ClusterInit, ViewInit, PlaceInit
<1>2. I /\ [Next]_vars => I'
    BY ClusterStep, ViewStep, PlaceStep
<1>3. I => OwnerHoldsKey
    BY SettledPlaces DEF OwnerHoldsKey
<1> HIDE DEF I
<1> QED BY <1>1, <1>2, <1>3, PTL DEF Spec

-----------------------------------------------------------------------------
(***************************************************************************)
(* The guards of TaskStep, one line for each step a request can take: it   *)
(* is handled, its migration goes on, its broadcast goes on.  This is      *)
(* NoCircularWait without ENABLED.                                         *)
(***************************************************************************)
CanGoOn(t) ==
    \/ t.kind \in {"join", "leave"} /\ t.pc = "wait" /\ CcFree(t.at)
    \/ t.kind = "sync-add" /\ t.pc = "wait"
    \/ t.kind = "sync-remove"
    \/ /\ t.pc = "move"
       /\ \/ \E k \in Key : /\ k \in DOMAIN t.data /\ t.moved = {}
                            /\ Owner(k, ring[t.at]) # t.node \/ t.node \notin Up
          \/ \E k \in Key : Moves(t, k) /\ t.node \in Up
          \/ \E k \in Key : k \in t.moved
          \/ DOMAIN t.data = {} /\ t.moved = {}
    \/ t.pc = "broadcast" /\ Answered(t) /\ (t.targets = {} \/ \E m \in Node : m \in t.targets)

SomeoneGoesOn == tasks # {} => \E t \in tasks : CanGoOn(t)

(* Only the coordinators broadcast. *)
BroadcastInv == \A t \in tasks : t.pc = "broadcast" => t.kind \in {"join", "leave"}

LEMMA BroadcastStep == ASSUME Inv, BroadcastInv, [Next]_vars PROVE BroadcastInv'
<1>0. \A t \in tasks : t \in TaskType /\ (t.pc = "broadcast" => t.kind \in {"join", "leave"})
    BY DEF Inv, TaskOK, TaskShape, BroadcastInv
<1> SUFFICES ASSUME NEW w \in tasks', w.pc = "broadcast" PROVE w.kind \in {"join", "leave"}
    BY DEF BroadcastInv
<1>1. CASE w \in tasks
    BY <1>0, <1>1
<1>2. CASE w \notin tasks
  <2>1. CASE \E n \in Node : Notifies(n)
      BY <1>2, <2>1 DEF Notifies, notifyNodeJoin, notifyNodeLeave, Notify, Task
  <2>2. ASSUME NEW n \in Node, Crash(n) PROVE w.kind \in {"join", "leave"}
    <3>1. PICK u \in tasks : w = [u EXCEPT !.heard = @ /\ u.from # n]
        BY <2>2 DEF Crash
    <3> QED BY <1>0, <3>1 DEF TaskType
  <2>3. ASSUME NEW t \in tasks, TaskStep(t) \/ TimesOut(t) \/ \E k \in Key : PutFails(t, k)
        PROVE  w.kind \in {"join", "leave"}
    <3>1. t \in TaskType /\ (t.pc = "broadcast" => t.kind \in {"join", "leave"})
        BY <1>0
    <3>2. CASE \E m \in Node : sendNodeChangeRequest(t, m)
        BY <1>2, <3>1, <3>2 DEF sendNodeChangeRequest, Task, TaskType
    <3>3. CASE AddNodeToCluster(t) \/ SyncAddNode(t)
        BY <1>2, <3>1, <3>3 DEF AddNodeToCluster, SyncAddNode, Snapshot, Replace, TaskType
    <3>4. CASE RemoveNodeFromCluster(t) \/ SyncRemoveNode(t)
      <4>1. /\ t.kind = "leave"
            /\ w = [t EXCEPT !.pc = "broadcast", !.targets = broadcastTargets(t.at) \ {t.node}]
          BY <1>2, <3>4 DEF RemoveNodeFromCluster, SyncRemoveNode, Replace, Reply
      <4> QED BY <3>1, <4>1 DEF TaskType
    <3>5. CASE EndMigration(t) \/ EndBroadcast(t) \/ TimesOut(t)
      <4>1. \/ /\ t.kind = "join"
               /\ w = [t EXCEPT !.pc = "broadcast", !.targets = broadcastTargets(t.at)]
            \/ w = [t EXCEPT !.heard = FALSE]
          BY <1>2, <3>5 DEF EndMigration, EndBroadcast, TimesOut, Replace, Reply
      <4> QED BY <3>1, <4>1 DEF TaskType
    <3>6. ASSUME NEW k \in Key,
                 SkipKey(t, k) \/ migrateKeyToNode(t, k) \/ DeleteMoved(t, k) \/ PutFails(t, k)
          PROVE  w.kind \in {"join", "leave"}
      <4>1. w \in {[t EXCEPT !.data = Without(@, k)],
                   [t EXCEPT !.data = Without(@, k), !.moved = {k}], [t EXCEPT !.moved = {}]}
          BY <1>2, <3>6 DEF SkipKey, migrateKeyToNode, DeleteMoved, PutFails, Replace
      <4>2. w.pc = t.pc /\ w.kind = t.kind
          BY <3>1, <4>1 DEF TaskType
      <4> QED BY <3>1, <4>2
    <3> QED BY <2>3, <3>2, <3>3, <3>4, <3>5, <3>6 DEF TaskStep
  <2>4. CASE \/ UNCHANGED vars \/ Execute \/ CallFails
             \/ \E n \in Node : \/ \E r \in Requests : Route(n, r)
                                \/ performHealthCheck(n) \/ ForwardFails(n) \/ Start(n) \/ Leave(n) \/ Exit(n)
      BY <1>2, <2>4 DEF vars, Execute, CallFails, Route, performHealthCheck, ForwardFails, Start, Leave, Exit
  <2> QED BY <2>1, <2>2, <2>3, <2>4 DEF Next
<1> QED BY <1>1, <1>2

(***************************************************************************)
(* A broadcast that waits, waits for a request that is handled without the *)
(* coordinator's mutex; and if nobody broadcasts or migrates, no mutex is  *)
(* held.                                                                   *)
(***************************************************************************)
LEMMA NobodyWaits == ASSUME Inv, BroadcastInv PROVE SomeoneGoesOn
<1> SUFFICES ASSUME NEW s \in tasks, \A t \in tasks : ~CanGoOn(t) PROVE FALSE
    BY DEF SomeoneGoesOn
<1>0. \A t \in tasks : t \in TaskType
    BY DEF Inv, TaskOK, TaskShape
<1>1. ASSUME NEW t \in tasks PROVE t.pc # "move"
  <2> SUFFICES ASSUME t.pc = "move" PROVE FALSE
      OBVIOUS
  <2>1. DOMAIN t.data \subseteq Key /\ t.moved \subseteq Key
      BY <1>0, MapLemma DEF TaskType
  <2>2. CASE t.moved # {}
      BY <2>1, <2>2 DEF CanGoOn
  <2>3. CASE t.moved = {} /\ DOMAIN t.data # {}
    <3>1. PICK k \in Key : k \in DOMAIN t.data
        BY <2>1, <2>3
    <3> QED BY <2>3, <3>1 DEF CanGoOn, Moves
  <2>4. CASE t.moved = {} /\ DOMAIN t.data = {}
      BY <2>4 DEF CanGoOn
  <2> QED BY <2>2, <2>3, <2>4
<1>2. ASSUME NEW t \in tasks PROVE t.kind \in {"join", "leave"}
    BY <1>0, <1>1 DEF CanGoOn, BroadcastInv, TaskType
<1>3. ASSUME NEW t \in tasks PROVE t.pc = "wait"
  <2>1. Answered(t)
      BY <1>2 DEF Answered, SyncKind
  <2>2. t.targets = {} \/ \E m \in Node : m \in t.targets
      BY <1>0 DEF TaskType
  <2> QED BY <1>0, <1>1, <2>1, <2>2 DEF CanGoOn, TaskType
<1> QED BY <1>2, <1>3 DEF CanGoOn, CcFree

(***************************************************************************)
(* However many nodes join, leave and crash at once, the coordinators,     *)
(* which broadcast to each other with their mutexes held, never wait for   *)
(* each other in a circle: while a request is being handled, some request  *)
(* has all that its next step asks for, with no timeout to help            *)
(* (SyncAddNode and SyncRemoveNode do not take cc.mu).                     *)
(***************************************************************************)
THEOREM WaitsSafe == Spec => []SomeoneGoesOn
<1>1. Init => Inv /\ BroadcastInv
    BY ClusterInit DEF Init, BroadcastInv
<1>2. Inv /\ BroadcastInv /\ [Next]_vars => Inv' /\ BroadcastInv'
    BY ClusterStep, BroadcastStep
<1>3. Inv /\ BroadcastInv => SomeoneGoesOn
    BY NobodyWaits
<1> QED BY <1>1, <1>2, <1>3, PTL DEF Spec
=============================================================================
