--------------------------- MODULE Migration_proofs ---------------------------
(***************************************************************************)
(* Theorems about the data of core/distributed_cache.go: where the values  *)
(* are while nodes come and go under the calls of the clients.  For every  *)
(* number of nodes, virtual nodes, keys, values and clients.               *)
(***************************************************************************)
EXTENDS DistributedCache_proofs, FiniteSetTheorems

-----------------------------------------------------------------------------
(***************************************************************************)
(* The maps that the caches hold.                                          *)
(***************************************************************************)
CacheMap == UNION {[D -> Value] : D \in SUBSET Key}

LEMMA MapLemma ==
    ASSUME NEW m \in CacheMap
    PROVE  DOMAIN m \subseteq Key /\ m \in [DOMAIN m -> Value] /\ \A k \in DOMAIN m : m[k] \in Value
BY DEF CacheMap

LEMMA IsMapLemma ==
    ASSUME NEW m, DOMAIN m \subseteq Key, m \in [DOMAIN m -> Value]
    PROVE  m \in CacheMap
BY DEF CacheMap

LEMMA WithLemma ==
    ASSUME NEW m \in CacheMap, NEW k \in Key, NEW v \in Value
    PROVE  /\ With(m, k, v) \in CacheMap
           /\ DOMAIN With(m, k, v) = DOMAIN m \cup {k}
           /\ With(m, k, v)[k] = v
           /\ \A j \in DOMAIN m \ {k} : With(m, k, v)[j] = m[j]
<1> DEFINE w == With(m, k, v)
<1>1. DOMAIN m \subseteq Key /\ \A j \in DOMAIN m : m[j] \in Value
    BY MapLemma
<1>2. /\ DOMAIN w = DOMAIN m \cup {k} /\ w[k] = v
      /\ \A j \in DOMAIN m \ {k} : w[j] = m[j]
    BY DEF With
<1>3. w \in [DOMAIN m \cup {k} -> Value]
    BY <1>1 DEF With
<1>4. w \in CacheMap
    BY <1>1, <1>2, <1>3, IsMapLemma
<1> QED BY <1>2, <1>4

LEMMA WithoutLemma ==
    ASSUME NEW m \in CacheMap, NEW k \in Key
    PROVE  /\ Without(m, k) \in CacheMap
           /\ DOMAIN Without(m, k) = DOMAIN m \ {k}
           /\ \A j \in DOMAIN m \ {k} : Without(m, k)[j] = m[j]
<1> DEFINE w == Without(m, k)
<1>1. DOMAIN m \subseteq Key /\ \A j \in DOMAIN m : m[j] \in Value
    BY MapLemma
<1>2. DOMAIN w = DOMAIN m \ {k} /\ \A j \in DOMAIN m \ {k} : w[j] = m[j]
    BY DEF Without
<1>3. w \in [DOMAIN m \ {k} -> Value]
    BY <1>1 DEF Without
<1>4. w \in CacheMap
    BY <1>1, <1>2, <1>3, IsMapLemma
<1> QED BY <1>2, <1>4

LEMMA EmptyLemma == EmptyMap \in CacheMap /\ DOMAIN EmptyMap = {}
<1>1. DOMAIN EmptyMap = {} /\ EmptyMap \in [{} -> Value]
    BY DEF EmptyMap
<1> QED BY <1>1, IsMapLemma

LEMMA RestrictLemma ==
    ASSUME NEW m \in CacheMap, NEW D, D \subseteq DOMAIN m
    PROVE  /\ Restrict(m, D) \in CacheMap
           /\ DOMAIN Restrict(m, D) = D
           /\ \A j \in D : Restrict(m, D)[j] = m[j]
<1> DEFINE w == Restrict(m, D)
<1>1. DOMAIN m \subseteq Key /\ \A j \in DOMAIN m : m[j] \in Value
    BY MapLemma
<1>2. DOMAIN w = D /\ \A j \in D : w[j] = m[j]
    BY DEF Restrict
<1>3. w \in [D -> Value]
    BY <1>1 DEF Restrict
<1>4. w \in CacheMap
    BY <1>1, <1>2, <1>3, IsMapLemma
<1> QED BY <1>2, <1>4

-----------------------------------------------------------------------------
(***************************************************************************)
(* The type invariant, strengthened: the ring is in order, a member is in  *)
(* the node list, and the node being added is a member.                    *)
(***************************************************************************)
ChangeType ==
    [op : {"AddNode", "RemoveNode"}, node : Node, old : SUBSET Nat, todo : SUBSET Nat,
     from : 0 .. Len(caches), data : CacheMap, moved : SUBSET Key, count : Nat]

Routed == [pc : {"routed"}, req : Requests, node : Node]
Fetched == [pc : {"fetched"}, req : Requests, cache : 1 .. Len(caches)]

MembersType ==
    /\ DOMAIN LocalCaches \subseteq Node
    /\ LocalCaches \in [DOMAIN LocalCaches -> 1 .. Len(caches)]
    /\ Nodes \in Seq(Node)
    /\ \A n \in DOMAIN LocalCaches : \E i \in 1 .. Len(Nodes) : Nodes[i] = n

ChangeIsTyped ==
    \/ change = NoChange
    \/ change \in ChangeType /\ (change.op = "AddNode" => change.node \in DOMAIN LocalCaches)

ThreadIsTyped ==
    DOMAIN thread = Client /\ \A c \in Client : thread[c] \in {NoCall} \cup Routed \cup Fetched

DataIsTyped ==
    /\ caches \in Seq(CacheMap)
    /\ MigratedKeys \in Nat
    /\ acked \in CacheMap
    /\ racing \subseteq Key

TypeInv ==
    RingInv /\ MembersType /\ ChangeIsTyped /\ ThreadIsTyped /\ DataIsTyped

LEMMA TypeInvGivesTypeOK == TypeInv => TypeOK
<1> SUFFICES ASSUME TypeInv PROVE TypeOK
    OBVIOUS
<1>1. /\ layout \in Layouts /\ DOMAIN HashRing \subseteq Nat /\ SortedHashes \subseteq Nat
      /\ HashRing \in [DOMAIN HashRing -> Node]
    BY DEF TypeInv, RingInv, MembersType
<1>2. /\ Nodes \in Seq(Node) /\ DOMAIN LocalCaches \subseteq Node
      /\ LocalCaches \in [DOMAIN LocalCaches -> 1 .. Len(caches)]
      /\ caches \in Seq(UNION {[D -> Value] : D \in SUBSET Key})
      /\ MigratedKeys \in Nat /\ racing \subseteq Key
    BY DEF TypeInv, MembersType, DataIsTyped, CacheMap
<1>3. ChangeOK
  <2>1. CASE change = NoChange
      BY <2>1 DEF ChangeOK
  <2>2. CASE change \in ChangeType
    <3>1. DOMAIN change.data \subseteq Key /\ change.data \in [DOMAIN change.data -> Value]
        BY <2>2, MapLemma DEF ChangeType
    <3> QED BY <2>2, <3>1 DEF ChangeOK, ChangeType
  <2> QED BY <2>1, <2>2 DEF TypeInv, ChangeIsTyped
<1>4. DOMAIN thread = Client /\ \A c \in Client : CallOK(thread[c])
    BY DEF TypeInv, ThreadIsTyped, CallOK, Routed, Fetched
<1>5. IsCacheMap(acked)
    BY MapLemma DEF TypeInv, DataIsTyped, IsCacheMap
<1> QED BY <1>1, <1>2, <1>3, <1>4, <1>5 DEF TypeOK

(* A change that holds Mu *)
LEMMA ChangingLemma ==
    ASSUME ChangeIsTyped, change.op # "none"
    PROVE  change \in ChangeType /\ (change.op = "AddNode" => change.node \in DOMAIN LocalCaches)
BY DEF ChangeIsTyped, NoChange

(* A call that is running *)
LEMMA CallingLemma ==
    ASSUME ThreadIsTyped, NEW c \in Client
    PROVE  /\ thread[c].pc = "routed" => thread[c] \in Routed
           /\ thread[c].pc = "fetched" => thread[c] \in Fetched
           /\ thread[c] # NoCall => thread[c] \in Routed \cup Fetched
           /\ thread[c] \in Routed => thread[c].pc = "routed" /\ thread[c] # NoCall
           /\ thread[c] \in Fetched => thread[c].pc = "fetched" /\ thread[c] # NoCall
BY DEF ThreadIsTyped, NoCall, Routed, Fetched

(* One cache is written. *)
LEMMA StoreLemma ==
    ASSUME DataIsTyped, NEW i \in 1 .. Len(caches), NEW m \in CacheMap,
           caches' = [caches EXCEPT ![i] = m]
    PROVE  /\ caches' \in Seq(CacheMap) /\ Len(caches') = Len(caches)
           /\ caches'[i] = m
           /\ \A j \in 1 .. Len(caches) : j # i => caches'[j] = caches[j]
BY ExceptSeq DEF DataIsTyped

(* What a ring with positions routes a key to *)
LEMMA OwnerLemma ==
    ASSUME RingInv, SortedHashes # {}, NEW k \in Key
    PROVE  /\ Successor(layout.key[k], SortedHashes) \in SortedHashes
           /\ getNodeForKeyUnsafe(k) = HashRing[Successor(layout.key[k], SortedHashes)]
           /\ getNodeForKeyUnsafe(k) \in DOMAIN LocalCaches
<1>1. layout.key[k] \in Nat /\ SortedHashes \subseteq Nat
    BY LayoutLemma DEF RingInv
<1>2. Successor(layout.key[k], SortedHashes) \in SortedHashes
    BY <1>1, SuccessorLemma
<1> QED BY <1>2 DEF RingInv, getNodeForKeyUnsafe, NodeAt

LEMMA TypeInit == Init => TypeInv
<1> SUFFICES ASSUME Init PROVE TypeInv
    OBVIOUS
<1>1. RingInv /\ MembersInv
    BY RingInit
<1>2. Nodes \in Seq(Node) /\ Len(Nodes) \in Nat
    BY <1>1 DEF MembersInv
<1>3. caches \in Seq(CacheMap) /\ Len(caches) = Len(Nodes)
    BY <1>2, EmptyLemma DEF Init
<1>4. DOMAIN LocalCaches = {Nodes[i] : i \in 1 .. Len(Nodes)}
    BY <1>2 DEF Init, Range
<1>5. ASSUME NEW n \in DOMAIN LocalCaches PROVE LocalCaches[n] \in 1 .. Len(Nodes)
  <2>1. PICK i \in 1 .. Len(Nodes) : Nodes[i] = n
      BY <1>4
  <2>2. LocalCaches[n] = CHOOSE j \in 1 .. Len(Nodes) : Nodes[j] = n
      BY DEF Init
  <2> QED BY <2>1, <2>2
<1>6. LocalCaches = [n \in DOMAIN LocalCaches |-> LocalCaches[n]]
    BY DEF Init
<1>7. MembersType
  <2>1. LocalCaches \in [DOMAIN LocalCaches -> 1 .. Len(caches)]
      BY <1>3, <1>5, <1>6
  <2>2. DOMAIN LocalCaches \subseteq Node
      BY <1>2, <1>4
  <2> QED BY <1>1, <2>1, <2>2 DEF MembersInv, MembersType
<1>8. DataIsTyped
    BY <1>3, EmptyLemma DEF Init, DataIsTyped
<1>9. ChangeIsTyped /\ ThreadIsTyped
    BY DEF Init, ChangeIsTyped, ThreadIsTyped
<1> QED BY <1>1, <1>7, <1>8, <1>9 DEF TypeInv

(* The keys of the writes in flight *)
LEMMA InFlightLemma == ASSUME ThreadIsTyped PROVE WritesInFlight \subseteq Key
<1>1. ASSUME NEW c \in Client, thread[c] # NoCall PROVE thread[c].req.key \in Key
  <2>1. thread[c].req \in Requests
      BY <1>1, CallingLemma DEF Routed, Fetched
  <2> QED BY <2>1 DEF Requests
<1> QED BY <1>1 DEF WritesInFlight

(***************************************************************************)
(* The steps that leave the ring, the members and the number of caches     *)
(* alone.                                                                  *)
(***************************************************************************)
LEMMA SameMembers ==
    ASSUME MembersType, UNCHANGED ringVars, Len(caches') = Len(caches)
    PROVE  MembersType'
BY DEF MembersType, ringVars

LEMMA SameThreads ==
    ASSUME ThreadIsTyped, UNCHANGED thread, Len(caches') = Len(caches)
    PROVE  ThreadIsTyped'
BY DEF ThreadIsTyped, Fetched, Routed, NoCall, Requests

LEMMA SameChange ==
    ASSUME ChangeIsTyped, UNCHANGED <<change, ringVars>>, Len(caches') = Len(caches)
    PROVE  ChangeIsTyped'
BY DEF ChangeIsTyped, ChangeType, NoChange, CacheMap, ringVars

(* What a request does to a map *)
Applied(r, m) ==
    CASE r.op = "Set" -> With(m, r.key, r.val)
      [] r.op = "Delete" -> Without(m, r.key)
      [] r.op = "Get" -> m

LEMMA AppliedLemma ==
    ASSUME NEW r \in Requests, NEW m \in CacheMap
    PROVE  /\ Applied(r, m) \in CacheMap
           /\ r.op = "Get" => Applied(r, m) = m
           /\ \A k \in Key : k # r.key => /\ k \in DOMAIN Applied(r, m) <=> k \in DOMAIN m
                                          /\ k \in DOMAIN m => Applied(r, m)[k] = m[k]
           /\ r.op = "Set" => r.key \in DOMAIN Applied(r, m) /\ Applied(r, m)[r.key] = r.val
           /\ r.op = "Delete" => r.key \notin DOMAIN Applied(r, m)
<1>1. r.op \in {"Set", "Delete", "Get"} /\ r.key \in Key /\ (r.op = "Set" => r.val \in Value)
    BY DEF Requests
<1>2. CASE r.op = "Set"
  <2>1. Applied(r, m) = With(m, r.key, r.val)
      BY <1>2 DEF Applied
  <2>2. /\ Applied(r, m) \in CacheMap /\ DOMAIN Applied(r, m) = DOMAIN m \cup {r.key}
        /\ Applied(r, m)[r.key] = r.val
        /\ \A j \in DOMAIN m \ {r.key} : Applied(r, m)[j] = m[j]
      BY <1>1, <1>2, <2>1, WithLemma
  <2> QED BY <1>2, <2>2
<1>3. CASE r.op = "Delete"
  <2>1. Applied(r, m) = Without(m, r.key)
      BY <1>3 DEF Applied
  <2>2. /\ Applied(r, m) \in CacheMap /\ DOMAIN Applied(r, m) = DOMAIN m \ {r.key}
        /\ \A j \in DOMAIN m \ {r.key} : Applied(r, m)[j] = m[j]
    <3> DEFINE j == r.key
    <3>1. j \in Key /\ Applied(r, m) = Without(m, j)
        BY <1>1, <2>1
    <3> HIDE DEF j
    <3>2. Without(m, j) \in CacheMap /\ DOMAIN Without(m, j) = DOMAIN m \ {j}
          /\ \A i \in DOMAIN m \ {j} : Without(m, j)[i] = m[i]
        BY <3>1, WithoutLemma
    <3> QED BY <3>1, <3>2 DEF j
  <2> QED BY <1>3, <2>2
<1>4. CASE r.op = "Get"
  <2>1. Applied(r, m) = m
      BY <1>4 DEF Applied
  <2> QED BY <1>4, <2>1
<1> QED BY <1>1, <1>2, <1>3, <1>4

LEMMA UseLemma ==
    ASSUME TypeInv, NEW c \in Client, UseCache(c)
    PROVE  /\ thread[c] \in Fetched /\ thread[c].req \in Requests
           /\ thread[c].cache \in 1 .. Len(caches)
           /\ acked' = Applied(thread[c].req, acked)
           /\ caches'[thread[c].cache] = Applied(thread[c].req, caches[thread[c].cache])
           /\ \A j \in 1 .. Len(caches) : j # thread[c].cache => caches'[j] = caches[j]
           /\ DataIsTyped' /\ Len(caches') = Len(caches)
<1> DEFINE r == thread[c].req
           j == thread[c].cache
<1>1. thread[c] \in Fetched /\ r \in Requests /\ j \in 1 .. Len(caches)
    BY CallingLemma DEF UseCache, Fetched, TypeInv
<1>2. /\ caches' = [caches EXCEPT ![j] = Applied(r, caches[j])]
      /\ acked' = Applied(r, acked)
      /\ UNCHANGED <<MigratedKeys, racing>>
    BY DEF UseCache, Applied
<1>3. caches[j] \in CacheMap /\ acked \in CacheMap /\ DataIsTyped
    BY <1>1 DEF DataIsTyped, TypeInv
<1>4. Applied(r, caches[j]) \in CacheMap /\ Applied(r, acked) \in CacheMap
    BY <1>1, <1>3, AppliedLemma
<1> HIDE DEF r, j
<1>5. /\ caches' \in Seq(CacheMap) /\ Len(caches') = Len(caches)
      /\ caches'[j] = Applied(r, caches[j])
      /\ \A i \in 1 .. Len(caches) : i # j => caches'[i] = caches[i]
    BY <1>1, <1>2, <1>3, <1>4, StoreLemma
<1>6. DataIsTyped'
    BY <1>2, <1>3, <1>4, <1>5 DEF DataIsTyped, CacheMap
<1> QED BY <1>1, <1>2, <1>5, <1>6 DEF r, j

(* A step of the calls *)
LEMMA CallTypes ==
    ASSUME TypeInv, NEW c \in Client, Call(c) \/ FetchCache(c) \/ UseCache(c)
    PROVE  MembersType' /\ ChangeIsTyped' /\ ThreadIsTyped' /\ DataIsTyped'
<1> USE DEF TypeInv
<1>1. ASSUME NEW r \in Requests, GetNodeForKey(c, r)
      PROVE  MembersType' /\ ChangeIsTyped' /\ ThreadIsTyped' /\ DataIsTyped'
  <2>1. r.key \in Key
      BY DEF Requests
  <2>2. SortedHashes # {} /\ getNodeForKeyUnsafe(r.key) \in Node
      BY <1>1, <2>1, OwnerLemma DEF GetNodeForKey, MembersType
  <2> DEFINE t == [pc |-> "routed", req |-> r, node |-> getNodeForKeyUnsafe(r.key)]
  <2>3. t \in Routed
      BY <2>2 DEF Routed
  <2>4. thread' = [thread EXCEPT ![c] = t] /\ UNCHANGED <<ringVars, caches, change, MigratedKeys, acked, racing>>
      BY <1>1 DEF GetNodeForKey
  <2> HIDE DEF t
  <2>5. ThreadIsTyped'
      BY <2>3, <2>4 DEF ThreadIsTyped, Fetched, Routed, NoCall, Requests
  <2> QED BY <2>4, <2>5, SameMembers, SameChange DEF DataIsTyped, CacheMap
<1>2. CASE CallPanics(c)
  <2>1. UNCHANGED vars
      BY <1>2 DEF CallPanics
  <2> QED BY <2>1, SameMembers, SameChange, SameThreads DEF DataIsTyped, CacheMap, vars, ringVars
<1>3. CASE FetchCache(c)
  <2>1. thread[c] \in Routed
      BY <1>3, CallingLemma DEF FetchCache
  <2> DEFINE t == IF thread[c].node \in DOMAIN LocalCaches
                  THEN [pc |-> "fetched", req |-> thread[c].req,
                        cache |-> LocalCaches[thread[c].node]]
                  ELSE NoCall
  <2>3. t \in {NoCall} \cup Fetched
      BY <2>1 DEF Routed, Fetched, MembersType
  <2>4. thread' = [thread EXCEPT ![c] = t] /\ UNCHANGED <<ringVars, caches, change, MigratedKeys, acked, racing>>
      BY <1>3 DEF FetchCache
  <2> HIDE DEF t
  <2>5. ThreadIsTyped'
      BY <2>3, <2>4 DEF ThreadIsTyped, Fetched, Routed, NoCall, Requests
  <2> QED BY <2>4, <2>5, SameMembers, SameChange DEF DataIsTyped, CacheMap
<1>4. CASE UseCache(c)
  <2>1. DataIsTyped' /\ Len(caches') = Len(caches)
      BY <1>4, UseLemma
  <2>2. thread' = [thread EXCEPT ![c] = NoCall] /\ UNCHANGED <<ringVars, change>>
      BY <1>4 DEF UseCache
  <2>3. ThreadIsTyped'
      BY <2>1, <2>2 DEF ThreadIsTyped, Fetched, Routed, NoCall, Requests
  <2> QED BY <2>1, <2>2, <2>3, SameMembers, SameChange
<1> QED BY <1>1, <1>2, <1>3, <1>4 DEF Call

(***************************************************************************)
(* AddNode: one more cache, an empty one.                                  *)
(***************************************************************************)
LEMMA AddedCaches ==
    ASSUME TypeInv, NEW n \in Node, AddNode(n)
    PROVE  /\ caches' \in Seq(CacheMap) /\ Len(caches') = Len(caches) + 1 /\ Len(caches) \in Nat
           /\ caches'[Len(caches) + 1] = EmptyMap
           /\ \A i \in 1 .. Len(caches) : caches'[i] = caches[i]
           /\ DOMAIN LocalCaches' = DOMAIN LocalCaches \cup {n}
           /\ LocalCaches'[n] = Len(caches) + 1
           /\ \A m \in DOMAIN LocalCaches \ {n} : LocalCaches'[m] = LocalCaches[m]
           /\ LocalCaches' = [m \in DOMAIN LocalCaches' |-> LocalCaches'[m]]
           /\ UNCHANGED <<layout, thread, MigratedKeys, acked>>
           /\ racing' = racing \cup WritesInFlight
<1>1. caches' = Append(caches, EmptyMap) /\ caches \in Seq(CacheMap) /\ EmptyMap \in CacheMap
    BY EmptyLemma DEF TypeInv, DataIsTyped, AddNode
<1>2. LocalCaches' = With(LocalCaches, n, Len(caches) + 1)
    BY DEF AddNode
<1>3. /\ caches' \in Seq(CacheMap) /\ Len(caches') = Len(caches) + 1 /\ Len(caches) \in Nat
      /\ caches'[Len(caches) + 1] = EmptyMap
      /\ \A i \in 1 .. Len(caches) : caches'[i] = caches[i]
    BY <1>1
<1>4. /\ DOMAIN LocalCaches' = DOMAIN LocalCaches \cup {n}
      /\ LocalCaches'[n] = Len(caches) + 1
      /\ \A m \in DOMAIN LocalCaches \ {n} : LocalCaches'[m] = LocalCaches[m]
      /\ LocalCaches' = [m \in DOMAIN LocalCaches' |-> LocalCaches'[m]]
    BY <1>2 DEF With
<1> QED BY <1>3, <1>4 DEF AddNode

LEMMA AddedChange ==
    ASSUME TypeInv, NEW n \in Node, AddNode(n)
    PROVE  /\ change' \in ChangeType' /\ MuFree /\ ~MuFree'
           /\ change'.op = "AddNode" /\ change'.node = n /\ change'.old = SortedHashes
           /\ change'.todo = {p \in DOMAIN HashRing' : HashRing'[p] = n}
           /\ DOMAIN change'.data = {} /\ change'.moved = {}
<1>1. RingInv'
    BY RingStep DEF TypeInv, Next
<1>2. SortedHashes \in SUBSET Nat /\ DOMAIN HashRing' \in SUBSET Nat
    BY <1>1 DEF RingInv, TypeInv
<1>3. Len(caches') \in Nat
    BY AddedCaches
<1>4. change' = [op |-> "AddNode", node |-> n, old |-> SortedHashes,
                 todo |-> {p \in DOMAIN HashRing' : HashRing'[p] = n},
                 from |-> 0, data |-> EmptyMap, moved |-> {}, count |-> 0]
    BY DEF AddNode
<1>5. change' \in ChangeType'
    BY <1>2, <1>3, <1>4, EmptyLemma DEF ChangeType, CacheMap
<1> QED BY <1>4, <1>5, EmptyLemma DEF AddNode, MuFree, NoChange

LEMMA AddTypes ==
    ASSUME TypeInv, NEW n \in Node, AddNode(n)
    PROVE  MembersType' /\ ChangeIsTyped' /\ ThreadIsTyped' /\ DataIsTyped'
<1> USE DEF TypeInv
<1>0. /\ Len(caches') = Len(caches) + 1 /\ Len(caches) \in Nat
      /\ DOMAIN LocalCaches' = DOMAIN LocalCaches \cup {n}
      /\ LocalCaches'[n] = Len(caches) + 1
      /\ \A m \in DOMAIN LocalCaches \ {n} : LocalCaches'[m] = LocalCaches[m]
      /\ LocalCaches' = [m \in DOMAIN LocalCaches' |-> LocalCaches'[m]]
    BY AddedCaches
<1>1. MembersType'
  <2>1. Nodes' = Append(Nodes, n) /\ Nodes \in Seq(Node)
      BY DEF AddNode, MembersType
  <2>2. /\ Nodes' \in Seq(Node) /\ Len(Nodes') = Len(Nodes) + 1 /\ Len(Nodes) \in Nat
        /\ Nodes'[Len(Nodes) + 1] = n
        /\ \A i \in 1 .. Len(Nodes) : Nodes'[i] = Nodes[i]
      BY <2>1
  <2>3. \E i \in 1 .. Len(Nodes') : Nodes'[i] = n
      BY <2>2
  <2>4. ASSUME NEW m \in DOMAIN LocalCaches PROVE \E i \in 1 .. Len(Nodes') : Nodes'[i] = m
      BY <2>2 DEF MembersType
  <2>5. \A m \in DOMAIN LocalCaches' : LocalCaches'[m] \in 1 .. Len(caches')
      BY <1>0 DEF MembersType
  <2>6. LocalCaches' \in [DOMAIN LocalCaches' -> 1 .. Len(caches')]
      BY <1>0, <2>5
  <2>7. DOMAIN LocalCaches' \subseteq Node
      BY <1>0 DEF MembersType
  <2>8. \A m \in DOMAIN LocalCaches' : \E i \in 1 .. Len(Nodes') : Nodes'[i] = m
      BY <1>0, <2>3, <2>4
  <2> QED BY <2>2, <2>6, <2>7, <2>8 DEF MembersType
<1>2. ChangeIsTyped'
    BY AddedChange, AddedCaches DEF ChangeIsTyped
<1>3. ThreadIsTyped'
  <2>1. 1 .. Len(caches) \subseteq 1 .. Len(caches')
      BY <1>0
  <2>2. Fetched \subseteq Fetched' /\ Routed' = Routed
      BY <2>1 DEF Fetched, Routed, Requests
  <2>3. UNCHANGED thread
      BY AddedCaches
  <2> QED BY <2>2, <2>3 DEF ThreadIsTyped, NoCall
<1>4. DataIsTyped'
    BY AddedCaches, InFlightLemma DEF DataIsTyped, CacheMap
<1> QED BY <1>1, <1>2, <1>3, <1>4

(***************************************************************************)
(* RemoveNode: the node's data are taken along.                            *)
(***************************************************************************)
LEMMA RemovedChange ==
    ASSUME TypeInv, NEW n \in Node, RemoveNode(n)
    PROVE  /\ change' \in ChangeType' /\ MuFree /\ ~MuFree'
           /\ change'.op = "RemoveNode" /\ change'.node = n
           /\ change'.todo = {} /\ change'.moved = {}
           /\ change'.data = caches[LocalCaches[n]]
           /\ n \in DOMAIN LocalCaches
           /\ DOMAIN LocalCaches' = DOMAIN LocalCaches \ {n}
           /\ \A m \in DOMAIN LocalCaches \ {n} : LocalCaches'[m] = LocalCaches[m]
           /\ LocalCaches' = [m \in DOMAIN LocalCaches' |-> LocalCaches'[m]]
           /\ UNCHANGED <<layout, caches, thread, MigratedKeys>>
           /\ racing' = racing \cup WritesInFlight
           /\ acked' = IF SortedHashes' = {} THEN EmptyMap ELSE acked
<1>1. change' = [op |-> "RemoveNode", node |-> n, old |-> {}, todo |-> {}, from |-> 0,
                 data |-> caches[LocalCaches[n]], moved |-> {}, count |-> 0]
      /\ LocalCaches' = Without(LocalCaches, n) /\ caches' = caches /\ n \in DOMAIN LocalCaches
    BY DEF RemoveNode, getAllDataFromCache
<1>2. caches[LocalCaches[n]] \in CacheMap /\ Len(caches) \in Nat
    BY <1>1 DEF TypeInv, DataIsTyped, MembersType
<1>3. change' \in ChangeType'
    BY <1>1, <1>2 DEF ChangeType, CacheMap
<1>4. /\ DOMAIN LocalCaches' = DOMAIN LocalCaches \ {n}
      /\ \A m \in DOMAIN LocalCaches \ {n} : LocalCaches'[m] = LocalCaches[m]
      /\ LocalCaches' = [m \in DOMAIN LocalCaches' |-> LocalCaches'[m]]
    BY <1>1 DEF Without
<1> QED BY <1>1, <1>3, <1>4 DEF RemoveNode, MuFree, NoChange

LEMMA RemoveTypes ==
    ASSUME TypeInv, NEW n \in Node, RemoveNode(n)
    PROVE  MembersType' /\ ChangeIsTyped' /\ ThreadIsTyped' /\ DataIsTyped'
<1> USE DEF TypeInv
<1>1. MembersType'
  <2>1. /\ Nodes \in Seq(Node) /\ \E i \in 1 .. Len(Nodes) : Nodes[i] = n
        /\ Nodes' = removeNodeFromNodes(Nodes, n)
      BY RemovedChange DEF MembersType, RemoveNode
  <2>2. /\ Nodes' \in Seq(Node)
        /\ \A j \in 1 .. Len(Nodes) : Nodes[j] # n => \E i \in 1 .. Len(Nodes') : Nodes'[i] = Nodes[j]
    <3>1. PICK t : t = Nodes'
        OBVIOUS
    <3>2. t = removeNodeFromNodes(Nodes, n)
        BY <2>1, <3>1
    <3>3. LosesNode(Nodes, t, n)
        BY <2>1, <3>2, RemoveFromListLemma
    <3> QED BY <3>1, <3>3 DEF LosesNode
  <2>3. ASSUME NEW m \in DOMAIN LocalCaches' PROVE \E i \in 1 .. Len(Nodes') : Nodes'[i] = m
    <3>1. DOMAIN LocalCaches' = DOMAIN LocalCaches \ {n}
        BY RemovedChange
    <3>2. PICK j \in 1 .. Len(Nodes) : Nodes[j] = m
        BY <2>3, <3>1 DEF MembersType
    <3> QED BY <2>2, <2>3, <3>1, <3>2
  <2>4. LocalCaches' \in [DOMAIN LocalCaches' -> 1 .. Len(caches')] /\ DOMAIN LocalCaches' \subseteq Node
    <3>1. /\ DOMAIN LocalCaches' = DOMAIN LocalCaches \ {n}
          /\ \A m \in DOMAIN LocalCaches \ {n} : LocalCaches'[m] = LocalCaches[m]
          /\ LocalCaches' = [m \in DOMAIN LocalCaches' |-> LocalCaches'[m]]
          /\ caches' = caches
        BY RemovedChange
    <3> QED BY <3>1 DEF MembersType
  <2> QED BY <2>2, <2>3, <2>4 DEF MembersType
<1>2. ChangeIsTyped'
    BY RemovedChange DEF ChangeIsTyped
<1>3. ThreadIsTyped'
    BY RemovedChange, SameThreads
<1>4. DataIsTyped'
    BY RemovedChange, InFlightLemma, EmptyLemma DEF DataIsTyped, CacheMap
<1> QED BY <1>1, <1>2, <1>3, <1>4

(***************************************************************************)
(* The steps of a migration.                                               *)
(***************************************************************************)
At(n) == caches[LocalCaches[n]]

(* The change goes on; only its data, moved keys and so on differ. *)
SameJob ==
    /\ change' \in ChangeType /\ ~MuFree /\ ~MuFree'
    /\ change'.op = change.op /\ change'.node = change.node /\ change'.old = change.old

LEMMA JobLemma ==
    ASSUME change \in ChangeType
    PROVE  ~MuFree
BY DEF ChangeType, MuFree, NoChange

LEMMA AtLemma ==
    ASSUME TypeInv, NEW n \in DOMAIN LocalCaches
    PROVE  At(n) \in CacheMap /\ LocalCaches[n] \in 1 .. Len(caches)
BY DEF TypeInv, MembersType, DataIsTyped, At

LEMMA ScanEffect ==
    ASSUME TypeInv, NEW p, ScanVirtualNode(p),
           NEW old, old = findResponsibleNodeInOldRing(p)
    PROVE  /\ change.op = "AddNode" /\ DOMAIN change.data = {} /\ change.moved = {}
           /\ p \in change.todo
           /\ SameJob /\ change'.todo = change.todo \ {p} /\ change'.moved = {}
           /\ old \in DOMAIN LocalCaches \ {change.node} =>
                  /\ change'.from = LocalCaches[old]
                  /\ DOMAIN change'.data
                         = {k \in DOMAIN At(old) : getNodeForKeyUnsafe(k) = change.node}
                  /\ \A k \in DOMAIN change'.data : change'.data[k] = At(old)[k]
           /\ old \notin DOMAIN LocalCaches \ {change.node} => DOMAIN change'.data = {}
           /\ UNCHANGED <<layout, ringVars, caches, thread, MigratedKeys, acked, racing>>
<1>1. /\ change.op = "AddNode" /\ DOMAIN change.data = {} /\ change.moved = {} /\ p \in change.todo
      /\ UNCHANGED <<layout, ringVars, caches, thread, MigratedKeys, acked, racing>>
    BY DEF ScanVirtualNode, NothingPending
<1>2. change \in ChangeType /\ change.data \in CacheMap
    BY <1>1, ChangingLemma DEF TypeInv, ChangeType
<1>3. CASE old \in DOMAIN LocalCaches \ {change.node}
  <2> DEFINE D == {k \in DOMAIN At(old) : getNodeForKeyUnsafe(k) = change.node}
             d == Restrict(At(old), D)
  <2>1. d \in CacheMap /\ DOMAIN d = D /\ \A k \in D : d[k] = At(old)[k]
    <3>1. At(old) \in CacheMap /\ D \subseteq DOMAIN At(old)
        BY <1>3, AtLemma
    <3> HIDE DEF D
    <3> QED BY <3>1, RestrictLemma
  <2>2. change' = [change EXCEPT !.todo = @ \ {p}, !.from = LocalCaches[old], !.data = d]
      BY <1>3 DEF ScanVirtualNode, RestrictDomain, getAllDataFromCache, At
  <2>3. LocalCaches[old] \in 0 .. Len(caches)
      BY <1>3, AtLemma
  <2> HIDE DEF d, D
  <2>4. /\ change' \in ChangeType /\ change'.op = change.op /\ change'.node = change.node
        /\ change'.old = change.old /\ change'.todo = change.todo \ {p}
        /\ change'.moved = change.moved /\ change'.data = d /\ change'.from = LocalCaches[old]
      BY <1>2, <2>1, <2>2, <2>3 DEF ChangeType
  <2>5. ~MuFree /\ ~MuFree'
      BY <1>1, <2>4 DEF MuFree, NoChange
  <2> QED BY <1>1, <1>3, <2>1, <2>4, <2>5 DEF SameJob, D
<1>4. CASE old \notin DOMAIN LocalCaches \ {change.node}
  <2>1. change' = [change EXCEPT !.todo = @ \ {p}]
      BY <1>4 DEF ScanVirtualNode
  <2>2. /\ change' \in ChangeType /\ change'.op = change.op /\ change'.node = change.node
        /\ change'.old = change.old /\ change'.todo = change.todo \ {p}
        /\ change'.moved = change.moved /\ change'.data = change.data
      BY <1>2, <2>1 DEF ChangeType
  <2>3. ~MuFree /\ ~MuFree'
      BY <1>1, <2>2 DEF MuFree, NoChange
  <2> QED BY <1>1, <1>4, <2>2, <2>3 DEF SameJob
<1> QED BY <1>3, <1>4

LEMMA MigrateSetEffect ==
    ASSUME TypeInv, NEW k \in Key, MigrateSet(k)
    PROVE  /\ change.op = "AddNode" /\ change.moved = {} /\ k \in DOMAIN change.data
           /\ change.node \in DOMAIN LocalCaches
           /\ SameJob /\ change'.todo = change.todo /\ change'.from = change.from
           /\ change'.moved = {k} /\ DOMAIN change'.data = DOMAIN change.data \ {k}
           /\ \A j \in DOMAIN change'.data : change'.data[j] = change.data[j]
           /\ caches' \in Seq(CacheMap) /\ Len(caches') = Len(caches)
           /\ caches'[LocalCaches[change.node]] = With(At(change.node), k, change.data[k])
           /\ \A i \in 1 .. Len(caches) : i # LocalCaches[change.node] => caches'[i] = caches[i]
           /\ UNCHANGED <<layout, ringVars, thread, MigratedKeys, acked, racing>>
<1> DEFINE i == LocalCaches[change.node]
           w == With(At(change.node), k, change.data[k])
           d == Without(change.data, k)
<1>1. /\ change.op = "AddNode" /\ change.moved = {} /\ k \in DOMAIN change.data
      /\ caches' = [caches EXCEPT ![i] = w]
      /\ change' = [change EXCEPT !.data = d, !.moved = {k}]
      /\ UNCHANGED <<layout, ringVars, thread, MigratedKeys, acked, racing>>
    BY DEF MigrateSet, At
<1>2. change \in ChangeType /\ change.node \in DOMAIN LocalCaches
    BY <1>1, ChangingLemma DEF TypeInv
<1>3. change.data \in CacheMap /\ change.data[k] \in Value
  <2>1. change.data \in CacheMap
      BY <1>2 DEF ChangeType
  <2> QED BY <1>1, <2>1, MapLemma
<1>4. i \in 1 .. Len(caches) /\ At(change.node) \in CacheMap
    BY <1>2, AtLemma
<1>5. w \in CacheMap
    BY <1>3, <1>4, WithLemma
<1>6. d \in CacheMap /\ DOMAIN d = DOMAIN change.data \ {k}
      /\ \A j \in DOMAIN change.data \ {k} : d[j] = change.data[j]
    BY <1>3, WithoutLemma
<1> HIDE DEF i, w, d
<1>7. /\ caches' \in Seq(CacheMap) /\ Len(caches') = Len(caches) /\ caches'[i] = w
      /\ \A j \in 1 .. Len(caches) : j # i => caches'[j] = caches[j]
    BY <1>1, <1>4, <1>5, StoreLemma DEF TypeInv
<1>8. /\ change' \in ChangeType /\ change'.op = change.op /\ change'.node = change.node
      /\ change'.old = change.old /\ change'.todo = change.todo /\ change'.from = change.from
      /\ change'.moved = {k} /\ change'.data = d
    BY <1>1, <1>2, <1>6 DEF ChangeType
<1>9. ~MuFree /\ ~MuFree'
    BY <1>1, <1>8 DEF MuFree, NoChange
<1> QED BY <1>1, <1>2, <1>6, <1>7, <1>8, <1>9 DEF SameJob, i, w

LEMMA MigrateDeleteEffect ==
    ASSUME TypeInv, NEW k \in Key, MigrateDelete(k)
    PROVE  /\ change.op = "AddNode" /\ k \in change.moved
           /\ SameJob /\ change'.todo = change.todo /\ change'.from = change.from
           /\ change'.moved = {} /\ change'.data = change.data
           /\ caches' \in Seq(CacheMap) /\ Len(caches') = Len(caches)
           /\ change.from \in 1 .. Len(caches) =>
                  caches'[change.from] = Without(caches[change.from], k)
           /\ \A i \in 1 .. Len(caches) : i # change.from => caches'[i] = caches[i]
           /\ UNCHANGED <<layout, ringVars, thread, MigratedKeys, acked, racing>>
<1> DEFINE i == change.from
<1>1. /\ change.op = "AddNode" /\ k \in change.moved
      /\ caches' = [caches EXCEPT ![i] = Without(caches[i], k)]
      /\ change' = [change EXCEPT !.moved = {}, !.count = @ + 1]
      /\ UNCHANGED <<layout, ringVars, thread, MigratedKeys, acked, racing>>
    BY DEF MigrateDelete
<1>2. change \in ChangeType /\ caches \in Seq(CacheMap) /\ Len(caches) \in Nat
    BY <1>1, ChangingLemma DEF TypeInv, DataIsTyped
<1>3. i \in 0 .. Len(caches)
    BY <1>2 DEF ChangeType
<1>a. change.count + 1 \in Nat
    BY <1>2 DEF ChangeType
<1>b. change' = [change EXCEPT !.moved = {}, !.count = change.count + 1]
    BY <1>1
<1>4. /\ change' \in ChangeType /\ change'.op = change.op /\ change'.node = change.node
      /\ change'.old = change.old /\ change'.todo = change.todo /\ change'.from = change.from
      /\ change'.moved = {} /\ change'.data = change.data
    BY <1>2, <1>a, <1>b DEF ChangeType
<1>5. ~MuFree /\ ~MuFree'
    BY <1>1, <1>4 DEF MuFree, NoChange
<1> HIDE DEF i
<1>6. CASE i = 0
  <2>1. caches' = caches
      BY <1>1, <1>2, <1>6
  <2>2. i \notin 1 .. Len(caches)
      BY <1>6
  <2>3. UNCHANGED <<layout, ringVars, thread, MigratedKeys, acked, racing>>
      BY <1>1
  <2>4. change.op = "AddNode" /\ k \in change.moved
      BY <1>1
  <2> QED BY <1>2, <1>4, <1>5, <2>1, <2>2, <2>3, <2>4 DEF SameJob, i
<1>7. CASE i \in 1 .. Len(caches)
  <2>1. caches[i] \in CacheMap
      BY <1>2, <1>7
  <2>2. Without(caches[i], k) \in CacheMap
      BY <2>1, WithoutLemma
  <2>3. /\ caches' \in Seq(CacheMap) /\ Len(caches') = Len(caches)
        /\ caches'[i] = Without(caches[i], k)
        /\ \A j \in 1 .. Len(caches) : j # i => caches'[j] = caches[j]
      BY <1>1, <1>7, <2>2, StoreLemma DEF TypeInv
  <2> QED BY <1>1, <1>4, <1>5, <2>3 DEF SameJob, i
<1> QED BY <1>2, <1>3, <1>6, <1>7

LEMMA RedistributeEffect ==
    ASSUME TypeInv, NEW k \in Key, redistributeDataBasic(k)
    PROVE  /\ change.op = "RemoveNode" /\ k \in DOMAIN change.data /\ SortedHashes # {}
           /\ getNodeForKeyUnsafe(k) \in DOMAIN LocalCaches
           /\ SameJob /\ change'.todo = change.todo /\ change'.moved = change.moved
           /\ DOMAIN change'.data = DOMAIN change.data \ {k}
           /\ \A j \in DOMAIN change'.data : change'.data[j] = change.data[j]
           /\ caches' \in Seq(CacheMap) /\ Len(caches') = Len(caches)
           /\ caches'[LocalCaches[getNodeForKeyUnsafe(k)]]
                  = With(At(getNodeForKeyUnsafe(k)), k, change.data[k])
           /\ \A i \in 1 .. Len(caches) :
                  i # LocalCaches[getNodeForKeyUnsafe(k)] => caches'[i] = caches[i]
           /\ UNCHANGED <<layout, ringVars, thread, MigratedKeys, acked, racing>>
<1> DEFINE n == getNodeForKeyUnsafe(k)
           i == LocalCaches[n]
           w == With(At(n), k, change.data[k])
           d == Without(change.data, k)
<1>0. change.op = "RemoveNode" /\ k \in DOMAIN change.data /\ SortedHashes # {}
    BY DEF redistributeDataBasic
<1>1. n \in DOMAIN LocalCaches
    BY <1>0, OwnerLemma DEF TypeInv
<1>2. /\ caches' = [caches EXCEPT ![i] = w]
      /\ change' = [change EXCEPT !.data = d, !.count = @ + 1]
      /\ UNCHANGED <<layout, ringVars, thread, MigratedKeys, acked, racing>>
    BY <1>1 DEF redistributeDataBasic, At
<1>3. change \in ChangeType
    BY <1>0, ChangingLemma DEF TypeInv
<1>4. change.data \in CacheMap /\ change.data[k] \in Value /\ change.count + 1 \in Nat
  <2>1. change.data \in CacheMap /\ change.count + 1 \in Nat
      BY <1>3 DEF ChangeType
  <2> QED BY <1>0, <2>1, MapLemma
<1>5. i \in 1 .. Len(caches) /\ At(n) \in CacheMap
    BY <1>1, AtLemma
<1>6. w \in CacheMap
    BY <1>4, <1>5, WithLemma
<1>7. d \in CacheMap /\ DOMAIN d = DOMAIN change.data \ {k}
      /\ \A j \in DOMAIN change.data \ {k} : d[j] = change.data[j]
    BY <1>4, WithoutLemma
<1> HIDE DEF n, i, w, d
<1>8. /\ caches' \in Seq(CacheMap) /\ Len(caches') = Len(caches) /\ caches'[i] = w
      /\ \A j \in 1 .. Len(caches) : j # i => caches'[j] = caches[j]
    BY <1>2, <1>5, <1>6, StoreLemma DEF TypeInv
<1>9. change' = [change EXCEPT !.data = d, !.count = change.count + 1]
    BY <1>2
<1>10. /\ change' \in ChangeType /\ change'.op = change.op /\ change'.node = change.node
       /\ change'.old = change.old /\ change'.todo = change.todo
       /\ change'.moved = change.moved /\ change'.data = d
    BY <1>3, <1>4, <1>7, <1>9 DEF ChangeType
<1>11. ~MuFree /\ ~MuFree'
    BY <1>0, <1>10 DEF MuFree, NoChange
<1> QED BY <1>0, <1>1, <1>2, <1>7, <1>8, <1>10, <1>11 DEF SameJob, i, w, n

LEMMA EndEffect ==
    ASSUME TypeInv, RedistributePanics \/ EndChange
    PROVE  /\ ~MuFree /\ MuFree' /\ MigratedKeys' \in Nat
           /\ RedistributePanics => SortedHashes = {} /\ change.op = "RemoveNode"
           /\ EndChange => change.todo = {} /\ DOMAIN change.data = {} /\ change.moved = {}
           /\ UNCHANGED <<layout, ringVars, caches, thread, acked, racing>>
<1>1. CASE RedistributePanics
    BY <1>1 DEF RedistributePanics, EndChange, NothingPending, MuFree, NoChange, TypeInv, DataIsTyped
<1>2. CASE EndChange
  <2>1. change \in ChangeType
      BY <1>2, ChangingLemma DEF EndChange, MuFree, TypeInv, ChangeIsTyped
  <2>2. change.count \in Nat /\ MigratedKeys \in Nat
      BY <2>1 DEF ChangeType, TypeInv, DataIsTyped
  <2> QED BY <1>2, <2>2 DEF RedistributePanics, EndChange, NothingPending, MuFree
<1> QED BY <1>1, <1>2

LEMMA MigrationTypes ==
    ASSUME TypeInv, MigrationStep
    PROVE  MembersType' /\ ChangeIsTyped' /\ ThreadIsTyped' /\ DataIsTyped'
<1> USE DEF TypeInv
<1>1. ASSUME SameJob, change.op = "RemoveNode" \/ change.node \in DOMAIN LocalCaches,
             caches' \in Seq(CacheMap), Len(caches') = Len(caches),
             UNCHANGED <<ringVars, thread, MigratedKeys, acked, racing>>
      PROVE  MembersType' /\ ChangeIsTyped' /\ ThreadIsTyped' /\ DataIsTyped'
  <2>1. change' \in ChangeType'
      BY <1>1 DEF SameJob, ChangeType, CacheMap
  <2>2. ChangeIsTyped'
      BY <1>1, <2>1 DEF ChangeIsTyped, SameJob, ringVars
  <2>3. DataIsTyped'
      BY <1>1 DEF DataIsTyped, CacheMap
  <2> QED BY <1>1, <2>2, <2>3, SameMembers, SameThreads
<1>2. ASSUME change.op = "AddNode" PROVE change.node \in DOMAIN LocalCaches
    BY <1>2, ChangingLemma
<1>3. caches \in Seq(CacheMap)
    BY DEF DataIsTyped
<1>4. ASSUME NEW p \in DOMAIN HashRing, ScanVirtualNode(p)
      PROVE  MembersType' /\ ChangeIsTyped' /\ ThreadIsTyped' /\ DataIsTyped'
    BY <1>1, <1>2, <1>3, <1>4, ScanEffect
<1>5. ASSUME NEW k \in Key, MigrateSet(k)
      PROVE  MembersType' /\ ChangeIsTyped' /\ ThreadIsTyped' /\ DataIsTyped'
    BY <1>1, <1>2, <1>5, MigrateSetEffect
<1>6. ASSUME NEW k \in Key, MigrateDelete(k)
      PROVE  MembersType' /\ ChangeIsTyped' /\ ThreadIsTyped' /\ DataIsTyped'
    BY <1>1, <1>2, <1>6, MigrateDeleteEffect
<1>7. ASSUME NEW k \in Key, redistributeDataBasic(k)
      PROVE  MembersType' /\ ChangeIsTyped' /\ ThreadIsTyped' /\ DataIsTyped'
    BY <1>1, <1>7, RedistributeEffect
<1>8. CASE RedistributePanics \/ EndChange
  <2>1. /\ MuFree' /\ MigratedKeys' \in Nat
        /\ UNCHANGED <<layout, ringVars, caches, thread, acked, racing>>
      BY <1>8, EndEffect
  <2>2. ChangeIsTyped'
      BY <2>1 DEF ChangeIsTyped, MuFree
  <2>3. DataIsTyped'
      BY <2>1 DEF DataIsTyped, CacheMap
  <2> QED BY <2>1, <2>2, <2>3, SameMembers, SameThreads
<1> QED BY <1>4, <1>5, <1>6, <1>7, <1>8 DEF MigrationStep

LEMMA TypeStep == TypeInv /\ [Next]_vars => TypeInv'
<1> SUFFICES ASSUME TypeInv, [Next]_vars PROVE TypeInv'
    OBVIOUS
<1>1. RingInv'
    BY RingStep DEF TypeInv
<1>2. CASE UNCHANGED vars
  <2>1. /\ UNCHANGED <<ringVars, caches, change, thread, MigratedKeys, acked, racing>>
        /\ Len(caches') = Len(caches)
      BY <1>2 DEF vars, ringVars
  <2>2. MembersType' /\ ChangeIsTyped' /\ ThreadIsTyped' /\ DataIsTyped'
      BY <2>1, SameMembers, SameChange, SameThreads DEF TypeInv, DataIsTyped, CacheMap
  <2> QED BY <1>1, <2>2 DEF TypeInv
<1>3. CASE Next
  <2>1. MembersType' /\ ChangeIsTyped' /\ ThreadIsTyped' /\ DataIsTyped'
      BY <1>3, CallTypes, AddTypes, RemoveTypes, MigrationTypes DEF Next
  <2> QED BY <1>1, <2>1 DEF TypeInv
<1> QED BY <1>2, <1>3

(***************************************************************************)
(* Types are kept by every interleaving of calls, additions (also of       *)
(* members), removals and migrations: in particular a call never holds a   *)
(* cache that was not made, and the ring never leads to a node that is     *)
(* none (getNodeForKeyUnsafe finds its position in HashRing).              *)
(***************************************************************************)
THEOREM TypeCorrect == Spec => []TypeOK
BY TypeInit, TypeStep, TypeInvGivesTypeOK, PTL DEF Spec

-----------------------------------------------------------------------------
(***************************************************************************)
(* No two virtual nodes have the same hash.  On a collision the later node *)
(* takes the position over, its removal takes the position away from both, *)
(* and a migration that looks the position up finds the new node in place  *)
(* of the old one.                                                         *)
(***************************************************************************)
NoCollision ==
    \A l \in Layouts : \A m, n \in Node : m # n => l.vnodes[m] \cap l.vnodes[n] = {}

(***************************************************************************)
(* The ring consists of the virtual nodes of the members.                  *)
(***************************************************************************)
ExactInv ==
    /\ \A n \in DOMAIN LocalCaches : \A p \in layout.vnodes[n] :
           p \in DOMAIN HashRing /\ HashRing[p] = n
    /\ \A p \in DOMAIN HashRing : p \in layout.vnodes[HashRing[p]]

LEMMA ExactInit == ASSUME NoCollision, Init PROVE ExactInv
<1>1. RingInv /\ MembersInv
    BY RingInit
<1>2. layout \in Layouts /\ Nodes \in Seq(Node) /\ HashRing = buildHashRing(Nodes, layout.vnodes)
    BY <1>1 DEF Init, MembersInv
<1>3. /\ \A p \in DOMAIN HashRing : \E i \in 1 .. Len(Nodes) :
             HashRing[p] = Nodes[i] /\ p \in layout.vnodes[Nodes[i]]
      /\ \A i \in 1 .. Len(Nodes) : layout.vnodes[Nodes[i]] \subseteq DOMAIN HashRing
  <2>1. IsRingOf(HashRing, Nodes, layout)
      BY <1>2, BuildLemma
  <2> QED BY <2>1 DEF IsRingOf
<1>4. ASSUME NEW n \in DOMAIN LocalCaches, NEW p \in layout.vnodes[n]
      PROVE  p \in DOMAIN HashRing /\ HashRing[p] = n
  <2>1. PICK i \in 1 .. Len(Nodes) : Nodes[i] = n
      BY <1>1 DEF MembersInv
  <2>2. p \in DOMAIN HashRing
      BY <1>3, <2>1
  <2>3. PICK j \in 1 .. Len(Nodes) : HashRing[p] = Nodes[j] /\ p \in layout.vnodes[Nodes[j]]
      BY <1>3, <2>2
  <2>4. Nodes[i] \in Node /\ Nodes[j] \in Node
      BY <1>2
  <2> QED BY <1>2, <2>1, <2>2, <2>3, <2>4 DEF NoCollision
<1> QED BY <1>3, <1>4 DEF ExactInv

LEMMA ExactStep ==
    ASSUME NoCollision, RingInv, MembersType, ExactInv, [Next]_vars
    PROVE  ExactInv'
<1>0. layout \in Layouts /\ DOMAIN LocalCaches \subseteq Node
    BY DEF RingInv, MembersType
<1>1. ASSUME NEW n \in Node, AddNode(n) PROVE ExactInv'
  <2>1. /\ layout' = layout
        /\ DOMAIN HashRing' = DOMAIN HashRing \cup layout.vnodes[n]
        /\ \A p \in layout.vnodes[n] : HashRing'[p] = n
        /\ \A p \in DOMAIN HashRing \ layout.vnodes[n] : HashRing'[p] = HashRing[p]
        /\ DOMAIN LocalCaches' = DOMAIN LocalCaches \cup {n}
      BY <1>1, AddedRing
  <2>2. ASSUME NEW m \in DOMAIN LocalCaches', NEW p \in layout.vnodes[m]
        PROVE  p \in DOMAIN HashRing' /\ HashRing'[p] = m
    <3>1. CASE m = n BY <2>1, <3>1
    <3>2. CASE m # n
      <4>1. m \in DOMAIN LocalCaches /\ p \notin layout.vnodes[n]
          BY <1>0, <2>1, <3>2 DEF NoCollision
      <4> QED BY <2>1, <4>1 DEF ExactInv
    <3> QED BY <3>1, <3>2
  <2> QED BY <2>1, <2>2 DEF ExactInv
<1>2. ASSUME NEW n \in Node, RemoveNode(n) PROVE ExactInv'
  <2>1. /\ layout' = layout
        /\ DOMAIN HashRing' = {p \in DOMAIN HashRing : HashRing[p] # n}
        /\ \A p \in DOMAIN HashRing' : HashRing'[p] = HashRing[p]
        /\ DOMAIN LocalCaches' = DOMAIN LocalCaches \ {n}
      BY <1>2, RemovedRing
  <2> QED BY <2>1 DEF ExactInv
<1>3. ASSUME UNCHANGED <<layout, ringVars>> PROVE ExactInv'
    BY <1>3 DEF ringVars, ExactInv
<1> QED BY <1>1, <1>2, <1>3, OnlyChangesMoveTheRing

LEMMA ExactIsRebuilt ==
    ASSUME NoCollision, RingInv, MembersInv, ExactInv
    PROVE  RingIsRebuilt
<1> DEFINE ring == buildHashRing(Nodes, layout.vnodes)
<1>1. layout \in Layouts /\ Nodes \in Seq(Node) /\ HashRing = [p \in DOMAIN HashRing |-> HashRing[p]]
    BY DEF RingInv, MembersInv
<1>2. /\ ring = [p \in DOMAIN ring |-> ring[p]]
      /\ \A p \in DOMAIN ring : \E i \in 1 .. Len(Nodes) :
             ring[p] = Nodes[i] /\ p \in layout.vnodes[Nodes[i]]
      /\ \A i \in 1 .. Len(Nodes) : layout.vnodes[Nodes[i]] \subseteq DOMAIN ring
  <2>1. IsRingOf(ring, Nodes, layout)
      BY <1>1, BuildLemma
  <2> HIDE DEF ring
  <2> QED BY <2>1 DEF IsRingOf
<1> HIDE DEF ring
<1>3. ASSUME NEW p \in DOMAIN HashRing PROVE p \in DOMAIN ring
  <2>1. PICK i \in 1 .. Len(Nodes) : Nodes[i] = HashRing[p]
      BY DEF RingInv, MembersInv
  <2> QED BY <1>2, <2>1 DEF ExactInv
<1>4. ASSUME NEW p \in DOMAIN ring PROVE p \in DOMAIN HashRing /\ HashRing[p] = ring[p]
  <2>1. PICK i \in 1 .. Len(Nodes) : ring[p] = Nodes[i] /\ p \in layout.vnodes[Nodes[i]]
      BY <1>2
  <2> QED BY <2>1 DEF ExactInv, MembersInv
<1>5. DOMAIN HashRing = DOMAIN ring
    BY <1>3, <1>4
<1>6. HashRing = ring
    BY <1>1, <1>2, <1>4, <1>5
<1> QED BY <1>6 DEF RingIsRebuilt, ring

(***************************************************************************)
(* The ring that additions and removals have left is the one buildHashRing *)
(* would build from the node list, as long as no two virtual nodes have    *)
(* the same hash and no member is added again (addNodeToHashRing,          *)
(* removeNodeFromHashRing).                                                *)
(***************************************************************************)
THEOREM RebuiltSafe == ~ReAdd /\ NoCollision => (Spec => []RingIsRebuilt)
<1> SUFFICES ASSUME ~ReAdd, NoCollision PROVE Spec => []RingIsRebuilt
    OBVIOUS
<1>1. Init => TypeInv /\ MembersInv /\ ExactInv
    BY TypeInit, RingInit, ExactInit
<1>2. TypeInv /\ MembersInv /\ ExactInv /\ [Next]_vars => (TypeInv /\ MembersInv /\ ExactInv)'
    BY TypeStep, MembersStep, ExactStep DEF TypeInv
<1>3. TypeInv /\ MembersInv /\ ExactInv => RingIsRebuilt
    BY ExactIsRebuilt DEF TypeInv
<1> QED BY <1>1, <1>2, <1>3, PTL DEF Spec

-----------------------------------------------------------------------------
(***************************************************************************)
(* No two members share a cache.                                           *)
(***************************************************************************)
CachesInv == \A m, n \in DOMAIN LocalCaches : LocalCaches[m] = LocalCaches[n] => m = n

(***************************************************************************)
(* The change that holds Mu: the positions it has saved are those without  *)
(* the new node's, and it moves one key at a time.                         *)
(***************************************************************************)
ChangeInv ==
    /\ change.op = "AddNode" =>
           /\ change.node \in DOMAIN LocalCaches
           /\ change.old = SortedHashes \ layout.vnodes[change.node]
           /\ \A j, k \in change.moved : j = k
    /\ change.op = "RemoveNode" => change.moved = {}

Owner(k) == getNodeForKeyUnsafe(k)
OldOwner(k) == NodeAt(HashRing, change.old, layout.key[k])

(* The virtual node that a key is routed to *)
Place(k) == Successor(layout.key[k], SortedHashes)

(* Key k is on its way from node n to the node that is being added. *)
Leaves(k, n) ==
    /\ change.op = "AddNode" /\ change.old # {}
    /\ Owner(k) = change.node /\ n = OldOwner(k) /\ n # change.node /\ n \in DOMAIN LocalCaches

Carried(k) == ~MuFree /\ k \in DOMAIN change.data
Moved(k) == ~MuFree /\ k \in change.moved

(***************************************************************************)
(* A cache holds nothing but the current value, and only where the key is  *)
(* routed to or is being moved away from.                                  *)
(***************************************************************************)
OnlyCurrent(k) ==
    \A n \in DOMAIN LocalCaches : k \in DOMAIN At(n) =>
        /\ k \in DOMAIN acked /\ At(n)[k] = acked[k]
        /\ n = Owner(k) \/ Leaves(k, n)

(***************************************************************************)
(* What a change carries is the current value, and comes from the node     *)
(* that the key leaves.                                                    *)
(***************************************************************************)
CarriesCurrent(k) ==
    /\ Carried(k) /\ SortedHashes # {} => k \in DOMAIN acked /\ change.data[k] = acked[k]
    /\ change.op = "AddNode" /\ (Carried(k) \/ Moved(k)) =>
           Leaves(k, OldOwner(k)) /\ change.from = LocalCaches[OldOwner(k)]
    /\ Moved(k) => k \in DOMAIN At(change.node)

(***************************************************************************)
(* What has to leave a node is still to be scanned, or carried, or has     *)
(* only to be deleted.                                                     *)
(***************************************************************************)
WillLeave(k) ==
    \A n \in DOMAIN LocalCaches : k \in DOMAIN At(n) /\ n # Owner(k) =>
        Place(k) \in change.todo \/ Carried(k) \/ Moved(k)

(***************************************************************************)
(* A written value is where it is looked for, or about to come there.      *)
(***************************************************************************)
IsSomewhere(k) ==
    k \in DOMAIN acked =>
        /\ SortedHashes # {}
        /\ \/ k \in DOMAIN At(Owner(k))
           \/ Leaves(k, OldOwner(k)) /\ k \in DOMAIN At(OldOwner(k))
           \/ change.op = "RemoveNode" /\ Carried(k)

(***************************************************************************)
(* A write in flight was routed since the last change: to the right cache. *)
(***************************************************************************)
WriteOf(c, k) == thread[c] # NoCall /\ thread[c].req.key = k /\ thread[c].req.op # "Get"

WritesToOwner(k) ==
    \A c \in Client : WriteOf(c, k) =>
        /\ MuFree /\ SortedHashes # {}
        /\ thread[c].pc = "routed" => thread[c].node = Owner(k)
        /\ thread[c].pc = "fetched" => thread[c].cache = LocalCaches[Owner(k)]

KeyOK(k) ==
    OnlyCurrent(k) /\ CarriesCurrent(k) /\ WillLeave(k) /\ IsSomewhere(k) /\ WritesToOwner(k)

DataInv == \A k \in Key \ racing : KeyOK(k)

Inv ==
    TypeInv /\ MembersInv /\ ExactInv /\ CachesInv /\ ChangeInv /\ DataInv

LEMMA CachesInit == Init => CachesInv
<1> SUFFICES ASSUME Init, NEW m \in DOMAIN LocalCaches, NEW n \in DOMAIN LocalCaches,
                    LocalCaches[m] = LocalCaches[n]
             PROVE  m = n
    BY DEF CachesInv
<1>1. MembersInv
    BY RingInit
<1>2. ASSUME NEW x \in DOMAIN LocalCaches PROVE Nodes[LocalCaches[x]] = x
  <2>1. PICK i \in 1 .. Len(Nodes) : Nodes[i] = x
      BY <1>1 DEF MembersInv
  <2>2. LocalCaches[x] = CHOOSE j \in 1 .. Len(Nodes) : Nodes[j] = x
      BY DEF Init
  <2> QED BY <2>1, <2>2
<1> QED BY <1>2

LEMMA CachesStep ==
    ASSUME ~ReAdd, TypeInv, CachesInv, [Next]_vars
    PROVE  CachesInv'
<1>1. ASSUME NEW n \in Node, AddNode(n) PROVE CachesInv'
  <2>1. /\ Len(caches) \in Nat
        /\ DOMAIN LocalCaches' = DOMAIN LocalCaches \cup {n}
        /\ LocalCaches'[n] = Len(caches) + 1
        /\ \A m \in DOMAIN LocalCaches \ {n} : LocalCaches'[m] = LocalCaches[m]
      BY <1>1, AddedCaches
  <2>2. \A m \in DOMAIN LocalCaches : LocalCaches[m] \in 1 .. Len(caches)
      BY DEF TypeInv, MembersType
  <2> QED BY <2>1, <2>2 DEF CachesInv
<1>2. ASSUME NEW n \in Node, RemoveNode(n) PROVE CachesInv'
  <2>1. /\ DOMAIN LocalCaches' = DOMAIN LocalCaches \ {n}
        /\ \A m \in DOMAIN LocalCaches \ {n} : LocalCaches'[m] = LocalCaches[m]
      BY <1>2, RemovedChange
  <2> QED BY <2>1 DEF CachesInv
<1>3. ASSUME UNCHANGED <<layout, ringVars>> PROVE CachesInv'
    BY <1>3 DEF ringVars, CachesInv
<1> QED BY <1>1, <1>2, <1>3, OnlyChangesMoveTheRing

(***************************************************************************)
(* The virtual nodes of a node that is not a member are not on the ring.   *)
(***************************************************************************)
LEMMA NewPositions ==
    ASSUME NoCollision, TypeInv, ExactInv, NEW n \in Node, n \notin DOMAIN LocalCaches
    PROVE  DOMAIN HashRing \cap layout.vnodes[n] = {}
<1> SUFFICES ASSUME NEW p \in DOMAIN HashRing, p \in layout.vnodes[n] PROVE FALSE
    OBVIOUS
<1>1. HashRing[p] \in DOMAIN LocalCaches /\ HashRing[p] \in Node /\ layout \in Layouts
    BY DEF TypeInv, RingInv, MembersType
<1>2. p \in layout.vnodes[HashRing[p]]
    BY DEF ExactInv
<1> QED BY <1>1, <1>2 DEF NoCollision

(* A ring without positions has no members. *)
LEMMA EmptyRing ==
    ASSUME TypeInv, ExactInv, SortedHashes = {}
    PROVE  DOMAIN LocalCaches = {}
<1> SUFFICES ASSUME NEW n \in DOMAIN LocalCaches PROVE FALSE
    OBVIOUS
<1>1. n \in Node /\ layout \in Layouts /\ SortedHashes = DOMAIN HashRing
    BY DEF TypeInv, RingInv, MembersType
<1>2. PICK p \in layout.vnodes[n] : TRUE
    BY <1>1, LayoutsAssumption
<1> QED BY <1>1, <1>2 DEF ExactInv

LEMMA NoReAdd ==
    ASSUME ~ReAdd, NEW n \in Node, AddNode(n)
    PROVE  n \notin DOMAIN LocalCaches
BY DEF AddNode

LEMMA ChangeInvStep ==
    ASSUME ~ReAdd, NoCollision, TypeInv, ExactInv, ChangeInv, [Next]_vars
    PROVE  ChangeInv'
<1>1. ASSUME NEW n \in Node, AddNode(n) PROVE ChangeInv'
  <2>1. DOMAIN HashRing \cap layout.vnodes[n] = {} /\ SortedHashes = DOMAIN HashRing
      BY <1>1, NoReAdd, NewPositions DEF TypeInv, RingInv
  <2>2. /\ layout' = layout /\ SortedHashes' = DOMAIN HashRing \cup layout.vnodes[n]
        /\ DOMAIN LocalCaches' = DOMAIN LocalCaches \cup {n}
      BY <1>1, AddedRing DEF TypeInv
  <2>3. /\ change'.op = "AddNode" /\ change'.node = n /\ change'.old = SortedHashes
        /\ change'.moved = {}
      BY <1>1, AddedChange
  <2> QED BY <2>1, <2>2, <2>3 DEF ChangeInv
<1>2. ASSUME NEW n \in Node, RemoveNode(n) PROVE ChangeInv'
  <2>1. change'.op = "RemoveNode" /\ change'.moved = {}
      BY <1>2, RemovedChange
  <2> QED BY <2>1 DEF ChangeInv
<1>3. ASSUME NEW p \in DOMAIN HashRing, ScanVirtualNode(p) PROVE ChangeInv'
  <2>1. SameJob /\ change'.moved = {} /\ UNCHANGED <<layout, ringVars>>
      BY <1>3, ScanEffect
  <2> QED BY <2>1 DEF ChangeInv, SameJob, ringVars
<1>4. ASSUME NEW k \in Key, MigrateSet(k) PROVE ChangeInv'
  <2>1. SameJob /\ change.op = "AddNode" /\ change'.moved = {k} /\ UNCHANGED <<layout, ringVars>>
      BY <1>4, MigrateSetEffect
  <2> QED BY <2>1 DEF ChangeInv, SameJob, ringVars
<1>5. ASSUME NEW k \in Key, MigrateDelete(k) PROVE ChangeInv'
  <2>1. SameJob /\ change'.moved = {} /\ UNCHANGED <<layout, ringVars>>
      BY <1>5, MigrateDeleteEffect
  <2> QED BY <2>1 DEF ChangeInv, SameJob, ringVars
<1>6. ASSUME NEW k \in Key, redistributeDataBasic(k) PROVE ChangeInv'
  <2>1. SameJob /\ change.op = "RemoveNode" /\ change'.moved = change.moved
      BY <1>6, RedistributeEffect
  <2> QED BY <2>1 DEF ChangeInv, SameJob
<1>7. CASE RedistributePanics \/ EndChange
    BY <1>7, EndEffect DEF ChangeInv, MuFree, NoChange
<1>8. ASSUME UNCHANGED <<change, layout, ringVars>> PROVE ChangeInv'
    BY <1>8 DEF ChangeInv, ringVars
<1> QED BY <1>1, <1>2, <1>3, <1>4, <1>5, <1>6, <1>7, <1>8
    DEF Next, MigrationStep, Call, GetNodeForKey, CallPanics, FetchCache, UseCache, vars, ringVars

-----------------------------------------------------------------------------
(***************************************************************************)
(* The steps that do not concern a key: nothing changes of it in any cache *)
(* nor in what the change carries.                                         *)
(***************************************************************************)
SameIn(k, m, mm) == (k \in DOMAIN mm <=> k \in DOMAIN m) /\ (k \in DOMAIN m => mm[k] = m[k])

StoresAlike(k) ==
    /\ UNCHANGED <<layout, ringVars>>
    /\ \A j \in 1 .. Len(caches) : SameIn(k, caches[j], caches'[j])
    /\ SameIn(k, acked, acked')

JobAlike(k) ==
    /\ change'.op = change.op
    /\ change.op = "AddNode" => /\ change'.node = change.node /\ change'.old = change.old
                                /\ change'.from = change.from /\ change'.todo = change.todo
    /\ Carried(k)' <=> Carried(k)
    /\ Carried(k) => change'.data[k] = change.data[k]
    /\ Moved(k)' <=> Moved(k)

Placed(k) == OnlyCurrent(k) /\ CarriesCurrent(k) /\ WillLeave(k) /\ IsSomewhere(k)

(* The routing of a key depends on the ring alone. *)
LEMMA SameRouting ==
    ASSUME UNCHANGED <<layout, ringVars>>, NEW k \in Key
    PROVE  /\ Owner(k)' = Owner(k) /\ Place(k)' = Place(k)
           /\ LocalCaches' = LocalCaches /\ SortedHashes' = SortedHashes
           /\ change'.old = change.old => OldOwner(k)' = OldOwner(k)
BY DEF ringVars, Owner, Place, OldOwner, getNodeForKeyUnsafe

(* Where a key leaves from: only while a node is being added. *)
LEMMA LeavesLemma ==
    ASSUME NEW k, NEW n, Leaves(k, n)
    PROVE  /\ change.op = "AddNode" /\ ~MuFree /\ Owner(k) = change.node /\ n = OldOwner(k)
           /\ n # Owner(k) /\ n \in DOMAIN LocalCaches
BY DEF Leaves, MuFree, NoChange

LEMMA SameLeaves ==
    ASSUME UNCHANGED <<layout, ringVars>>, NEW k \in Key, NEW n, change'.op = change.op,
           change.op = "AddNode" => change'.node = change.node /\ change'.old = change.old
    PROVE  Leaves(k, n)' <=> Leaves(k, n)
<1>1. /\ Owner(k)' = Owner(k) /\ LocalCaches' = LocalCaches
      /\ change'.old = change.old => OldOwner(k)' = OldOwner(k)
    BY SameRouting
<1>2. CASE change.op = "AddNode"
    BY <1>1, <1>2 DEF Leaves
<1>3. CASE change.op # "AddNode"
    BY <1>3 DEF Leaves
<1> QED BY <1>2, <1>3

LEMMA AlikeLemma ==
    ASSUME TypeInv, ExactInv, ChangeInv, NEW k \in Key, StoresAlike(k), JobAlike(k), Placed(k)
    PROVE  Placed(k)'
<1>1. /\ Owner(k)' = Owner(k) /\ Place(k)' = Place(k)
      /\ LocalCaches' = LocalCaches /\ SortedHashes' = SortedHashes
      /\ change'.old = change.old => OldOwner(k)' = OldOwner(k)
    BY SameRouting DEF StoresAlike
<1>2. \A n : Leaves(k, n)' <=> Leaves(k, n)
    BY SameLeaves DEF StoresAlike, JobAlike
<1>3. ASSUME NEW n \in DOMAIN LocalCaches PROVE SameIn(k, At(n), At(n)')
  <2>1. LocalCaches[n] \in 1 .. Len(caches)
      BY AtLemma
  <2> QED BY <1>1, <2>1 DEF At, StoresAlike
<1>4. SameIn(k, acked, acked')
    BY DEF StoresAlike
<1>5. OnlyCurrent(k)'
    BY <1>1, <1>2, <1>3, <1>4 DEF OnlyCurrent, SameIn, Placed
<1>6. CarriesCurrent(k)'
  <2>1. Carried(k)' /\ SortedHashes' # {} => k \in DOMAIN acked' /\ change'.data[k] = acked'[k]
      BY <1>1, <1>4 DEF CarriesCurrent, Placed, JobAlike, SameIn
  <2>2. ASSUME change'.op = "AddNode", Carried(k)' \/ Moved(k)'
        PROVE  Leaves(k, OldOwner(k))' /\ change'.from = LocalCaches'[OldOwner(k)']
    <3>1. /\ change.op = "AddNode" /\ OldOwner(k)' = OldOwner(k) /\ change'.from = change.from
          /\ Carried(k) \/ Moved(k)
        BY <1>1, <2>2 DEF JobAlike
    <3>2. Leaves(k, OldOwner(k)) /\ change.from = LocalCaches[OldOwner(k)]
        BY <3>1 DEF CarriesCurrent, Placed
    <3>3. OldOwner(k)' = OldOwner(k) /\ Owner(k)' = Owner(k) /\ LocalCaches' = LocalCaches
        BY <1>1, <3>1
    <3>4. Leaves(k, OldOwner(k))'
        BY <3>1, <3>2, <3>3 DEF Leaves, JobAlike
    <3> QED BY <1>1, <3>1, <3>2, <3>4
  <2>3. ASSUME Moved(k)' PROVE k \in DOMAIN At(change.node)'
    <3>1. Moved(k) /\ k \in DOMAIN At(change.node)
        BY <2>3 DEF JobAlike, CarriesCurrent, Placed
    <3>2. change.op = "AddNode" /\ change.node \in DOMAIN LocalCaches
      <4>1. change.op \in {"AddNode", "RemoveNode"}
        <5>1. change \in ChangeType
            BY <3>1 DEF Moved, MuFree, TypeInv, ChangeIsTyped
        <5> QED BY <5>1 DEF ChangeType
      <4> QED BY <3>1, <4>1 DEF ChangeInv, Moved
    <3>3. change'.node = change.node
        BY <3>2 DEF JobAlike
    <3> QED BY <1>1, <1>3, <3>1, <3>2, <3>3 DEF SameIn, At
  <2> QED BY <2>1, <2>2, <2>3 DEF CarriesCurrent
<1>7. WillLeave(k)'
  <2> SUFFICES ASSUME NEW n \in DOMAIN LocalCaches', k \in DOMAIN At(n)', n # Owner(k)'
               PROVE  Place(k)' \in change'.todo \/ Carried(k)' \/ Moved(k)'
      BY DEF WillLeave
  <2>1. n \in DOMAIN LocalCaches /\ k \in DOMAIN At(n) /\ n # Owner(k)
      BY <1>1, <1>3 DEF SameIn
  <2>2. change.op = "AddNode"
      BY <2>1, LeavesLemma DEF OnlyCurrent, Placed
  <2>3. Place(k) \in change.todo \/ Carried(k) \/ Moved(k)
      BY <2>1 DEF WillLeave, Placed
  <2> QED BY <1>1, <2>2, <2>3 DEF JobAlike
<1>8. IsSomewhere(k)'
  <2> SUFFICES ASSUME k \in DOMAIN acked' PROVE IsSomewhere(k)'
      BY DEF IsSomewhere
  <2>1. /\ k \in DOMAIN acked /\ SortedHashes # {}
        /\ \/ k \in DOMAIN At(Owner(k))
           \/ Leaves(k, OldOwner(k)) /\ k \in DOMAIN At(OldOwner(k))
           \/ change.op = "RemoveNode" /\ Carried(k)
      BY <1>4 DEF SameIn, IsSomewhere, Placed
  <2>2. CASE k \in DOMAIN At(Owner(k))
    <3>1. Owner(k) \in DOMAIN LocalCaches
        BY <2>1, OwnerLemma DEF Owner, TypeInv
    <3>2. k \in DOMAIN At(Owner(k))'
        BY <1>1, <1>3, <2>2, <3>1 DEF SameIn, At
    <3> QED BY <1>1, <2>1, <3>2 DEF IsSomewhere
  <2>3. CASE Leaves(k, OldOwner(k)) /\ k \in DOMAIN At(OldOwner(k))
    <3>1. change.op = "AddNode" /\ OldOwner(k) \in DOMAIN LocalCaches
        BY <2>3 DEF Leaves
    <3>2. OldOwner(k)' = OldOwner(k)
        BY <1>1, <3>1 DEF JobAlike
    <3>3. Leaves(k, OldOwner(k))'
        BY <1>1, <2>3, <3>1, <3>2 DEF Leaves, JobAlike
    <3>4. k \in DOMAIN At(OldOwner(k))'
        BY <1>1, <1>3, <2>3, <3>1, <3>2 DEF SameIn, At
    <3> QED BY <1>1, <2>1, <3>3, <3>4 DEF IsSomewhere
  <2>4. CASE change.op = "RemoveNode" /\ Carried(k)
      BY <1>1, <2>1, <2>4 DEF IsSomewhere, JobAlike
  <2> QED BY <2>1, <2>2, <2>3, <2>4
<1> QED BY <1>5, <1>6, <1>7, <1>8 DEF Placed

-----------------------------------------------------------------------------
(***************************************************************************)
(* The writes in flight, for a key with none when the last change began.   *)
(***************************************************************************)
LEMMA NoWrite ==
    ASSUME NEW k, UNCHANGED thread, \A c \in Client : ~WriteOf(c, k)
    PROVE  WritesToOwner(k)'
BY DEF WritesToOwner, WriteOf, NoCall

LEMMA NoWriteInChange ==
    ASSUME NEW k, WritesToOwner(k), ~MuFree, UNCHANGED thread
    PROVE  WritesToOwner(k)'
BY NoWrite DEF WritesToOwner

LEMMA NotInFlight ==
    ASSUME NEW k, k \notin WritesInFlight, NEW c \in Client
    PROVE  ~WriteOf(c, k)
BY DEF WritesInFlight, WriteOf

(* Between changes nothing is carried and nothing leaves. *)
LEMMA FreeLemma ==
    ASSUME MuFree, NEW k
    PROVE  /\ ~Carried(k) /\ ~Moved(k) /\ change.op = "none"
           /\ \A n : ~Leaves(k, n)
BY DEF MuFree, Carried, Moved, Leaves, NoChange

LEMMA DataInit == Init => ChangeInv /\ DataInv
<1> SUFFICES ASSUME Init PROVE ChangeInv /\ DataInv
    OBVIOUS
<1>1. MuFree /\ change.op = "none"
    BY DEF Init, MuFree, NoChange
<1>2. ChangeInv
    BY <1>1 DEF ChangeInv
<1>3. TypeInv
    BY TypeInit
<1>4. Len(Nodes) \in Nat /\ caches = [i \in 1 .. Len(Nodes) |-> EmptyMap] /\ acked = EmptyMap
    BY <1>3 DEF Init, TypeInv, MembersType
<1>5. Len(caches) = Len(Nodes)
    BY <1>4
<1>6. ASSUME NEW n \in DOMAIN LocalCaches PROVE DOMAIN At(n) = {}
  <2>1. LocalCaches[n] \in 1 .. Len(Nodes)
      BY <1>3, <1>5, AtLemma
  <2>2. At(n) = EmptyMap
      BY <1>4, <2>1 DEF At
  <2> QED BY <2>2, EmptyLemma
<1>7. DOMAIN acked = {}
    BY <1>4, EmptyLemma
<1>8. ASSUME NEW k \in Key PROVE KeyOK(k)
  <2>1. ~Carried(k) /\ ~Moved(k)
      BY <1>1, FreeLemma
  <2>2. OnlyCurrent(k) /\ WillLeave(k)
      BY <1>6 DEF OnlyCurrent, WillLeave
  <2>3. CarriesCurrent(k) /\ IsSomewhere(k)
      BY <1>7, <2>1 DEF CarriesCurrent, IsSomewhere
  <2>4. WritesToOwner(k)
      BY DEF WritesToOwner, WriteOf, Init
  <2> QED BY <2>2, <2>3, <2>4 DEF KeyOK
<1> QED BY <1>2, <1>8 DEF DataInv

(***************************************************************************)
(* A call that routes its key or fetches its cache.                        *)
(***************************************************************************)
LEMMA SameStores ==
    ASSUME UNCHANGED <<layout, ringVars, caches, acked>>, NEW k
    PROVE  StoresAlike(k)
BY DEF StoresAlike, SameIn

LEMMA SameCarriage ==
    ASSUME UNCHANGED change, NEW k
    PROVE  JobAlike(k)
BY DEF JobAlike, Carried, Moved, MuFree, NoChange

LEMMA RouteData ==
    ASSUME Inv, NEW c \in Client, Call(c) \/ FetchCache(c), NEW k \in Key, KeyOK(k)
    PROVE  KeyOK(k)'
<1> USE DEF Inv
<1>1. UNCHANGED <<layout, ringVars, caches, change, acked>>
    BY DEF Call, GetNodeForKey, CallPanics, FetchCache, vars, ringVars
<1>2. Placed(k)'
  <2>1. StoresAlike(k)
      BY <1>1, SameStores
  <2>2. JobAlike(k)
      BY <1>1, SameCarriage
  <2> QED BY <2>1, <2>2, AlikeLemma DEF KeyOK, Placed
<1>3. /\ Owner(k)' = Owner(k) /\ LocalCaches' = LocalCaches /\ SortedHashes' = SortedHashes
      /\ MuFree' = MuFree
    BY <1>1, SameRouting DEF MuFree, NoChange
<1>4. ASSUME NEW d \in Client, WriteOf(d, k)', thread'[d] = thread[d]
      PROVE  /\ MuFree' /\ SortedHashes' # {}
             /\ thread'[d].pc = "routed" => thread'[d].node = Owner(k)'
             /\ thread'[d].pc = "fetched" => thread'[d].cache = LocalCaches'[Owner(k)']
  <2>1. WriteOf(d, k)
      BY <1>4 DEF WriteOf, NoCall
  <2> QED BY <1>3, <1>4, <2>1 DEF KeyOK, WritesToOwner
<1>5. DOMAIN thread = Client
    BY DEF TypeInv, ThreadIsTyped
<1>6. ASSUME NEW r \in Requests, GetNodeForKey(c, r) PROVE WritesToOwner(k)'
  <2>1. /\ thread' = [thread EXCEPT ![c] =
                        [pc |-> "routed", req |-> r, node |-> getNodeForKeyUnsafe(r.key)]]
        /\ MuFree /\ SortedHashes # {}
      BY <1>6 DEF GetNodeForKey
  <2>2. /\ thread'[c].pc = "routed" /\ thread'[c].req = r
        /\ thread'[c].node = getNodeForKeyUnsafe(r.key)
        /\ \A d \in Client \ {c} : thread'[d] = thread[d]
      BY <1>5, <2>1
  <2>3. WriteOf(c, k)' => thread'[c].node = Owner(k)
      BY <2>2 DEF WriteOf, Owner
  <2> QED BY <1>3, <1>4, <2>1, <2>2, <2>3 DEF WritesToOwner
<1>7. ASSUME CallPanics(c) PROVE WritesToOwner(k)'
    BY <1>4, <1>7 DEF CallPanics, vars, WritesToOwner
<1>8. ASSUME FetchCache(c) PROVE WritesToOwner(k)'
  <2> DEFINE t == IF thread[c].node \in DOMAIN LocalCaches
                  THEN [pc |-> "fetched", req |-> thread[c].req,
                        cache |-> LocalCaches[thread[c].node]]
                  ELSE NoCall
  <2>1. thread' = [thread EXCEPT ![c] = t] /\ MuFree /\ thread[c].pc = "routed"
      BY <1>8 DEF FetchCache
  <2>2. thread'[c] = t /\ \A d \in Client \ {c} : thread'[d] = thread[d]
    <3> HIDE DEF t
    <3> QED BY <1>5, <2>1
  <2>3. ASSUME WriteOf(c, k)'
        PROVE  /\ SortedHashes # {} /\ thread'[c].pc = "fetched"
               /\ thread'[c].cache = LocalCaches[Owner(k)]
    <3>1. /\ thread'[c].pc = "fetched" /\ thread'[c].req = thread[c].req
          /\ thread'[c].cache = LocalCaches[thread[c].node]
        BY <2>2, <2>3 DEF WriteOf, NoCall
    <3>2. WriteOf(c, k)
        BY <2>1, <2>3, <3>1 DEF WriteOf, NoCall
    <3>3. SortedHashes # {} /\ thread[c].node = Owner(k)
        BY <2>1, <3>2 DEF KeyOK, WritesToOwner
    <3> QED BY <3>1, <3>3
  <2> HIDE DEF t
  <2> QED BY <1>3, <1>4, <2>1, <2>2, <2>3 DEF WritesToOwner
<1>9. WritesToOwner(k)'
    BY <1>6, <1>7, <1>8 DEF Call
<1> QED BY <1>2, <1>9 DEF KeyOK, Placed

(***************************************************************************)
(* A call that uses its cache: on another key, or to read, it changes      *)
(* nothing of this one; a write of this key reaches the cache the key is   *)
(* routed to, while no change is under way.                                *)
(***************************************************************************)
LEMMA UseOther ==
    ASSUME Inv, NEW c \in Client, UseCache(c), NEW k \in Key, KeyOK(k), ~WriteOf(c, k)
    PROVE  KeyOK(k)'
<1> USE DEF Inv
<1> DEFINE r == thread[c].req
           j == thread[c].cache
<1>1. /\ thread[c] \in Fetched /\ r \in Requests /\ j \in 1 .. Len(caches)
      /\ acked' = Applied(r, acked)
      /\ caches'[j] = Applied(r, caches[j])
      /\ \A i \in 1 .. Len(caches) : i # j => caches'[i] = caches[i]
    BY UseLemma
<1>2. /\ thread' = [thread EXCEPT ![c] = NoCall]
      /\ UNCHANGED <<layout, ringVars, change>>
    BY DEF UseCache
<1>3. r.key # k \/ r.op = "Get"
    BY <1>1, CallingLemma DEF WriteOf, TypeInv
<1>4. acked \in CacheMap /\ \A i \in 1 .. Len(caches) : caches[i] \in CacheMap
    BY DEF TypeInv, DataIsTyped
<1> HIDE DEF r, j
<1>5. ASSUME NEW m \in CacheMap PROVE SameIn(k, m, Applied(r, m))
  <2>1. /\ r.op = "Get" => Applied(r, m) = m
        /\ k # r.key => /\ k \in DOMAIN Applied(r, m) <=> k \in DOMAIN m
                        /\ k \in DOMAIN m => Applied(r, m)[k] = m[k]
      BY <1>1, AppliedLemma
  <2> QED BY <1>3, <2>1 DEF SameIn
<1>6. StoresAlike(k)
  <2>1. ASSUME NEW i \in 1 .. Len(caches) PROVE SameIn(k, caches[i], caches'[i])
    <3>1. CASE i = j
        BY <1>1, <1>4, <1>5, <3>1
    <3>2. CASE i # j
        BY <1>1, <3>2 DEF SameIn
    <3> QED BY <3>1, <3>2
  <2>2. SameIn(k, acked, acked')
      BY <1>1, <1>4, <1>5
  <2> QED BY <1>2, <2>1, <2>2 DEF StoresAlike
<1>7. JobAlike(k)
    BY <1>2, SameCarriage
<1>8. Placed(k)'
    BY <1>6, <1>7, AlikeLemma DEF KeyOK, Placed
<1>9. WritesToOwner(k)'
  <2>1. thread'[c] = NoCall /\ \A d \in Client \ {c} : thread'[d] = thread[d]
      BY <1>2 DEF TypeInv, ThreadIsTyped
  <2>2. /\ Owner(k)' = Owner(k) /\ LocalCaches' = LocalCaches /\ SortedHashes' = SortedHashes
        /\ MuFree' = MuFree
      BY <1>2, SameRouting DEF MuFree, NoChange
  <2>3. ASSUME NEW d \in Client, WriteOf(d, k)' PROVE d # c /\ WriteOf(d, k)
      BY <2>1, <2>3 DEF WriteOf, NoCall
  <2> QED BY <2>1, <2>2, <2>3 DEF KeyOK, WritesToOwner
<1> QED BY <1>8, <1>9 DEF KeyOK, Placed

LEMMA UseOwn ==
    ASSUME Inv, NEW c \in Client, UseCache(c), NEW k \in Key, KeyOK(k), WriteOf(c, k)
    PROVE  KeyOK(k)'
<1> USE DEF Inv
<1> DEFINE r == thread[c].req
           j == thread[c].cache
<1>0. PICK o : o = Owner(k)
    OBVIOUS
<1>1. /\ thread[c] \in Fetched /\ r \in Requests /\ j \in 1 .. Len(caches)
      /\ acked' = Applied(r, acked)
      /\ caches'[j] = Applied(r, caches[j])
      /\ \A i \in 1 .. Len(caches) : i # j => caches'[i] = caches[i]
    BY UseLemma
<1>2. /\ thread' = [thread EXCEPT ![c] = NoCall]
      /\ UNCHANGED <<layout, ringVars, change>>
    BY DEF UseCache
<1>3. thread[c].pc = "fetched"
    BY DEF UseCache
<1>4. MuFree /\ SortedHashes # {} /\ j = LocalCaches[o] /\ r.key = k /\ r.op # "Get"
    BY <1>0, <1>3 DEF KeyOK, WritesToOwner, WriteOf
<1>5. r.op \in {"Set", "Delete"} /\ acked \in CacheMap /\ caches[j] \in CacheMap
    BY <1>1, <1>4 DEF Requests, TypeInv, DataIsTyped
<1>6. o \in DOMAIN LocalCaches
    BY <1>0, <1>4, OwnerLemma DEF Owner, TypeInv
<1> HIDE DEF r, j
<1>7. ASSUME NEW m \in CacheMap
      PROVE  /\ r.op = "Set" => k \in DOMAIN Applied(r, m) /\ Applied(r, m)[k] = r.val
             /\ r.op = "Delete" => k \notin DOMAIN Applied(r, m)
    BY <1>1, <1>4, AppliedLemma
<1>8. /\ Owner(k)' = o /\ LocalCaches' = LocalCaches /\ SortedHashes' = SortedHashes
      /\ MuFree'
    BY <1>0, <1>2, <1>4, SameRouting DEF MuFree, NoChange
<1>9. At(o)' = Applied(r, caches[j])
    BY <1>1, <1>4, <1>8 DEF At
<1>10. ASSUME NEW n \in DOMAIN LocalCaches, n # o PROVE k \notin DOMAIN At(n)'
  <2>1. LocalCaches[n] # j /\ LocalCaches[n] \in 1 .. Len(caches)
      BY <1>4, <1>6, <1>10, AtLemma DEF CachesInv
  <2>2. At(n)' = At(n)
      BY <1>1, <1>8, <2>1 DEF At
  <2>3. ~Leaves(k, n)
      BY <1>4, FreeLemma
  <2> QED BY <1>0, <1>10, <2>2, <2>3 DEF KeyOK, OnlyCurrent
<1>11. OnlyCurrent(k)'
  <2> SUFFICES ASSUME NEW n \in DOMAIN LocalCaches', k \in DOMAIN At(n)'
               PROVE  /\ k \in DOMAIN acked' /\ At(n)'[k] = acked'[k]
                      /\ n = Owner(k)'
      BY DEF OnlyCurrent
  <2>1. n = o
      BY <1>8, <1>10
  <2>2. At(n)' = Applied(r, caches[j])
      BY <1>9, <2>1
  <2> QED BY <1>1, <1>5, <1>7, <1>8, <2>1, <2>2
<1>12. ~Carried(k)' /\ ~Moved(k)' /\ change'.op = "none"
    BY <1>8 DEF Carried, Moved, MuFree, NoChange
<1>13. CarriesCurrent(k)'
    BY <1>12 DEF CarriesCurrent
<1>14. WillLeave(k)'
    BY <1>8, <1>10 DEF WillLeave
<1>15. IsSomewhere(k)'
  <2>1. k \in DOMAIN acked' => k \in DOMAIN At(o)'
      BY <1>1, <1>5, <1>7, <1>9
  <2>2. k \in DOMAIN acked' => k \in DOMAIN At(Owner(k))'
      BY <1>8, <2>1 DEF At
  <2> QED BY <1>4, <1>8, <2>2 DEF IsSomewhere
<1>16. WritesToOwner(k)'
  <2>1. thread'[c] = NoCall /\ \A d \in Client \ {c} : thread'[d] = thread[d]
      BY <1>2 DEF TypeInv, ThreadIsTyped
  <2>2. ASSUME NEW d \in Client, WriteOf(d, k)' PROVE d # c /\ WriteOf(d, k)
      BY <2>1, <2>2 DEF WriteOf, NoCall
  <2> QED BY <1>0, <1>8, <2>1, <2>2 DEF KeyOK, WritesToOwner
<1> QED BY <1>11, <1>13, <1>14, <1>15, <1>16 DEF KeyOK

(***************************************************************************)
(* AddNode.  A key either stays or is now routed to a virtual node of the  *)
(* new node that has still to be scanned; on the saved positions it is     *)
(* still routed as before.                                                 *)
(***************************************************************************)
LEMMA AddRouting ==
    ASSUME ~ReAdd, NoCollision, TypeInv, ExactInv, NEW n \in Node, AddNode(n), NEW k \in Key
    PROVE  /\ SortedHashes' # {}
           /\ Owner(k)' = n => Place(k)' \in change'.todo
           /\ SortedHashes # {} => /\ OldOwner(k)' = Owner(k)
                                   /\ Owner(k)' = Owner(k) \/ Owner(k)' = n
<1> DEFINE h == layout.key[k]
           S == DOMAIN HashRing
           V == layout.vnodes[n]
<1>1. h \in Nat /\ V \subseteq Nat /\ S \subseteq Nat /\ SortedHashes = S /\ layout \in Layouts
    BY LayoutLemma DEF TypeInv, RingInv
<1>2. /\ layout' = layout /\ SortedHashes' = S \cup V /\ DOMAIN HashRing' = S \cup V
      /\ \A p \in V : HashRing'[p] = n
      /\ \A p \in S \ V : HashRing'[p] = HashRing[p]
    BY AddedRing DEF TypeInv
<1>3. S \cap V = {} /\ V # {}
    BY <1>1, NoReAdd, NewPositions, LayoutsAssumption
<1>4. change'.old = S /\ change'.todo = {p \in S \cup V : HashRing'[p] = n}
    BY <1>1, <1>2, AddedChange
<1>5. ASSUME Owner(k)' = n PROVE Place(k)' \in change'.todo
  <2> HIDE DEF h, S, V
  <2>1. Place(k)' = Successor(h, S \cup V) /\ Owner(k)' = NodeAt(HashRing', S \cup V, h)
      BY <1>2 DEF Place, Owner, getNodeForKeyUnsafe, h
  <2>2. Successor(h, S \cup V) \in S \cup V
      BY <1>1, <1>3, SuccessorLemma
  <2>3. Owner(k)' = HashRing'[Successor(h, S \cup V)]
      BY <1>2, <2>1, <2>2 DEF NodeAt
  <2> QED BY <1>4, <1>5, <2>1, <2>2, <2>3
<1>6. ASSUME SortedHashes # {} PROVE OldOwner(k)' = Owner(k)
  <2> HIDE DEF h, S, V
  <2>1. Successor(h, S) \in S
      BY <1>1, <1>6, SuccessorLemma
  <2>2. Owner(k) = NodeAt(HashRing, S, h) /\ OldOwner(k)' = NodeAt(HashRing', S, h)
      BY <1>1, <1>2, <1>4 DEF Owner, OldOwner, getNodeForKeyUnsafe, h
  <2>3. DOMAIN HashRing = S
      BY DEF S
  <2> QED BY <1>2, <1>3, <2>1, <2>2, <2>3 DEF NodeAt
<1>7. ASSUME SortedHashes # {} PROVE Owner(k)' = Owner(k) \/ Owner(k)' = n
    BY <1>7, AddMovesToNew DEF Owner, TypeInv
<1>8. SortedHashes' # {}
    BY <1>2, <1>3
<1> QED BY <1>5, <1>6, <1>7, <1>8

LEMMA AddData ==
    ASSUME ~ReAdd, NoCollision, Inv, NEW n \in Node, AddNode(n),
           NEW k \in Key, k \notin WritesInFlight, KeyOK(k)
    PROVE  KeyOK(k)'
<1> USE DEF Inv
<1>1. /\ SortedHashes' # {}
      /\ Owner(k)' = n => Place(k)' \in change'.todo
      /\ SortedHashes # {} => /\ OldOwner(k)' = Owner(k)
                              /\ Owner(k)' = Owner(k) \/ Owner(k)' = n
    BY AddRouting
<1>2. /\ n \notin DOMAIN LocalCaches /\ DOMAIN LocalCaches' = DOMAIN LocalCaches \cup {n}
      /\ acked' = acked /\ UNCHANGED thread
    BY NoReAdd, AddedCaches
<1>3. /\ MuFree /\ change'.op = "AddNode" /\ change'.node = n /\ change'.old = SortedHashes
      /\ DOMAIN change'.data = {} /\ change'.moved = {}
    BY AddedChange
<1>4. DOMAIN At(n)' = {}
    BY AddedCaches, EmptyLemma DEF At
<1>5. ASSUME NEW m \in DOMAIN LocalCaches PROVE At(m)' = At(m)
  <2>1. LocalCaches'[m] = LocalCaches[m] /\ LocalCaches[m] \in 1 .. Len(caches)
      BY <1>2, AddedCaches, AtLemma
  <2>2. caches'[LocalCaches[m]] = caches[LocalCaches[m]]
      BY <2>1, AddedCaches
  <2> QED BY <2>1, <2>2 DEF At
<1>6. ~Carried(k)' /\ ~Moved(k)'
    BY <1>3 DEF Carried, Moved
<1>7. CarriesCurrent(k)'
    BY <1>6 DEF CarriesCurrent
<1>8. WritesToOwner(k)'
    BY <1>2, NotInFlight, NoWrite
<1>9. CASE SortedHashes = {}
  <2>1. DOMAIN LocalCaches' = {n} /\ k \notin DOMAIN acked'
      BY <1>2, <1>9, EmptyRing DEF KeyOK, IsSomewhere
  <2>2. OnlyCurrent(k)' /\ WillLeave(k)' /\ IsSomewhere(k)'
      BY <1>4, <2>1 DEF OnlyCurrent, WillLeave, IsSomewhere
  <2> QED BY <1>7, <1>8, <2>2 DEF KeyOK
<1>10. CASE SortedHashes # {}
  <2>1. PICK o : o = Owner(k)
      OBVIOUS
  <2>2. o \in DOMAIN LocalCaches /\ o # n
      BY <1>2, <1>10, <2>1, OwnerLemma DEF Owner, TypeInv
  <2>3. Owner(k)' = n => Leaves(k, o)'
      BY <1>1, <1>2, <1>3, <1>10, <2>1, <2>2 DEF Leaves
  <2>4. ASSUME NEW m \in DOMAIN LocalCaches', k \in DOMAIN At(m)'
        PROVE  m = o /\ k \in DOMAIN acked /\ At(o)'[k] = acked[k]
    <3>1. m \in DOMAIN LocalCaches /\ At(m)' = At(m)
        BY <1>2, <1>4, <1>5, <2>4
    <3>2. ~Leaves(k, m)
        BY <1>3, FreeLemma
    <3> QED BY <2>1, <2>4, <3>1, <3>2 DEF KeyOK, OnlyCurrent
  <2>5. OnlyCurrent(k)'
      BY <1>1, <1>2, <1>10, <2>1, <2>3, <2>4 DEF OnlyCurrent
  <2>6. WillLeave(k)'
      BY <1>1, <1>10, <2>1, <2>4 DEF WillLeave
  <2>7. IsSomewhere(k)'
    <3>1. k \in DOMAIN acked' => k \in DOMAIN At(o)'
        BY <1>2, <1>3, <1>5, <2>1, <2>2, FreeLemma DEF KeyOK, IsSomewhere
    <3>2. CASE Owner(k)' = o
      <4>1. At(Owner(k))' = At(o)'
          BY <3>2 DEF At
      <4> QED BY <1>1, <3>1, <4>1 DEF IsSomewhere
    <3>3. CASE Owner(k)' = n
      <4>1. At(OldOwner(k))' = At(o)' /\ OldOwner(k)' = o
          BY <1>1, <1>10, <2>1 DEF At
      <4>2. Leaves(k, OldOwner(k))'
          BY <2>3, <3>3, <4>1 DEF Leaves
      <4> QED BY <1>1, <3>1, <4>1, <4>2 DEF IsSomewhere
    <3> QED BY <1>1, <1>10, <2>1, <3>2, <3>3
  <2> QED BY <1>7, <1>8, <2>5, <2>6, <2>7 DEF KeyOK
<1> QED BY <1>9, <1>10

(***************************************************************************)
(* RemoveNode.  What the node held is carried; a key of another node stays *)
(* where it is.                                                            *)
(***************************************************************************)
LEMMA RemoveData ==
    ASSUME Inv, NEW n \in Node, RemoveNode(n),
           NEW k \in Key, k \notin WritesInFlight, KeyOK(k)
    PROVE  KeyOK(k)'
<1> USE DEF Inv
<1>1. /\ MuFree /\ ~MuFree' /\ change'.op = "RemoveNode" /\ change'.node = n
      /\ change'.moved = {} /\ change'.data = At(n)
      /\ n \in DOMAIN LocalCaches
      /\ DOMAIN LocalCaches' = DOMAIN LocalCaches \ {n}
      /\ \A m \in DOMAIN LocalCaches \ {n} : LocalCaches'[m] = LocalCaches[m]
      /\ UNCHANGED <<caches, thread>>
      /\ acked' = IF SortedHashes' = {} THEN EmptyMap ELSE acked
    BY RemovedChange DEF At
<1>2. /\ SortedHashes = DOMAIN HashRing /\ SortedHashes' = DOMAIN HashRing'
      /\ DOMAIN HashRing' = {p \in DOMAIN HashRing : HashRing[p] # n}
      /\ layout \in Layouts
    BY RemovedRing DEF TypeInv, RingInv
<1>3. ASSUME NEW m \in DOMAIN LocalCaches' PROVE At(m)' = At(m)
    BY <1>1 DEF At
<1>4. ~Moved(k)' /\ (Carried(k)' <=> k \in DOMAIN At(n))
    BY <1>1 DEF Moved, Carried
<1>5. WritesToOwner(k)'
    BY <1>1, NotInFlight, NoWrite
<1>6. CASE SortedHashes' = {}
  <2>1. DOMAIN LocalCaches' = {}
    <3> SUFFICES ASSUME NEW m \in DOMAIN LocalCaches' PROVE FALSE
        OBVIOUS
    <3>1. m \in DOMAIN LocalCaches /\ m # n /\ m \in Node
        BY <1>1 DEF TypeInv, MembersType
    <3>2. PICK p \in layout.vnodes[m] : TRUE
        BY <1>2, <3>1, LayoutsAssumption
    <3> QED BY <1>2, <1>6, <3>1, <3>2 DEF ExactInv
  <2>2. DOMAIN acked' = {}
      BY <1>1, <1>6, EmptyLemma
  <2>3. OnlyCurrent(k)' /\ WillLeave(k)' /\ IsSomewhere(k)'
      BY <2>1, <2>2 DEF OnlyCurrent, WillLeave, IsSomewhere
  <2>4. CarriesCurrent(k)'
      BY <1>1, <1>4, <1>6 DEF CarriesCurrent
  <2> QED BY <1>5, <2>3, <2>4 DEF KeyOK
<1>7. CASE SortedHashes' # {}
  <2>1. PICK o : o = Owner(k)
      OBVIOUS
  <2>2. SortedHashes # {} /\ acked' = acked
      BY <1>1, <1>2, <1>7
  <2>3. o \in DOMAIN LocalCaches
      BY <2>1, <2>2, OwnerLemma DEF Owner, TypeInv
  <2>4. o # n => Owner(k)' = o
      BY <2>1, <2>2, RemoveMovesFromOld DEF Owner, TypeInv
  <2>5. ASSUME NEW m \in DOMAIN LocalCaches, k \in DOMAIN At(m)
        PROVE  m = o /\ k \in DOMAIN acked /\ At(m)[k] = acked[k]
      BY <1>1, <2>1, <2>5, FreeLemma DEF KeyOK, OnlyCurrent
  <2>6. ASSUME NEW m \in DOMAIN LocalCaches', k \in DOMAIN At(m)'
        PROVE  /\ k \in DOMAIN acked' /\ At(m)'[k] = acked'[k]
               /\ m = Owner(k)'
    <3>1. m \in DOMAIN LocalCaches /\ m # n /\ k \in DOMAIN At(m) /\ At(m)' = At(m)
        BY <1>1, <1>3, <2>6
    <3> QED BY <2>2, <2>4, <2>5, <3>1
  <2>7. OnlyCurrent(k)' /\ WillLeave(k)'
      BY <2>6 DEF OnlyCurrent, WillLeave
  <2>8. CarriesCurrent(k)'
      BY <1>1, <1>4, <2>2, <2>5 DEF CarriesCurrent
  <2>9. IsSomewhere(k)'
    <3> SUFFICES ASSUME k \in DOMAIN acked' PROVE IsSomewhere(k)'
        BY DEF IsSomewhere
    <3>1. k \in DOMAIN At(o)
        BY <1>1, <2>1, <2>2, FreeLemma DEF KeyOK, IsSomewhere
    <3>2. CASE o = n
        BY <1>1, <1>4, <1>7, <3>1, <3>2 DEF IsSomewhere
    <3>3. CASE o # n
      <4>1. o \in DOMAIN LocalCaches' /\ Owner(k)' = o
          BY <1>1, <2>3, <2>4, <3>3
      <4>2. At(Owner(k))' = At(o)
          BY <1>3, <4>1 DEF At
      <4> QED BY <1>7, <3>1, <4>2 DEF IsSomewhere
    <3> QED BY <3>2, <3>3
  <2> QED BY <1>5, <2>7, <2>8, <2>9 DEF KeyOK
<1> QED BY <1>6, <1>7

(***************************************************************************)
(* Going from a position of the new node to the next one that is not its   *)
(* own leads where the key itself is routed to without the new node.       *)
(***************************************************************************)
LEMMA SuccessorSkip ==
    ASSUME NEW T \in SUBSET Nat, NEW S \in SUBSET T, S # {}, NEW h \in Nat,
           NEW p, p = Successor(h, T), p \notin S
    PROVE  Successor(p, S) = Successor(h, S)
<1> DEFINE A == {q \in S : q >= h}
           B == {q \in S : q >= p}
<1>1. /\ p \in T /\ p \in Nat
      /\ \A q \in T : q >= h => p >= h /\ p =< q
      /\ p < h => \A q \in T : q < h /\ p =< q
    BY SuccessorLemma
<1>2. Successor(p, S) = Min(IF B = {} THEN S ELSE B) /\ Successor(h, S) = Min(IF A = {} THEN S ELSE A)
    BY DEF Successor
<1>3. CASE p >= h
  <2>1. ASSUME NEW q \in S PROVE q >= h <=> q >= p
    <3>1. q \in T /\ q \in Nat
        OBVIOUS
    <3> QED BY <1>1, <1>3, <3>1
  <2>2. A = B
      BY <2>1
  <2> QED BY <1>2, <2>2
<1>4. CASE p < h
  <2>1. ASSUME NEW q \in S PROVE ~(q >= h) /\ q >= p
    <3>1. q \in T /\ q \in Nat
        OBVIOUS
    <3> QED BY <1>1, <1>4, <3>1
  <2>2. A = {} /\ B = S
      BY <2>1
  <2> QED BY <1>2, <2>2
<1> QED BY <1>1, <1>3, <1>4

(***************************************************************************)
(* The steps of a migration, for the key they concern.                     *)
(***************************************************************************)
LEMMA JobRouting ==
    ASSUME SameJob, UNCHANGED <<layout, ringVars>>, NEW k \in Key
    PROVE  /\ Owner(k)' = Owner(k) /\ Place(k)' = Place(k) /\ OldOwner(k)' = OldOwner(k)
           /\ LocalCaches' = LocalCaches /\ SortedHashes' = SortedHashes
           /\ \A n : Leaves(k, n)' <=> Leaves(k, n)
<1>1. /\ Owner(k)' = Owner(k) /\ Place(k)' = Place(k) /\ OldOwner(k)' = OldOwner(k)
      /\ LocalCaches' = LocalCaches /\ SortedHashes' = SortedHashes
    BY SameRouting DEF SameJob
<1>2. \A n : Leaves(k, n)' <=> Leaves(k, n)
    BY SameLeaves DEF SameJob
<1> QED BY <1>1, <1>2

(* A virtual node is scanned from where its keys were routed before. *)
LEMMA ScansTheOldOwner ==
    ASSUME TypeInv, ExactInv, ChangeInv, NEW k \in Key, NEW m, Leaves(k, m)
    PROVE  findResponsibleNodeInOldRing(Place(k)) = m
<1> DEFINE h == layout.key[k]
           p == Place(k)
<1>1. /\ change.op = "AddNode" /\ change.old # {} /\ Owner(k) = change.node /\ m = OldOwner(k)
      /\ change.old = SortedHashes \ layout.vnodes[change.node]
    BY DEF Leaves, ChangeInv
<1>2. h \in Nat /\ SortedHashes \subseteq Nat /\ SortedHashes = DOMAIN HashRing /\ SortedHashes # {}
    BY <1>1, LayoutLemma DEF TypeInv, RingInv
<1>3. p \in SortedHashes /\ HashRing[p] = change.node
    BY <1>1, <1>2, OwnerLemma DEF Place, Owner, TypeInv
<1>4. p \notin change.old
    BY <1>1, <1>2, <1>3 DEF ExactInv
<1>5. Successor(p, change.old) = Successor(h, change.old)
  <2>1. /\ change.old \in SUBSET SortedHashes /\ SortedHashes \in SUBSET Nat
        /\ p = Successor(h, SortedHashes)
      BY <1>1, <1>2 DEF Place
  <2> HIDE DEF p, h
  <2> QED BY <1>1, <1>2, <1>4, <2>1, SuccessorSkip
<1> QED BY <1>1, <1>5 DEF findResponsibleNodeInOldRing, OldOwner, NodeAt

LEMMA ScanData ==
    ASSUME Inv, NEW p, ScanVirtualNode(p), NEW k \in Key, KeyOK(k)
    PROVE  KeyOK(k)'
<1> USE DEF Inv
<1>0. PICK old : old = findResponsibleNodeInOldRing(p)
    OBVIOUS
<1>1. /\ change.op = "AddNode" /\ DOMAIN change.data = {} /\ change.moved = {}
      /\ SameJob /\ change'.todo = change.todo \ {p} /\ change'.moved = {}
      /\ old \in DOMAIN LocalCaches \ {change.node} =>
             /\ change'.from = LocalCaches[old]
             /\ DOMAIN change'.data = {j \in DOMAIN At(old) : getNodeForKeyUnsafe(j) = change.node}
             /\ \A j \in DOMAIN change'.data : change'.data[j] = At(old)[j]
      /\ old \notin DOMAIN LocalCaches \ {change.node} => DOMAIN change'.data = {}
      /\ UNCHANGED <<layout, ringVars, caches, thread, acked>>
    BY <1>0, ScanEffect
<1>2. /\ Owner(k)' = Owner(k) /\ Place(k)' = Place(k) /\ OldOwner(k)' = OldOwner(k)
      /\ LocalCaches' = LocalCaches /\ SortedHashes' = SortedHashes
      /\ \A n : Leaves(k, n)' <=> Leaves(k, n)
    BY <1>1, JobRouting
<1>3. /\ ~Carried(k) /\ ~Moved(k) /\ ~Moved(k)' /\ ~MuFree
      /\ Carried(k)' <=> k \in DOMAIN change'.data
    BY <1>1 DEF Carried, Moved, SameJob
<1>4. ASSUME NEW n PROVE At(n)' = At(n)
    BY <1>1, <1>2 DEF At
<1>5. OnlyCurrent(k)'
    BY <1>1, <1>2, <1>4 DEF KeyOK, OnlyCurrent
<1>6. ASSUME Carried(k)'
      PROVE  /\ k \in DOMAIN acked /\ change'.data[k] = acked[k]
             /\ Leaves(k, OldOwner(k)) /\ change'.from = LocalCaches[OldOwner(k)]
  <2>1. /\ old \in DOMAIN LocalCaches \ {change.node}
        /\ k \in DOMAIN At(old) /\ Owner(k) = change.node /\ change'.data[k] = At(old)[k]
      BY <1>1, <1>3, <1>6 DEF Owner
  <2>2. k \in DOMAIN acked /\ At(old)[k] = acked[k] /\ Leaves(k, old)
      BY <2>1 DEF KeyOK, OnlyCurrent
  <2>3. old = OldOwner(k)
      BY <2>2 DEF Leaves
  <2> QED BY <1>1, <2>1, <2>2, <2>3
<1>7. CarriesCurrent(k)'
  <2>1. Carried(k)' => Leaves(k, OldOwner(k))'
      BY <1>2, <1>6 DEF Leaves
  <2> QED BY <1>1, <1>2, <1>3, <1>6, <2>1 DEF CarriesCurrent
<1>8. WillLeave(k)'
  <2> SUFFICES ASSUME NEW m \in DOMAIN LocalCaches, k \in DOMAIN At(m), m # Owner(k),
                      Place(k) \notin change'.todo
               PROVE  Carried(k)'
      BY <1>2, <1>4 DEF WillLeave
  <2>1. Place(k) = p
      BY <1>1, <1>3 DEF KeyOK, WillLeave
  <2>2. Leaves(k, m)
      BY DEF KeyOK, OnlyCurrent
  <2>3. old = m
      BY <1>0, <2>1, <2>2, ScansTheOldOwner
  <2> QED BY <1>1, <1>3, <2>2, <2>3 DEF Leaves, Owner
<1>9. IsSomewhere(k)'
  <2> SUFFICES ASSUME k \in DOMAIN acked PROVE IsSomewhere(k)'
      BY <1>1 DEF IsSomewhere
  <2>1. /\ SortedHashes # {}
        /\ \/ k \in DOMAIN At(Owner(k))
           \/ Leaves(k, OldOwner(k)) /\ k \in DOMAIN At(OldOwner(k))
      BY <1>1 DEF KeyOK, IsSomewhere
  <2>2. At(Owner(k))' = At(Owner(k)) /\ At(OldOwner(k))' = At(OldOwner(k))
      BY <1>1, <1>2 DEF At
  <2>3. Leaves(k, OldOwner(k))' <=> Leaves(k, OldOwner(k))
      BY <1>1, <1>2 DEF Leaves, SameJob
  <2> QED BY <1>2, <2>1, <2>2, <2>3 DEF IsSomewhere
<1>10. WritesToOwner(k)'
    BY <1>1, <1>3, NoWriteInChange DEF KeyOK
<1> QED BY <1>5, <1>7, <1>8, <1>9, <1>10 DEF KeyOK

LEMMA WithOther ==
    ASSUME NEW m \in CacheMap, NEW j \in Key, NEW v \in Value, NEW k \in Key, k # j
    PROVE  SameIn(k, m, With(m, j, v))
<1>1. /\ DOMAIN With(m, j, v) = DOMAIN m \cup {j}
      /\ \A i \in DOMAIN m \ {j} : With(m, j, v)[i] = m[i]
    BY DEF With
<1> QED BY <1>1 DEF SameIn

LEMMA WithoutOther ==
    ASSUME NEW m \in CacheMap, NEW j \in Key, NEW k \in Key, k # j
    PROVE  SameIn(k, m, Without(m, j))
<1>1. /\ DOMAIN Without(m, j) = DOMAIN m \ {j}
      /\ \A i \in DOMAIN m \ {j} : Without(m, j)[i] = m[i]
    BY WithoutLemma
<1> QED BY <1>1 DEF SameIn

LEMMA MigrateOther ==
    ASSUME Inv, NEW j \in Key, NEW k \in Key, k # j, KeyOK(k),
           MigrateSet(j) \/ MigrateDelete(j) \/ redistributeDataBasic(j)
    PROVE  KeyOK(k)'
<1> USE DEF Inv
<1>0. ASSUME NEW i \in 1 .. Len(caches) PROVE caches[i] \in CacheMap
    BY DEF TypeInv, DataIsTyped
<1>1. ASSUME MigrateSet(j)
      PROVE  StoresAlike(k) /\ JobAlike(k) /\ ~MuFree /\ UNCHANGED thread
  <2>1. /\ change.op = "AddNode" /\ change.moved = {} /\ j \in DOMAIN change.data
        /\ change.node \in DOMAIN LocalCaches
        /\ SameJob /\ change'.todo = change.todo /\ change'.from = change.from
        /\ change'.moved = {j} /\ DOMAIN change'.data = DOMAIN change.data \ {j}
        /\ \A i \in DOMAIN change'.data : change'.data[i] = change.data[i]
        /\ caches'[LocalCaches[change.node]] = With(At(change.node), j, change.data[j])
        /\ \A i \in 1 .. Len(caches) : i # LocalCaches[change.node] => caches'[i] = caches[i]
        /\ UNCHANGED <<layout, ringVars, thread, acked>>
      BY <1>1, MigrateSetEffect
  <2>2. change.data[j] \in Value
    <3>1. change \in ChangeType
        BY <2>1, ChangingLemma DEF TypeInv
    <3>2. change.data \in CacheMap
        BY <3>1 DEF ChangeType
    <3> QED BY <2>1, <3>2, MapLemma
  <2>3. SameIn(k, At(change.node), With(At(change.node), j, change.data[j]))
      BY <2>1, <2>2, AtLemma, WithOther
  <2>4. ASSUME NEW i \in 1 .. Len(caches) PROVE SameIn(k, caches[i], caches'[i])
      BY <2>1, <2>3 DEF At, SameIn
  <2>5. StoresAlike(k)
      BY <2>1, <2>4 DEF StoresAlike, SameIn
  <2>6. JobAlike(k)
      BY <2>1 DEF JobAlike, Carried, Moved, SameJob
  <2> QED BY <2>1, <2>5, <2>6 DEF SameJob
<1>2. ASSUME MigrateDelete(j)
      PROVE  StoresAlike(k) /\ JobAlike(k) /\ ~MuFree /\ UNCHANGED thread
  <2>1. /\ change.op = "AddNode" /\ j \in change.moved
        /\ SameJob /\ change'.todo = change.todo /\ change'.from = change.from
        /\ change'.moved = {} /\ change'.data = change.data
        /\ change.from \in 1 .. Len(caches) =>
               caches'[change.from] = Without(caches[change.from], j)
        /\ \A i \in 1 .. Len(caches) : i # change.from => caches'[i] = caches[i]
        /\ UNCHANGED <<layout, ringVars, thread, acked>>
      BY <1>2, MigrateDeleteEffect
  <2>2. k \notin change.moved
      BY <2>1 DEF ChangeInv
  <2>3. ASSUME NEW i \in 1 .. Len(caches) PROVE SameIn(k, caches[i], caches'[i])
    <3>1. SameIn(k, caches[i], Without(caches[i], j))
        BY <1>0, WithoutOther
    <3>2. SameIn(k, caches[i], caches[i])
        BY DEF SameIn
    <3> QED BY <2>1, <3>1, <3>2
  <2>4. StoresAlike(k)
      BY <2>1, <2>3 DEF StoresAlike, SameIn
  <2>5. JobAlike(k)
      BY <2>1, <2>2 DEF JobAlike, Carried, Moved, SameJob
  <2> QED BY <2>1, <2>4, <2>5 DEF SameJob
<1>3. ASSUME redistributeDataBasic(j)
      PROVE  StoresAlike(k) /\ JobAlike(k) /\ ~MuFree /\ UNCHANGED thread
  <2>0. PICK n : n = getNodeForKeyUnsafe(j)
      OBVIOUS
  <2>1. /\ change.op = "RemoveNode" /\ j \in DOMAIN change.data
        /\ n \in DOMAIN LocalCaches
        /\ SameJob /\ change'.moved = change.moved
        /\ DOMAIN change'.data = DOMAIN change.data \ {j}
        /\ \A i \in DOMAIN change'.data : change'.data[i] = change.data[i]
        /\ caches'[LocalCaches[n]] = With(At(n), j, change.data[j])
        /\ \A i \in 1 .. Len(caches) : i # LocalCaches[n] => caches'[i] = caches[i]
        /\ UNCHANGED <<layout, ringVars, thread, acked>>
      BY <1>3, <2>0, RedistributeEffect
  <2>2. change.data[j] \in Value
    <3>1. change \in ChangeType
        BY <2>1, ChangingLemma DEF TypeInv
    <3>2. change.data \in CacheMap
        BY <3>1 DEF ChangeType
    <3> QED BY <2>1, <3>2, MapLemma
  <2>3. SameIn(k, At(n), With(At(n), j, change.data[j]))
      BY <2>1, <2>2, AtLemma, WithOther
  <2>4. ASSUME NEW i \in 1 .. Len(caches) PROVE SameIn(k, caches[i], caches'[i])
      BY <2>1, <2>3 DEF At, SameIn
  <2>5. StoresAlike(k)
      BY <2>1, <2>4 DEF StoresAlike, SameIn
  <2>6. JobAlike(k)
      BY <2>1 DEF JobAlike, Carried, Moved, SameJob
  <2> QED BY <2>1, <2>5, <2>6 DEF SameJob
<1>4. StoresAlike(k) /\ JobAlike(k) /\ ~MuFree /\ UNCHANGED thread
    BY <1>1, <1>2, <1>3
<1>5. Placed(k)'
    BY <1>4, AlikeLemma DEF KeyOK, Placed
<1>6. WritesToOwner(k)'
    BY <1>4, NoWriteInChange DEF KeyOK
<1> QED BY <1>5, <1>6 DEF KeyOK, Placed

LEMMA MigrateSetData ==
    ASSUME Inv, NEW k \in Key, MigrateSet(k), KeyOK(k)
    PROVE  KeyOK(k)'
<1> USE DEF Inv
<1>0. PICK n : n = change.node
    OBVIOUS
<1>1. /\ change.op = "AddNode" /\ k \in DOMAIN change.data
      /\ n \in DOMAIN LocalCaches
      /\ SameJob /\ change'.from = change.from /\ change'.moved = {k}
      /\ DOMAIN change'.data = DOMAIN change.data \ {k}
      /\ caches'[LocalCaches[n]] = With(At(n), k, change.data[k])
      /\ \A i \in 1 .. Len(caches) : i # LocalCaches[n] => caches'[i] = caches[i]
      /\ UNCHANGED <<layout, ringVars, thread, acked>>
    BY <1>0, MigrateSetEffect
<1>2. /\ Owner(k)' = Owner(k) /\ Place(k)' = Place(k) /\ OldOwner(k)' = OldOwner(k)
      /\ LocalCaches' = LocalCaches /\ SortedHashes' = SortedHashes
      /\ \A m : Leaves(k, m)' <=> Leaves(k, m)
    BY <1>1, JobRouting
<1>3. Carried(k) /\ ~Carried(k)' /\ Moved(k)' /\ ~MuFree /\ change'.node = n
    BY <1>0, <1>1 DEF Carried, Moved, SameJob
<1>4. Leaves(k, OldOwner(k)) /\ change.from = LocalCaches[OldOwner(k)]
    BY <1>1, <1>3 DEF KeyOK, CarriesCurrent
<1>5. Owner(k) = n /\ SortedHashes # {}
    BY <1>0, <1>4 DEF Leaves, ChangeInv
<1>6. k \in DOMAIN acked /\ change.data[k] = acked[k]
    BY <1>3, <1>5 DEF KeyOK, CarriesCurrent
<1>7. k \in DOMAIN At(n)' /\ At(n)'[k] = acked[k]
    BY <1>1, <1>2, <1>6 DEF At, With
<1>8. ASSUME NEW m \in DOMAIN LocalCaches, m # n PROVE At(m)' = At(m)
  <2>1. LocalCaches[m] # LocalCaches[n] /\ LocalCaches[m] \in 1 .. Len(caches)
      BY <1>1, <1>8, AtLemma DEF CachesInv
  <2> QED BY <1>1, <1>2, <2>1 DEF At
<1>9. OnlyCurrent(k)'
  <2> SUFFICES ASSUME NEW m \in DOMAIN LocalCaches, k \in DOMAIN At(m)'
               PROVE  /\ k \in DOMAIN acked' /\ At(m)'[k] = acked'[k]
                      /\ m = Owner(k)' \/ Leaves(k, m)'
      BY <1>2 DEF OnlyCurrent
  <2>1. CASE m = n
      BY <1>1, <1>2, <1>5, <1>6, <1>7, <2>1
  <2>2. CASE m # n
    <3>1. At(m)' = At(m)
        BY <1>8, <2>2
    <3> QED BY <1>1, <1>2, <3>1 DEF KeyOK, OnlyCurrent
  <2> QED BY <2>1, <2>2
<1>10. CarriesCurrent(k)'
  <2>1. Leaves(k, OldOwner(k))'
      BY <1>1, <1>2, <1>4 DEF Leaves, SameJob
  <2>2. k \in DOMAIN At(change.node)'
      BY <1>3, <1>7 DEF At
  <2> QED BY <1>1, <1>2, <1>3, <1>4, <2>1, <2>2 DEF CarriesCurrent
<1>11. WillLeave(k)'
    BY <1>3 DEF WillLeave
<1>12. IsSomewhere(k)'
  <2>1. k \in DOMAIN At(Owner(k))'
      BY <1>2, <1>5, <1>7 DEF At
  <2> QED BY <1>2, <1>5, <2>1 DEF IsSomewhere
<1>13. WritesToOwner(k)'
    BY <1>1, <1>3, NoWriteInChange DEF KeyOK
<1> QED BY <1>9, <1>10, <1>11, <1>12, <1>13 DEF KeyOK

LEMMA MigrateDeleteData ==
    ASSUME Inv, NEW k \in Key, MigrateDelete(k), KeyOK(k)
    PROVE  KeyOK(k)'
<1> USE DEF Inv
<1>0. PICK q : q = OldOwner(k)
    OBVIOUS
<1>1. /\ change.op = "AddNode" /\ k \in change.moved
      /\ SameJob /\ change'.from = change.from
      /\ change'.moved = {} /\ change'.data = change.data
      /\ change.from \in 1 .. Len(caches) =>
             caches'[change.from] = Without(caches[change.from], k)
      /\ \A i \in 1 .. Len(caches) : i # change.from => caches'[i] = caches[i]
      /\ UNCHANGED <<layout, ringVars, thread, acked>>
    BY MigrateDeleteEffect
<1>2. /\ Owner(k)' = Owner(k) /\ Place(k)' = Place(k) /\ OldOwner(k)' = OldOwner(k)
      /\ LocalCaches' = LocalCaches /\ SortedHashes' = SortedHashes
      /\ \A m : Leaves(k, m)' <=> Leaves(k, m)
    BY <1>1, JobRouting
<1>3. Moved(k) /\ ~Moved(k)' /\ ~MuFree /\ (Carried(k)' <=> Carried(k))
    BY <1>1 DEF Carried, Moved, SameJob
<1>4. Leaves(k, q) /\ change.from = LocalCaches[q] /\ k \in DOMAIN At(change.node)
    BY <1>0, <1>1, <1>3 DEF KeyOK, CarriesCurrent
<1>5. /\ Owner(k) = change.node /\ SortedHashes # {}
      /\ q \in DOMAIN LocalCaches /\ q # Owner(k) /\ Owner(k) \in DOMAIN LocalCaches
    BY <1>4 DEF Leaves, ChangeInv
<1>6. k \notin DOMAIN At(q)'
  <2>1. At(q)' = Without(At(q), k)
      BY <1>1, <1>2, <1>4, <1>5, AtLemma DEF At
  <2> QED BY <2>1 DEF Without
<1>7. ASSUME NEW m \in DOMAIN LocalCaches, m # q PROVE At(m)' = At(m)
  <2>1. LocalCaches[m] # change.from /\ LocalCaches[m] \in 1 .. Len(caches)
      BY <1>4, <1>5, <1>7, AtLemma DEF CachesInv
  <2> QED BY <1>1, <1>2, <2>1 DEF At
<1>8. ASSUME NEW m \in DOMAIN LocalCaches, k \in DOMAIN At(m)'
      PROVE  m = Owner(k) /\ k \in DOMAIN acked /\ At(m)'[k] = acked[k]
  <2>1. m # q /\ At(m)' = At(m)
      BY <1>6, <1>7, <1>8
  <2>2. ~Leaves(k, m)
      BY <1>0, <2>1 DEF Leaves
  <2> QED BY <1>8, <2>1, <2>2 DEF KeyOK, OnlyCurrent
<1>9. OnlyCurrent(k)' /\ WillLeave(k)'
    BY <1>1, <1>2, <1>8 DEF OnlyCurrent, WillLeave
<1>10. CarriesCurrent(k)'
  <2>1. Leaves(k, OldOwner(k))'
      BY <1>0, <1>1, <1>2, <1>4 DEF Leaves, SameJob
  <2>2. Carried(k)' => k \in DOMAIN acked /\ change.data[k] = acked[k]
      BY <1>3, <1>5 DEF KeyOK, CarriesCurrent
  <2> QED BY <1>0, <1>1, <1>2, <1>3, <1>4, <2>1, <2>2 DEF CarriesCurrent
<1>11. IsSomewhere(k)'
  <2>1. PICK n : n = Owner(k)
      OBVIOUS
  <2>2. k \in DOMAIN At(n)'
      BY <1>4, <1>5, <1>7, <2>1
  <2>3. k \in DOMAIN At(Owner(k))'
      BY <1>2, <2>1, <2>2 DEF At
  <2> QED BY <1>2, <1>5, <2>3 DEF IsSomewhere
<1>12. WritesToOwner(k)'
    BY <1>1, <1>3, NoWriteInChange DEF KeyOK
<1> QED BY <1>9, <1>10, <1>11, <1>12 DEF KeyOK

LEMMA RedistributeData ==
    ASSUME Inv, NEW k \in Key, redistributeDataBasic(k), KeyOK(k)
    PROVE  KeyOK(k)'
<1> USE DEF Inv
<1>0. PICK n : n = Owner(k)
    OBVIOUS
<1>1. /\ change.op = "RemoveNode" /\ k \in DOMAIN change.data /\ SortedHashes # {}
      /\ n \in DOMAIN LocalCaches
      /\ SameJob /\ change'.moved = change.moved
      /\ DOMAIN change'.data = DOMAIN change.data \ {k}
      /\ caches'[LocalCaches[n]] = With(At(n), k, change.data[k])
      /\ \A i \in 1 .. Len(caches) : i # LocalCaches[n] => caches'[i] = caches[i]
      /\ UNCHANGED <<layout, ringVars, thread, acked>>
    BY <1>0, RedistributeEffect DEF Owner
<1>2. /\ Owner(k)' = n /\ LocalCaches' = LocalCaches /\ SortedHashes' = SortedHashes
    BY <1>0, <1>1, JobRouting
<1>3. Carried(k) /\ ~Carried(k)' /\ ~Moved(k)' /\ ~MuFree /\ change'.op = "RemoveNode"
    BY <1>1 DEF Carried, Moved, SameJob, ChangeInv
<1>4. k \in DOMAIN acked /\ change.data[k] = acked[k]
    BY <1>1, <1>3 DEF KeyOK, CarriesCurrent
<1>5. k \in DOMAIN At(n)' /\ At(n)'[k] = acked[k]
    BY <1>1, <1>2, <1>4 DEF At, With
<1>6. ASSUME NEW m \in DOMAIN LocalCaches, m # n PROVE k \notin DOMAIN At(m)'
  <2>1. LocalCaches[m] # LocalCaches[n] /\ LocalCaches[m] \in 1 .. Len(caches)
      BY <1>1, <1>6, AtLemma DEF CachesInv
  <2>2. At(m)' = At(m)
      BY <1>1, <1>2, <2>1 DEF At
  <2>3. ~Leaves(k, m)
      BY <1>1 DEF Leaves
  <2> QED BY <1>0, <1>6, <2>2, <2>3 DEF KeyOK, OnlyCurrent
<1>7. OnlyCurrent(k)' /\ WillLeave(k)'
  <2>1. ASSUME NEW m \in DOMAIN LocalCaches, k \in DOMAIN At(m)'
        PROVE  m = n /\ At(m)'[k] = acked[k]
      BY <1>5, <1>6, <2>1
  <2> QED BY <1>1, <1>2, <1>4, <2>1 DEF OnlyCurrent, WillLeave
<1>8. CarriesCurrent(k)'
    BY <1>3 DEF CarriesCurrent
<1>9. IsSomewhere(k)'
  <2>1. k \in DOMAIN At(Owner(k))'
      BY <1>2, <1>5 DEF At
  <2> QED BY <1>1, <1>2, <2>1 DEF IsSomewhere
<1>10. WritesToOwner(k)'
    BY <1>1, <1>3, NoWriteInChange DEF KeyOK
<1> QED BY <1>7, <1>8, <1>9, <1>10 DEF KeyOK

(***************************************************************************)
(* The end of a change: nothing is to be scanned, carried or deleted.      *)
(***************************************************************************)
LEMMA EndData ==
    ASSUME Inv, RedistributePanics \/ EndChange, NEW k \in Key, KeyOK(k)
    PROVE  KeyOK(k)'
<1> USE DEF Inv
<1>1. /\ ~MuFree /\ MuFree'
      /\ RedistributePanics => SortedHashes = {}
      /\ EndChange => change.todo = {} /\ DOMAIN change.data = {} /\ change.moved = {}
      /\ UNCHANGED <<layout, ringVars, caches, thread, acked>>
    BY EndEffect
<1>2. /\ Owner(k)' = Owner(k) /\ LocalCaches' = LocalCaches /\ SortedHashes' = SortedHashes
    BY <1>1, SameRouting
<1>3. ASSUME NEW m PROVE At(m)' = At(m)
    BY <1>1, <1>2 DEF At
<1>4. ASSUME NEW m \in DOMAIN LocalCaches, k \in DOMAIN At(m) PROVE m = Owner(k)
  <2>1. CASE RedistributePanics
      BY <1>1, <2>1, EmptyRing
  <2>2. CASE EndChange
      BY <1>1, <1>4, <2>2 DEF KeyOK, WillLeave, Carried, Moved
  <2> QED BY <2>1, <2>2
<1>5. OnlyCurrent(k)' /\ WillLeave(k)'
    BY <1>1, <1>2, <1>3, <1>4 DEF KeyOK, OnlyCurrent, WillLeave
<1>6. CarriesCurrent(k)'
    BY <1>1 DEF CarriesCurrent, Carried, Moved, MuFree, NoChange
<1>7. IsSomewhere(k)'
  <2> SUFFICES ASSUME k \in DOMAIN acked PROVE IsSomewhere(k)'
      BY <1>1 DEF IsSomewhere
  <2>1. SortedHashes # {} /\ EndChange
      BY <1>1 DEF KeyOK, IsSomewhere
  <2>2. ~Carried(k)
      BY <1>1, <2>1 DEF Carried
  <2>3. k \in DOMAIN At(Owner(k))
      BY <1>4, <2>2 DEF KeyOK, IsSomewhere, Leaves
  <2>4. At(Owner(k))' = At(Owner(k))
      BY <1>1, <1>2 DEF At
  <2> QED BY <1>2, <2>1, <2>3, <2>4 DEF IsSomewhere
<1>8. WritesToOwner(k)'
    BY <1>1, NoWriteInChange DEF KeyOK
<1> QED BY <1>5, <1>6, <1>7, <1>8 DEF KeyOK

-----------------------------------------------------------------------------
LEMMA InvStep ==
    ASSUME ~ReAdd, NoCollision, Inv, [Next]_vars
    PROVE  Inv'
<1> USE DEF Inv
<1>1. TypeInv' /\ MembersInv' /\ ExactInv' /\ CachesInv' /\ ChangeInv'
    BY TypeStep, MembersStep, ExactStep, CachesStep, ChangeInvStep DEF TypeInv
<1>2. ASSUME NEW k \in Key, k \notin racing' PROVE KeyOK(k)'
  <2>1. ASSUME NEW n \in Node, AddNode(n) \/ RemoveNode(n) PROVE KeyOK(k)'
    <3>1. racing' = racing \cup WritesInFlight
        BY <2>1 DEF AddNode, RemoveNode
    <3>2. k \notin WritesInFlight /\ KeyOK(k)
        BY <1>2, <3>1 DEF DataInv
    <3> QED BY <2>1, <3>2, AddData, RemoveData
  <2>2. ASSUME UNCHANGED racing PROVE KeyOK(k)
      BY <1>2, <2>2 DEF DataInv
  <2>3. ASSUME NEW c \in Client, Call(c) \/ FetchCache(c) PROVE KeyOK(k)'
    <3>1. UNCHANGED racing
        BY <2>3 DEF Call, GetNodeForKey, CallPanics, FetchCache, vars
    <3> QED BY <2>2, <2>3, <3>1, RouteData
  <2>4. ASSUME NEW c \in Client, UseCache(c) PROVE KeyOK(k)'
    <3>1. UNCHANGED racing
        BY <2>4 DEF UseCache
    <3> QED BY <2>2, <2>4, <3>1, UseOther, UseOwn
  <2>5. ASSUME NEW p, ScanVirtualNode(p) PROVE KeyOK(k)'
    <3>1. UNCHANGED racing
        BY <2>5 DEF ScanVirtualNode
    <3> QED BY <2>2, <2>5, <3>1, ScanData
  <2>6. ASSUME NEW j \in Key, MigrateSet(j) \/ MigrateDelete(j) \/ redistributeDataBasic(j)
        PROVE  KeyOK(k)'
    <3>1. UNCHANGED racing
        BY <2>6 DEF MigrateSet, MigrateDelete, redistributeDataBasic
    <3>2. CASE j = k
        BY <2>2, <2>6, <3>1, <3>2, MigrateSetData, MigrateDeleteData, RedistributeData
    <3>3. CASE j # k
        BY <2>2, <2>6, <3>1, <3>3, MigrateOther
    <3> QED BY <3>2, <3>3
  <2>7. ASSUME RedistributePanics \/ EndChange PROVE KeyOK(k)'
    <3>1. UNCHANGED racing
        BY <2>7 DEF RedistributePanics, EndChange
    <3> QED BY <2>2, <2>7, <3>1, EndData
  <2>8. ASSUME UNCHANGED vars PROVE KeyOK(k)'
    <3>1. UNCHANGED <<layout, ringVars, caches, change, thread, acked, racing>>
        BY <2>8 DEF vars, ringVars
    <3>2. Placed(k)'
        BY <2>2, <3>1, SameStores, SameCarriage, AlikeLemma DEF KeyOK, Placed
    <3>3. WritesToOwner(k)'
      <4>1. /\ Owner(k)' = Owner(k) /\ LocalCaches' = LocalCaches
            /\ SortedHashes' = SortedHashes /\ MuFree' = MuFree
          BY <3>1, SameRouting DEF MuFree, NoChange
      <4>2. \A c \in Client : WriteOf(c, k)' => WriteOf(c, k)
          BY <3>1 DEF WriteOf, NoCall
      <4> QED BY <2>2, <3>1, <4>1, <4>2 DEF KeyOK, WritesToOwner
    <3> QED BY <3>2, <3>3 DEF KeyOK, Placed
  <2> QED BY <2>1, <2>3, <2>4, <2>5, <2>6, <2>7, <2>8 DEF Next, MigrationStep
<1>3. DataInv'
    BY <1>2 DEF DataInv
<1> QED BY <1>1, <1>3

LEMMA InvInit == ASSUME NoCollision, Init PROVE Inv
BY TypeInit, RingInit, ExactInit, CachesInit, DataInit DEF Inv

LEMMA QuietLemma ==
    ASSUME Inv, Quiet, NEW k \in Key, k \notin racing
    PROVE  /\ Agrees(k)
           /\ \A n \in DOMAIN LocalCaches : k \in DOMAIN At(n) => n = Owner(k)
<1>1. MuFree /\ SortedHashes # {}
    BY DEF Quiet
<1>2. KeyOK(k) /\ TypeInv
    BY DEF Inv, DataInv
<1>3. ~Carried(k) /\ \A n : ~Leaves(k, n)
    BY <1>1, FreeLemma
<1>4. Owner(k) \in DOMAIN LocalCaches
    BY <1>1, <1>2, OwnerLemma DEF Owner, TypeInv
<1>5. /\ k \in DOMAIN At(Owner(k)) <=> k \in DOMAIN acked
      /\ k \in DOMAIN At(Owner(k)) => At(Owner(k))[k] = acked[k]
    BY <1>2, <1>3, <1>4 DEF KeyOK, OnlyCurrent, IsSomewhere
<1>6. Agrees(k)
    BY <1>5 DEF Agrees, At, Owner
<1> QED BY <1>2, <1>3, <1>6 DEF KeyOK, OnlyCurrent

(***************************************************************************)
(* Whatever nodes come and go, between changes the cache a key is routed   *)
(* to holds what the completed writes of the key add up to, if no write of *)
(* the key was in flight when a change began (migrateDataForAddedNode,     *)
(* redistributeDataBasic).                                                 *)
(***************************************************************************)
THEOREM WritesSafe == ~ReAdd /\ NoCollision => (Spec => []UnracedWritesSurvive)
<1> SUFFICES ASSUME ~ReAdd, NoCollision PROVE Spec => []UnracedWritesSurvive
    OBVIOUS
<1>1. Init => Inv
    BY InvInit
<1>2. Inv /\ [Next]_vars => Inv'
    BY InvStep
<1>3. Inv => UnracedWritesSurvive
    BY QuietLemma DEF UnracedWritesSurvive
<1> QED BY <1>1, <1>2, <1>3, PTL DEF Spec

(***************************************************************************)
(* Between changes no other cache has a copy of such a key, so no later    *)
(* removal can write an old value over the current one (MigrateDelete      *)
(* after MigrateSet; RemoveNode).                                          *)
(***************************************************************************)
THEOREM OneCopySafe == ~ReAdd /\ NoCollision => (Spec => []OneCopy)
<1> SUFFICES ASSUME ~ReAdd, NoCollision PROVE Spec => []OneCopy
    OBVIOUS
<1>1. Init => Inv
    BY InvInit
<1>2. Inv /\ [Next]_vars => Inv'
    BY InvStep
<1>3. Inv => OneCopy
    BY QuietLemma DEF OneCopy, At, Owner
<1> QED BY <1>1, <1>2, <1>3, PTL DEF Spec

-----------------------------------------------------------------------------
(***************************************************************************)
(* MigratedKeys.  While no write has been raced, the new node has exactly  *)
(* the keys that were counted, and the one that is about to be; what is    *)
(* carried has not arrived yet, and what has arrived is nowhere else,      *)
(* except for the key that has only to be deleted.  Hence no scan of a     *)
(* later virtual node finds a key that an earlier one has counted.         *)
(***************************************************************************)
Arrived == DOMAIN At(change.node)

CountInv ==
    change.op = "AddNode" /\ racing = {} =>
        /\ IsFiniteSet(Arrived)
        /\ Cardinality(Arrived) = change.count + (IF change.moved = {} THEN 0 ELSE 1)
        /\ \A k \in DOMAIN change.data : k \notin Arrived
        /\ \A n \in DOMAIN LocalCaches, k \in Arrived :
               n # change.node /\ k \in DOMAIN At(n) => k \in change.moved

(* A change whose new node's cache, and the others', keep their keys *)
LEMMA CountSame ==
    ASSUME TypeInv, ChangeIsTyped, CountInv, change.op = "AddNode", racing = {},
           UNCHANGED <<ringVars, change>>, Len(caches') = Len(caches),
           \A i \in 1 .. Len(caches) : caches'[i] = caches[i]
    PROVE  CountInv'
<1>1. change.node \in DOMAIN LocalCaches /\ LocalCaches' = LocalCaches
    BY DEF ChangeIsTyped, NoChange, ringVars
<1>2. \A n \in DOMAIN LocalCaches : At(n)' = At(n)
    BY <1>1, AtLemma DEF At
<1>3. Arrived' = Arrived
    BY <1>1, <1>2 DEF Arrived, At
<1> QED BY <1>1, <1>2, <1>3 DEF CountInv

LEMMA CountScan ==
    ASSUME TypeInv, CountInv, NEW p, ScanVirtualNode(p), racing = {}
    PROVE  CountInv'
<1>0. PICK old : old = findResponsibleNodeInOldRing(p)
    OBVIOUS
<1>1. /\ change.op = "AddNode" /\ DOMAIN change.data = {} /\ change.moved = {}
      /\ p \in change.todo
      /\ SameJob /\ change'.todo = change.todo \ {p} /\ change'.moved = {}
      /\ old \in DOMAIN LocalCaches \ {change.node} =>
             /\ change'.from = LocalCaches[old]
             /\ DOMAIN change'.data
                    = {k \in DOMAIN At(old) : getNodeForKeyUnsafe(k) = change.node}
             /\ \A k \in DOMAIN change'.data : change'.data[k] = At(old)[k]
      /\ old \notin DOMAIN LocalCaches \ {change.node} => DOMAIN change'.data = {}
      /\ UNCHANGED <<layout, ringVars, caches, thread, MigratedKeys, acked, racing>>
    BY <1>0, ScanEffect
<1>2. change'.count = change.count
    BY DEF ScanVirtualNode
<1>3. Arrived' = Arrived /\ LocalCaches' = LocalCaches /\ \A n : At(n)' = At(n)
    BY <1>1 DEF Arrived, At, SameJob, ringVars
<1>4. \A k \in DOMAIN change'.data : k \notin Arrived
    BY <1>1 DEF CountInv
<1>5. change'.node = change.node
    BY <1>1 DEF SameJob
<1> QED BY <1>1, <1>2, <1>3, <1>4, <1>5 DEF CountInv

LEMMA CountSet ==
    ASSUME TypeInv, CachesInv, CountInv, NEW k \in Key, MigrateSet(k), racing = {}
    PROVE  CountInv'
<1>1. /\ change.op = "AddNode" /\ change.moved = {} /\ k \in DOMAIN change.data
      /\ change.node \in DOMAIN LocalCaches
      /\ SameJob /\ change'.todo = change.todo /\ change'.from = change.from
      /\ change'.moved = {k} /\ DOMAIN change'.data = DOMAIN change.data \ {k}
      /\ \A j \in DOMAIN change'.data : change'.data[j] = change.data[j]
      /\ caches' \in Seq(CacheMap) /\ Len(caches') = Len(caches)
      /\ caches'[LocalCaches[change.node]] = With(At(change.node), k, change.data[k])
      /\ \A i \in 1 .. Len(caches) : i # LocalCaches[change.node] => caches'[i] = caches[i]
      /\ UNCHANGED <<layout, ringVars, thread, MigratedKeys, acked, racing>>
    BY MigrateSetEffect
<1>2. change'.count = change.count /\ change'.node = change.node /\ LocalCaches' = LocalCaches
    BY <1>1 DEF MigrateSet, SameJob, ringVars
<1>3. Arrived' = Arrived \cup {k} /\ k \notin Arrived
    BY <1>1, <1>2 DEF Arrived, At, With, CountInv
<1>4. \A n \in DOMAIN LocalCaches : n # change.node => At(n)' = At(n)
  <2> SUFFICES ASSUME NEW n \in DOMAIN LocalCaches, n # change.node PROVE At(n)' = At(n)
      OBVIOUS
  <2>1. LocalCaches[n] \in 1 .. Len(caches) /\ LocalCaches[n] # LocalCaches[change.node]
      BY <1>1, AtLemma DEF CachesInv
  <2> QED BY <1>1, <1>2, <2>1 DEF At
<1>5. IsFiniteSet(Arrived) /\ Cardinality(Arrived) = change.count
  <2>1. change \in ChangeType
      BY <1>1, ChangingLemma DEF TypeInv, ChangeIsTyped, SameJob, MuFree
  <2>2. change.count \in Nat
      BY <2>1 DEF ChangeType
  <2> QED BY <1>1, <2>2 DEF CountInv
<1>6. IsFiniteSet(Arrived') /\ Cardinality(Arrived') = Cardinality(Arrived) + 1
    BY <1>3, <1>5, FS_AddElement
<1>7. \A n \in DOMAIN LocalCaches, j \in Arrived : n # change.node => j \notin DOMAIN At(n)
    BY <1>1 DEF CountInv
<1>8. \A j \in DOMAIN change'.data : j \notin Arrived'
    BY <1>1, <1>3 DEF CountInv
<1>9. \A n \in DOMAIN LocalCaches, j \in Arrived' :
          n # change.node /\ j \in DOMAIN At(n)' => j \in change'.moved
    BY <1>1, <1>3, <1>4, <1>7
<1> QED BY <1>1, <1>2, <1>5, <1>6, <1>8, <1>9 DEF CountInv

LEMMA CountDelete ==
    ASSUME Inv, CountInv, NEW k \in Key, MigrateDelete(k), racing = {}
    PROVE  CountInv'
<1> USE DEF Inv
<1>0. PICK q : q = OldOwner(k)
    OBVIOUS
<1>1. /\ change.op = "AddNode" /\ k \in change.moved
      /\ SameJob /\ change'.todo = change.todo /\ change'.from = change.from
      /\ change'.moved = {} /\ change'.data = change.data
      /\ caches' \in Seq(CacheMap) /\ Len(caches') = Len(caches)
      /\ change.from \in 1 .. Len(caches) =>
             caches'[change.from] = Without(caches[change.from], k)
      /\ \A i \in 1 .. Len(caches) : i # change.from => caches'[i] = caches[i]
      /\ UNCHANGED <<layout, ringVars, thread, MigratedKeys, acked, racing>>
    BY MigrateDeleteEffect
<1>2. /\ change'.count = change.count + 1 /\ change'.node = change.node
      /\ LocalCaches' = LocalCaches /\ change \in ChangeType /\ change.count \in Nat
  <2>1. change \in ChangeType
      BY <1>1, ChangingLemma DEF TypeInv, ChangeIsTyped, SameJob, MuFree
  <2> QED BY <1>1, <2>1 DEF MigrateDelete, SameJob, ringVars, ChangeType
<1>3. KeyOK(k) /\ Moved(k)
    BY <1>1 DEF DataInv, SameJob, Moved
<1>4. /\ Leaves(k, q) /\ change.from = LocalCaches[q] /\ Owner(k) = change.node
      /\ q # change.node /\ q \in DOMAIN LocalCaches
    BY <1>0, <1>1, <1>3 DEF KeyOK, CarriesCurrent, Leaves
<1>5. change.node \in DOMAIN LocalCaches /\ \A i, j \in change.moved : i = j
    BY <1>1 DEF ChangeInv
<1>6. ASSUME NEW n \in DOMAIN LocalCaches, n # q PROVE At(n)' = At(n)
  <2>1. LocalCaches[n] \in 1 .. Len(caches) /\ LocalCaches[n] # LocalCaches[q]
      BY <1>4, <1>6, AtLemma DEF CachesInv
  <2> QED BY <1>1, <1>2, <1>4, <2>1 DEF At
<1>7. DOMAIN At(q)' = DOMAIN At(q) \ {k}
  <2>1. LocalCaches[q] \in 1 .. Len(caches)
      BY <1>4, AtLemma
  <2> QED BY <1>1, <1>2, <1>4, <2>1 DEF At, Without
<1>8. Arrived' = Arrived
    BY <1>2, <1>4, <1>5, <1>6 DEF Arrived, At
<1>9. /\ IsFiniteSet(Arrived) /\ Cardinality(Arrived) = change.count + 1
      /\ \A j \in DOMAIN change.data : j \notin Arrived
    BY <1>1 DEF CountInv
<1>10. ASSUME NEW n \in DOMAIN LocalCaches, NEW j \in Arrived, n # change.node,
              j \in DOMAIN At(n)'
       PROVE  FALSE
  <2>1. j \in DOMAIN At(n)
      BY <1>6, <1>7, <1>10
  <2>2. j = k
      BY <1>1, <1>5, <1>10, <2>1 DEF CountInv
  <2>3. n = q
      BY <1>0, <1>3, <1>4, <1>10, <2>1, <2>2 DEF KeyOK, OnlyCurrent, Leaves
  <2> QED BY <1>7, <1>10, <2>2, <2>3
<1> QED BY <1>1, <1>2, <1>8, <1>9, <1>10 DEF CountInv

(* While a change goes on, the calls in flight only read: a write would be raced. *)
LEMMA NoWriteNow ==
    ASSUME Inv, racing = {}, ~MuFree, NEW c \in Client, UseCache(c)
    PROVE  \A i \in 1 .. Len(caches) : caches'[i] = caches[i]
<1>1. /\ thread[c] \in Fetched /\ thread[c].req \in Requests
      /\ thread[c].cache \in 1 .. Len(caches)
      /\ acked' = Applied(thread[c].req, acked)
      /\ caches'[thread[c].cache] = Applied(thread[c].req, caches[thread[c].cache])
      /\ \A j \in 1 .. Len(caches) : j # thread[c].cache => caches'[j] = caches[j]
      /\ DataIsTyped' /\ Len(caches') = Len(caches)
    BY UseLemma DEF Inv
<1>2. thread[c].req.key \in Key /\ thread[c] # NoCall
    BY <1>1 DEF Fetched, Requests, NoCall
<1>3. WritesToOwner(thread[c].req.key)
    BY <1>2 DEF Inv, DataInv, KeyOK
<1>4. thread[c].req.op = "Get"
    BY <1>2, <1>3 DEF WritesToOwner, WriteOf
<1>5. caches'[thread[c].cache] = caches[thread[c].cache]
    BY <1>1, <1>4 DEF Applied
<1> QED BY <1>1, <1>5

LEMMA CountStep ==
    ASSUME ~ReAdd, NoCollision, Inv, CountInv, [Next]_vars
    PROVE  CountInv'
<1> SUFFICES ASSUME change'.op = "AddNode", racing' = {} PROVE CountInv'
    BY DEF CountInv
<1>1. TypeInv /\ ChangeIsTyped /\ CachesInv
    BY DEF Inv, TypeInv
<1>2. ASSUME NEW n \in Node, AddNode(n) PROVE CountInv'
  <2>1. /\ change'.node = n /\ change'.moved = {} /\ DOMAIN change'.data = {}
        /\ LocalCaches'[n] = Len(caches) + 1 /\ caches'[Len(caches) + 1] = EmptyMap
      BY <1>1, <1>2, AddedCaches, AddedChange
  <2>2. change'.count = 0
      BY <1>2 DEF AddNode
  <2>3. Arrived' = {}
      BY <2>1, EmptyLemma DEF Arrived, At
  <2> QED BY <2>1, <2>2, <2>3, FS_EmptySet DEF CountInv
<1>3. ASSUME NEW n \in Node, RemoveNode(n) PROVE FALSE
    BY <1>1, <1>3, RemovedChange
<1>4. ASSUME RedistributePanics \/ EndChange PROVE FALSE
    BY <1>4 DEF RedistributePanics, EndChange, NoChange
<1>5. ASSUME NEW k \in Key, redistributeDataBasic(k) PROVE FALSE
    BY <1>1, <1>5, RedistributeEffect DEF SameJob
<1>6. ASSUME NEW p, ScanVirtualNode(p) PROVE CountInv'
  <2>1. racing = {}
      BY <1>6 DEF ScanVirtualNode
  <2> QED BY <1>1, <1>6, <2>1, CountScan
<1>7. ASSUME NEW k \in Key, MigrateSet(k) PROVE CountInv'
  <2>1. racing = {}
      BY <1>7 DEF MigrateSet
  <2> QED BY <1>1, <1>7, <2>1, CountSet
<1>8. ASSUME NEW k \in Key, MigrateDelete(k) PROVE CountInv'
  <2>1. racing = {}
      BY <1>8 DEF MigrateDelete
  <2> QED BY <1>8, <2>1, CountDelete
<1>9. ASSUME NEW c \in Client, UseCache(c) PROVE CountInv'
  <2>1. racing = {} /\ UNCHANGED <<ringVars, change>> /\ change.op = "AddNode"
      BY <1>9 DEF UseCache
  <2>2. ~MuFree
      BY <2>1 DEF MuFree, NoChange
  <2>3. Len(caches') = Len(caches)
      BY <1>1, <1>9, UseLemma
  <2> QED BY <1>1, <1>9, <2>1, <2>2, <2>3, NoWriteNow, CountSame
<1>10. ASSUME UNCHANGED <<ringVars, change, caches, racing>> PROVE CountInv'
    BY <1>1, <1>10, CountSame
<1>11. ASSUME NEW c \in Client, Call(c) \/ FetchCache(c) PROVE CountInv'
  <2>1. UNCHANGED <<ringVars, change, caches, racing>>
      BY <1>11 DEF Call, GetNodeForKey, CallPanics, FetchCache, vars, ringVars
  <2> QED BY <1>10, <2>1
<1>12. ASSUME UNCHANGED vars PROVE CountInv'
  <2>1. UNCHANGED <<ringVars, change, caches, racing>>
      BY <1>12 DEF vars, ringVars
  <2> QED BY <1>10, <2>1
<1> QED BY <1>2, <1>3, <1>4, <1>5, <1>6, <1>7, <1>8, <1>9, <1>11, <1>12 DEF Next, MigrationStep

(***************************************************************************)
(* An addition adds to MigratedKeys exactly the number of keys the new     *)
(* node has received, however many virtual nodes it has and however many   *)
(* of them take keys from the same old node, as long as no write was in    *)
(* flight when a change began (migrateDataForAddedNode,                    *)
(* updateBasicMigrationStats).                                             *)
(***************************************************************************)
THEOREM CountSafe == ~ReAdd /\ NoCollision => (Spec => CountsWhatMoved)
<1> SUFFICES ASSUME ~ReAdd, NoCollision PROVE Spec => CountsWhatMoved
    OBVIOUS
<1> DEFINE I == Inv /\ CountInv
           A == change.op = "AddNode" /\ MuFree' /\ racing = {} =>
                    MigratedKeys' - MigratedKeys
                        = Cardinality(DOMAIN caches[LocalCaches[change.node]])
<1>1. Init => I
  <2>1. Init => CountInv
      BY DEF Init, CountInv, NoChange
  <2> QED BY <2>1, InvInit
<1>2. I /\ [Next]_vars => I'
    BY InvStep, CountStep
<1>3. I /\ [Next]_vars => [A]_vars
  <2> SUFFICES ASSUME I, [Next]_vars, vars' # vars,
                      change.op = "AddNode", MuFree', racing = {}
               PROVE  MigratedKeys' - MigratedKeys = Cardinality(Arrived)
      BY DEF Arrived, At
  <2>1. TypeInv /\ ~MuFree
      BY DEF Inv, MuFree, NoChange
  <2>2. change \in ChangeType /\ change.count \in Nat /\ MigratedKeys \in Nat
      BY <2>1, ChangingLemma DEF TypeInv, ChangeIsTyped, MuFree, DataIsTyped, ChangeType
  <2>3. ASSUME NEW n \in Node, AddNode(n) \/ RemoveNode(n) PROVE FALSE
      BY <2>1, <2>3 DEF AddNode, RemoveNode
  <2>4. ASSUME NEW c \in Client, Call(c) \/ FetchCache(c) \/ UseCache(c) PROVE FALSE
    <3>1. change' = change
        BY <2>4 DEF Call, GetNodeForKey, CallPanics, FetchCache, UseCache, vars
    <3> QED BY <2>1, <3>1 DEF MuFree, NoChange
  <2>5. ASSUME NEW p, ScanVirtualNode(p) PROVE FALSE
    <3>1. PICK old : old = findResponsibleNodeInOldRing(p)
        OBVIOUS
    <3>2. SameJob
        BY <2>1, <2>5, <3>1, ScanEffect
    <3> QED BY <3>2 DEF SameJob
  <2>6. ASSUME NEW k \in Key, MigrateSet(k) PROVE FALSE
      BY <2>1, <2>6, MigrateSetEffect DEF SameJob
  <2>7. ASSUME NEW k \in Key, MigrateDelete(k) PROVE FALSE
      BY <2>1, <2>7, MigrateDeleteEffect DEF SameJob
  <2>8. ASSUME NEW k \in Key, redistributeDataBasic(k) PROVE FALSE
      BY <2>8 DEF redistributeDataBasic
  <2>9. ASSUME EndChange PROVE MigratedKeys' - MigratedKeys = Cardinality(Arrived)
    <3>1. MigratedKeys' = MigratedKeys + change.count /\ change.moved = {}
        BY <2>9 DEF EndChange, NothingPending
    <3>2. Cardinality(Arrived) = change.count
        BY <2>2, <3>1 DEF CountInv
    <3> QED BY <2>2, <3>1, <3>2
  <2>10. ASSUME RedistributePanics PROVE FALSE
      BY <2>10 DEF RedistributePanics
  <2> QED BY <2>3, <2>4, <2>5, <2>6, <2>7, <2>8, <2>9, <2>10 DEF Next, MigrationStep
<1> QED
  <2>1. Spec => [][A]_vars
      BY <1>1, <1>2, <1>3, PTL DEF Spec
  <2> QED BY <2>1 DEF CountsWhatMoved
=============================================================================
