-------------------------- MODULE Monitoring_proofs --------------------------
(***************************************************************************)
(* Theorems about monitoring/hash_ring_monitor.go beside a cache whose     *)
(* nodes come and go, for every number of observers, nodes, keys, clients  *)
(* and snapshots kept.                                                     *)
(***************************************************************************)
EXTENDS Monitoring, Migration_proofs

(***************************************************************************)
(* Every step is a step of the cache or leaves the cache alone.            *)
(***************************************************************************)
LEMMA WatchedStep == [NextMonitoring]_allVars => [Next]_vars
<1> SUFFICES ASSUME [NextMonitoring]_allVars PROVE Next \/ UNCHANGED vars
    OBVIOUS
<1>1. ASSUME CacheStep PROVE Next
    BY <1>1 DEF CacheStep, Next
<1>2. ASSUME NEW o, ObserverStep(o) \/ Handler(o) PROVE UNCHANGED vars
    BY <1>2 DEF ObserverStep, Handler, CaptureLock, extractNodeInfo, CountCache, CaptureEnd,
                UpdateLock, UpdateAfterTracking,
                UpdateKey, UpdatePanics, UpdateEnd, CaptureAfterEvent, Enable, Disable, SwitchTo,
                CaptureSnapshot, UpdateDataDistribution
<1>3. ASSUME Integration PROVE UNCHANGED vars
    BY <1>3 DEF Integration, TrackDataKeys, AddDataKey, RemoveDataKey, TracksKeys,
                UpdateDataDistribution, OnChangeEvent
<1>4. ASSUME UNCHANGED allVars PROVE UNCHANGED vars
    BY <1>4 DEF allVars
<1> QED BY <1>1, <1>2, <1>3, <1>4 DEF NextMonitoring

(***************************************************************************)
(* Watching does not disturb: whatever the observers do, the cache under   *)
(* the monitor behaves like a cache alone, so every theorem about it holds *)
(* beside the monitor too (CaptureSnapshot and UpdateDataDistribution only *)
(* read it).                                                               *)
(***************************************************************************)
THEOREM WatchingIsHarmless == SpecMonitoring => Spec
<1>1. InitMonitoring => Init
    BY DEF InitMonitoring
<1> QED BY <1>1, WatchedStep, PTL DEF SpecMonitoring, Spec

-----------------------------------------------------------------------------
(***************************************************************************)
(* What each observer is doing.  One that has counted the nodes, and holds *)
(* the read lock, knows the node list as it still is.                      *)
(***************************************************************************)
JobOK(j) ==
    \/ j = Idle
    \/ j \in [pc : {"capture", "capturing", "event", "tracked"}]
    \/ j \in [pc : {"update", "updating"}, keys : SUBSET Key]
    \/ /\ j = Extracting(j.nodes, j.todo, j.data)
       /\ j.nodes = Range(Nodes) /\ j.todo \subseteq Range(Nodes) \cap Node

JobsInv == DOMAIN job = Observer /\ \A o \in Observer : JobOK(job[o])

(***************************************************************************)
(* A snapshot of one state of the ring.                                    *)
(***************************************************************************)
OneRing(nodes, ring) ==
    /\ DOMAIN ring = UNION {layout.vnodes[n] : n \in nodes}
    /\ Range(ring) = nodes

IsSnapshot(s) ==
    s = [nodes |-> s.nodes, data |-> s.data, VirtualNodes |-> s.VirtualNodes,
         DataDistribution |-> s.DataDistribution]

HistoryInv ==
    /\ \E S : snapshots \in Seq(S)
    /\ \A i \in 1 .. Len(snapshots) :
           IsSnapshot(snapshots[i]) /\ OneRing(snapshots[i].nodes, snapshots[i].VirtualNodes)

(***************************************************************************)
(* The steps that change what an observer does.                            *)
(***************************************************************************)
LEMMA GoesLemma ==
    ASSUME JobsInv, NEW o \in Observer, NEW j, Goes(o, j), Nodes' = Nodes, JobOK(j)
    PROVE  JobsInv'
<1>1. \A i : JobOK(i)' <=> JobOK(i)
    BY DEF JobOK, Idle, Extracting
<1> QED BY <1>1 DEF JobsInv, Goes

KeysInv == dataKeys \subseteq Key

LEMMA KeysStep == KeysInv /\ [NextMonitoring]_allVars => KeysInv'
<1> SUFFICES ASSUME KeysInv, [NextMonitoring]_allVars PROVE dataKeys' \subseteq Key
    BY DEF KeysInv
<1>1. CASE CacheStep \/ UNCHANGED allVars
    BY <1>1 DEF KeysInv, CacheStep, monitorVars, allVars
<1>2. ASSUME NEW o, ObserverStep(o) \/ Handler(o) PROVE dataKeys' = dataKeys
    BY <1>2 DEF ObserverStep, Handler, CaptureLock, extractNodeInfo, CountCache, CaptureEnd,
                UpdateLock, UpdateAfterTracking,
                UpdateKey, UpdatePanics, UpdateEnd, CaptureAfterEvent, Enable, Disable, SwitchTo,
                CaptureSnapshot
<1>3. CASE Integration
    BY <1>3 DEF KeysInv, Integration, TrackDataKeys, AddDataKey, RemoveDataKey, TracksKeys,
                OnChangeEvent
<1> QED BY <1>1, <1>2, <1>3 DEF NextMonitoring, KeysInv

LEMMA JobsStep ==
    ASSUME MembersType, JobsInv, KeysInv, [NextMonitoring]_allVars
    PROVE  JobsInv'
<1>j. ASSUME NEW o \in Observer
      PROVE  /\ JobOK(job[o])
             /\ job[o].pc \in {"update", "updating"} =>
                    job[o] \in [pc : {"update", "updating"}, keys : SUBSET Key]
             /\ job[o].pc = "extracting" =>
                    job[o].nodes = Range(Nodes) /\ job[o].todo \subseteq Range(Nodes) \cap Node
    BY DEF JobsInv, JobOK, Idle, Extracting
<1>i. JobOK(Idle) /\ \A p \in {"capture", "capturing", "event", "tracked"} : JobOK([pc |-> p])
    BY DEF JobOK
<1>1. ASSUME CacheStep PROVE JobsInv'
  <2>1. UNCHANGED job
      BY <1>1 DEF CacheStep, monitorVars
  <2>2. CASE Nodes' = Nodes
      BY <2>1, <2>2 DEF JobsInv, JobOK, Idle, Extracting
  <2>3. CASE Nodes' # Nodes
    <3>1. ~Reading
        BY <1>1, <2>3 DEF CacheStep, Call, GetNodeForKey, CallPanics, FetchCache, UseCache,
              MigrationStep, ScanVirtualNode, MigrateSet, MigrateDelete, redistributeDataBasic,
              RedistributePanics, EndChange, vars, ringVars
    <3> QED BY <2>1, <3>1 DEF JobsInv, JobOK, Idle, Extracting, Reading
  <2> QED BY <2>2, <2>3
<1>2. ASSUME UNCHANGED <<Nodes, job>> PROVE JobsInv'
    BY <1>2 DEF JobsInv, JobOK, Idle, Extracting
<1>3. ASSUME NEW o \in Observer, CaptureLock(o) PROVE JobsInv'
    BY <1>3, <1>i, GoesLemma DEF CaptureLock, vars
<1>4. ASSUME NEW o \in Observer, extractNodeInfo(o) PROVE JobsInv'
  <2>1. JobOK(Extracting(Range(Nodes), Range(Nodes) \cap DOMAIN LocalCaches, {}))
      BY DEF JobOK, Extracting, MembersType
  <2> QED BY <1>4, <2>1, GoesLemma DEF extractNodeInfo, vars
<1>c. ASSUME NEW o \in Observer, NEW n \in Node, CountCache(o, n) PROVE JobsInv'
  <2>1. PICK d : Goes(o, Extracting(job[o].nodes, job[o].todo \ {n}, d))
      BY <1>c DEF CountCache
  <2>2. job[o].nodes = Range(Nodes) /\ job[o].todo \subseteq Range(Nodes) \cap Node
      BY <1>c, <1>j DEF CountCache
  <2>3. JobOK(Extracting(job[o].nodes, job[o].todo \ {n}, d))
      BY <2>2 DEF JobOK, Extracting
  <2> QED BY <1>c, <2>1, <2>3, GoesLemma DEF CountCache, vars
<1>5. ASSUME NEW o \in Observer, CaptureEnd(o) \/ UpdatePanics(o) \/ UpdateEnd(o) PROVE JobsInv'
    BY <1>5, <1>i, GoesLemma DEF CaptureEnd, UpdatePanics, UpdateEnd, vars
<1>6. ASSUME NEW o \in Observer, UpdateLock(o) PROVE JobsInv'
  <2>1. JobOK([job[o] EXCEPT !.pc = "updating"])
      BY <1>6, <1>j DEF UpdateLock, JobOK
  <2> QED BY <1>6, <1>i, <2>1, GoesLemma DEF UpdateLock, vars
<1>7. ASSUME NEW o \in Observer, NEW k \in Key, UpdateKey(o, k) PROVE JobsInv'
  <2>1. JobOK([job[o] EXCEPT !.keys = @ \ {k}])
      BY <1>7, <1>j DEF UpdateKey, JobOK
  <2> QED BY <1>7, <2>1, GoesLemma DEF UpdateKey, vars
<1>8. ASSUME CaptureAfterEvent PROVE JobsInv'
    BY <1>8, <1>i, GoesLemma, ObserverAssumption DEF CaptureAfterEvent, vars
<1>u. ASSUME UpdateAfterTracking PROVE JobsInv'
  <2>1. JobOK([pc |-> "update", keys |-> dataKeys])
      BY DEF JobOK, KeysInv
  <2> QED BY <1>u, <1>i, <2>1, GoesLemma, ObserverAssumption DEF UpdateAfterTracking, vars
<1>9. ASSUME NEW o \in Observer, Enable(o) \/ Disable(o) PROVE JobsInv'
    BY <1>9, <1>2 DEF Enable, Disable, SwitchTo, vars
<1>10. ASSUME NEW o \in Observer, CaptureSnapshot(o) PROVE JobsInv'
    BY <1>10, <1>i, GoesLemma DEF CaptureSnapshot, vars
<1>11. ASSUME NEW o \in Observer, NEW keys \in SUBSET Key, UpdateDataDistribution(o, keys)
       PROVE  JobsInv'
  <2>1. JobOK([pc |-> "update", keys |-> keys])
      BY DEF JobOK
  <2> QED BY <1>11, <2>1, GoesLemma DEF UpdateDataDistribution, vars
<1>12. ASSUME NEW keys, TracksKeys(keys) PROVE JobsInv'
    BY <1>12, <1>i, GoesLemma, ObserverAssumption DEF TracksKeys, vars
<1>13. ASSUME OnChangeEvent PROVE JobsInv'
    BY <1>13, <1>i, GoesLemma, ObserverAssumption DEF OnChangeEvent, vars
<1>14. ASSUME UNCHANGED allVars PROVE JobsInv'
    BY <1>14, <1>2 DEF allVars, vars, monitorVars
<1>15. ASSUME Integration PROVE JobsInv'
    BY <1>12, <1>13, <1>15 DEF Integration, TrackDataKeys, AddDataKey, RemoveDataKey, KeysInv
<1>16. ASSUME NEW o \in Observer, ObserverStep(o) \/ Handler(o) PROVE JobsInv'
    BY <1>3, <1>4, <1>c, <1>5, <1>6, <1>7, <1>8, <1>u, <1>9, <1>10, <1>11, <1>16
       DEF ObserverStep, Handler
<1> QED BY <1>1, <1>14, <1>15, <1>16 DEF NextMonitoring

-----------------------------------------------------------------------------
(***************************************************************************)
(* The ring and the node list describe the same nodes at every moment.     *)
(***************************************************************************)
LEMMA NodesLemma == ASSUME MembersInv PROVE Range(Nodes) = DOMAIN LocalCaches
<1>1. DOMAIN Nodes = 1 .. Len(Nodes)
    BY DEF MembersInv
<1>2. Range(Nodes) = {Nodes[i] : i \in 1 .. Len(Nodes)}
    BY <1>1 DEF Range
<1>3. \A n : n \in Range(Nodes) <=> n \in DOMAIN LocalCaches
    BY <1>2 DEF MembersInv
<1> QED BY <1>3

LEMMA RingOfNodes ==
    ASSUME RingInv, MembersInv, MembersType, ExactInv
    PROVE  OneRing(Range(Nodes), HashRing)
<1>1. Range(Nodes) = DOMAIN LocalCaches
    BY NodesLemma
<1>2. layout \in Layouts /\ DOMAIN LocalCaches \subseteq Node
    BY DEF RingInv, MembersType
<1>3. \A n \in DOMAIN LocalCaches : layout.vnodes[n] # {}
    BY <1>2, LayoutsAssumption
<1>4. DOMAIN HashRing = UNION {layout.vnodes[n] : n \in DOMAIN LocalCaches}
  <2> DEFINE V == UNION {layout.vnodes[n] : n \in DOMAIN LocalCaches}
  <2>1. ASSUME NEW p \in DOMAIN HashRing PROVE p \in V
    <3>1. HashRing[p] \in DOMAIN LocalCaches /\ p \in layout.vnodes[HashRing[p]]
        BY DEF ExactInv, RingInv
    <3> QED BY <3>1
  <2>2. ASSUME NEW p \in V PROVE p \in DOMAIN HashRing
    <3>1. PICK n \in DOMAIN LocalCaches : p \in layout.vnodes[n]
        OBVIOUS
    <3> QED BY <3>1 DEF ExactInv
  <2> QED BY <2>1, <2>2
<1>5. Range(HashRing) = DOMAIN LocalCaches
  <2>1. ASSUME NEW n \in DOMAIN LocalCaches PROVE n \in Range(HashRing)
    <3>1. PICK p : p \in layout.vnodes[n]
        BY <1>3
    <3> QED BY <3>1 DEF ExactInv, Range
  <2> QED BY <2>1 DEF RingInv, Range
<1> QED BY <1>1, <1>4, <1>5 DEF OneRing

(***************************************************************************)
(* A new snapshot goes to the end of the history, the oldest may go.       *)
(***************************************************************************)
LEMMA AppendLemma ==
    ASSUME HistoryInv, NEW s, IsSnapshot(s), OneRing(s.nodes, s.VirtualNodes), layout' = layout,
           snapshots' = AppendSnapshot(s)
    PROVE  HistoryInv'
<1>1. PICK S : snapshots \in Seq(S)
    BY DEF HistoryInv
<1> DEFINE T == S \cup {s}
           all == Append(snapshots, s)
<1>2. snapshots \in Seq(T)
    BY <1>1
<1>3. s \in T
    OBVIOUS
<1> HIDE DEF T
<1>4. /\ all \in Seq(T) /\ Len(all) = Len(snapshots) + 1
      /\ \A i \in 1 .. Len(snapshots) : all[i] = snapshots[i]
      /\ all[Len(snapshots) + 1] = s
    BY <1>2, <1>3
<1>5. snapshots' = IF Len(all) > maxSnapshots THEN Tail(all) ELSE all
    BY DEF AppendSnapshot
<1> HIDE DEF all
<1>6. Len(snapshots) \in Nat
    BY <1>2
<1>7. \A i \in 1 .. Len(all) : IsSnapshot(all[i]) /\ OneRing(all[i].nodes, all[i].VirtualNodes)
    BY <1>4, <1>6 DEF HistoryInv
<1>8. \A t, ring : OneRing(t, ring)' <=> OneRing(t, ring)
    BY DEF OneRing
<1>9. /\ Tail(all) \in Seq(T) /\ Len(Tail(all)) = Len(all) - 1
      /\ \A i \in 1 .. Len(all) - 1 : Tail(all)[i] = all[i + 1]
    BY <1>4, <1>6
<1>10. /\ snapshots' \in Seq(T)
       /\ \A i \in 1 .. Len(snapshots') : \E j \in 1 .. Len(all) : snapshots'[i] = all[j]
  <2>1. CASE snapshots' = all
      BY <1>4, <2>1
  <2>2. CASE snapshots' = Tail(all)
    <3>1. \A i \in 1 .. Len(all) - 1 : i + 1 \in 1 .. Len(all)
        BY <1>4, <1>6
    <3> QED BY <1>9, <2>2, <3>1
  <2> QED BY <1>5, <2>1, <2>2
<1>11. \A i \in 1 .. Len(snapshots') :
          IsSnapshot(snapshots'[i]) /\ OneRing(snapshots'[i].nodes, snapshots'[i].VirtualNodes)
    BY <1>7, <1>10
<1> QED BY <1>8, <1>10, <1>11 DEF HistoryInv, IsSnapshot, OneRing

LEMMA SameHistory ==
    ASSUME HistoryInv, layout' = layout, snapshots' = snapshots
    PROVE  HistoryInv'
BY DEF HistoryInv, IsSnapshot, OneRing

(***************************************************************************)
(* An update rewrites the distribution of a snapshot, and nothing else.    *)
(***************************************************************************)
LEMMA DistributionLemma ==
    ASSUME HistoryInv, NEW n, NEW d, layout' = layout,
           snapshots' = [snapshots EXCEPT ![n].DataDistribution = d]
    PROVE  HistoryInv'
<1>1. PICK S : snapshots \in Seq(S)
    BY DEF HistoryInv
<1>2. CASE n \in 1 .. Len(snapshots)
  <2> DEFINE e == [snapshots[n] EXCEPT !.DataDistribution = d]
             T == S \cup {e}
  <2>1. IsSnapshot(snapshots[n]) /\ OneRing(snapshots[n].nodes, snapshots[n].VirtualNodes)
      BY <1>2 DEF HistoryInv
  <2>2. /\ IsSnapshot(e) /\ e.nodes = snapshots[n].nodes
        /\ e.VirtualNodes = snapshots[n].VirtualNodes
      BY <2>1 DEF IsSnapshot
  <2>3. snapshots' = [snapshots EXCEPT ![n] = e]
      OBVIOUS
  <2>4. snapshots \in Seq(T)
      BY <1>1
  <2>5. e \in T
      OBVIOUS
  <2> HIDE DEF e, T
  <2>6. /\ snapshots' \in Seq(T) /\ Len(snapshots') = Len(snapshots)
        /\ \A j \in 1 .. Len(snapshots) : snapshots'[j] = IF j = n THEN e ELSE snapshots[j]
      BY <1>2, <2>3, <2>4, <2>5, ExceptSeq
  <2>7. \A i \in 1 .. Len(snapshots') :
           IsSnapshot(snapshots'[i]) /\ OneRing(snapshots'[i].nodes, snapshots'[i].VirtualNodes)
      BY <2>1, <2>2, <2>6 DEF HistoryInv
  <2> QED BY <2>6, <2>7 DEF HistoryInv, IsSnapshot, OneRing
<1>3. CASE n \notin 1 .. Len(snapshots)
  <2>1. snapshots' = snapshots
      BY <1>1, <1>3
  <2> QED BY <2>1, SameHistory
<1> QED BY <1>2, <1>3

RingBase == RingInv /\ MembersInv /\ MembersType /\ ExactInv

LEMMA HistoryStep ==
    ASSUME RingBase, JobsInv, HistoryInv, [NextMonitoring]_allVars
    PROVE  HistoryInv'
<1>0. layout' = layout
  <2>1. [Next]_vars
      BY WatchedStep
  <2>2. ASSUME NEW n \in Node, AddNode(n) \/ RemoveNode(n) PROVE layout' = layout
      BY <2>2 DEF AddNode, RemoveNode
  <2> QED BY <2>1, <2>2, OnlyChangesMoveTheRing
<1>1. ASSUME UNCHANGED snapshots PROVE HistoryInv'
    BY <1>0, <1>1, SameHistory
<1>2. ASSUME NEW o \in Observer, CaptureEnd(o) PROVE HistoryInv'
  <2>1. job[o].nodes = Range(Nodes)
      BY <1>2 DEF CaptureEnd, JobsInv, JobOK, Idle
  <2> DEFINE s == [nodes |-> job[o].nodes, data |-> Cardinality(job[o].data),
                   VirtualNodes |-> extractVirtualNodeInfo,
                   DataDistribution |-> extractDataDistribution]
  <2>2. IsSnapshot(s)
      BY DEF IsSnapshot
  <2>3. OneRing(s.nodes, s.VirtualNodes)
      BY <2>1, RingOfNodes DEF RingBase, extractVirtualNodeInfo
  <2>4. snapshots' = AppendSnapshot(s)
      BY <1>2 DEF CaptureEnd
  <2> HIDE DEF s
  <2> QED BY <1>0, <2>2, <2>3, <2>4, AppendLemma
<1>3. ASSUME NEW o \in Observer, UpdateLock(o) PROVE HistoryInv'
  <2>1. \/ UNCHANGED snapshots
        \/ snapshots' = [snapshots EXCEPT ![Len(snapshots)].DataDistribution = EmptyMap]
      BY <1>3 DEF UpdateLock
  <2> QED BY <1>0, <1>1, <2>1, DistributionLemma
<1>4. ASSUME NEW o \in Observer, NEW k \in Key, UpdateKey(o, k) PROVE HistoryInv'
  <2>1. PICK d : snapshots' = [snapshots EXCEPT ![Len(snapshots)].DataDistribution = d]
      BY <1>4 DEF UpdateKey
  <2> QED BY <1>0, <2>1, DistributionLemma
<1>5. ASSUME NEW o, Handler(o) \/ CaptureLock(o) \/ extractNodeInfo(o)
                    \/ (\E n \in Node : CountCache(o, n)) \/ UpdatePanics(o)
                    \/ UpdateEnd(o) \/ CaptureAfterEvent \/ UpdateAfterTracking
      PROVE  UNCHANGED snapshots
    BY <1>5 DEF Handler, CaptureLock, extractNodeInfo, CountCache, UpdatePanics, UpdateEnd,
                CaptureAfterEvent, UpdateAfterTracking,
                Enable, Disable, SwitchTo, CaptureSnapshot, UpdateDataDistribution
<1>6. ASSUME Integration PROVE UNCHANGED snapshots
    BY <1>6 DEF Integration, TrackDataKeys, AddDataKey, RemoveDataKey, TracksKeys,
                UpdateDataDistribution, OnChangeEvent
<1>7. ASSUME CacheStep \/ UNCHANGED allVars PROVE UNCHANGED snapshots
    BY <1>7 DEF CacheStep, monitorVars, allVars
<1> QED BY <1>1, <1>2, <1>3, <1>4, <1>5, <1>6, <1>7 DEF NextMonitoring, ObserverStep

(***************************************************************************)
(* The monitor starts with no job, no keys and no history.                 *)
(***************************************************************************)
LEMMA MonitorInit == InitMonitoring => JobsInv /\ KeysInv /\ HistoryInv
<1> SUFFICES ASSUME InitMonitoring PROVE JobsInv /\ KeysInv /\ HistoryInv
    OBVIOUS
<1>1. JobsInv /\ KeysInv
    BY DEF InitMonitoring, NewMonitoringIntegration, JobsInv, KeysInv, JobOK
<1>2. snapshots = <<>>
    BY DEF InitMonitoring, NewMonitoringIntegration, NewHashRingMonitor
<1>3. <<>> \in Seq({})
    OBVIOUS
<1> QED BY <1>1, <1>2, <1>3 DEF HistoryInv

(***************************************************************************)
(* Every snapshot in the history is one state of the ring, though nodes    *)
(* and virtual nodes are read one after the other, while nodes come and go *)
(* and other observers capture, update and switch the monitor              *)
(* (CaptureSnapshot holds dc.Mu for reading across both).                  *)
(***************************************************************************)
THEOREM SnapshotsSafe ==
    ~ReAdd /\ NoCollision => (SpecMonitoring => []SnapshotIsOneRing)
<1> SUFFICES ASSUME ~ReAdd, NoCollision PROVE SpecMonitoring => []SnapshotIsOneRing
    OBVIOUS
<1> DEFINE I == Inv /\ JobsInv /\ KeysInv /\ HistoryInv
<1>1. InitMonitoring => I
    BY InvInit, MonitorInit DEF InitMonitoring
<1>2. I /\ [NextMonitoring]_allVars => I'
  <2> SUFFICES ASSUME I, [NextMonitoring]_allVars PROVE I'
      OBVIOUS
  <2>1. [Next]_vars /\ RingBase
      BY WatchedStep DEF RingBase, Inv, TypeInv
  <2>2. Inv'
      BY <2>1, InvStep
  <2> QED BY <2>1, <2>2, JobsStep, KeysStep, HistoryStep DEF RingBase
<1>3. I => SnapshotIsOneRing
    BY DEF HistoryInv, SnapshotIsOneRing, OneRing
<1> QED BY <1>1, <1>2, <1>3, PTL DEF SpecMonitoring

-----------------------------------------------------------------------------
(***************************************************************************)
(* An observer is extracting after one of two steps of its own: the one    *)
(* that takes the read lock and the one that asks a cache.                 *)
(***************************************************************************)
LEMMA OnlyExtraction ==
    ASSUME JobsInv, [NextMonitoring]_allVars, NEW o \in Observer, job'[o].pc = "extracting"
    PROVE  extractNodeInfo(o) \/ (\E n \in Node : CountCache(o, n)) \/ job'[o] = job[o]
<1> SUFFICES ASSUME job'[o] # job[o]
             PROVE  extractNodeInfo(o) \/ \E n \in Node : CountCache(o, n)
    OBVIOUS
<1>0. DOMAIN job = Observer
    BY DEF JobsInv
<1>1. ASSUME NEW p \in Observer, NEW j, Goes(p, j), p = o => j.pc # "extracting" PROVE FALSE
    BY <1>0, <1>1 DEF Goes
<1>2. ASSUME UNCHANGED job PROVE FALSE
    BY <1>2
<1>3. Idle.pc # "extracting"
    BY DEF Idle
<1>4. ASSUME NEW p \in Observer, CaptureLock(p) \/ CaptureSnapshot(p) PROVE FALSE
  <2>1. \E x \in {"capture", "capturing"} : Goes(p, [pc |-> x])
      BY <1>4 DEF CaptureLock, CaptureSnapshot
  <2> QED BY <1>1, <2>1
<1>5. ASSUME NEW p \in Observer, CaptureEnd(p) \/ UpdatePanics(p) \/ UpdateEnd(p) PROVE FALSE
    BY <1>1, <1>3, <1>5 DEF CaptureEnd, UpdatePanics, UpdateEnd
<1>k. ASSUME NEW p \in Observer, job[p].pc \in {"update", "updating"}
      PROVE  job[p] \in [pc : {"update", "updating"}, keys : SUBSET Key]
    BY <1>k DEF JobsInv, JobOK, Idle, Extracting
<1>6. ASSUME NEW p \in Observer, UpdateLock(p) PROVE FALSE
  <2>1. PICK j : Goes(p, j) /\ (j = Idle \/ j = [job[p] EXCEPT !.pc = "updating"])
      BY <1>6 DEF UpdateLock
  <2>2. j.pc # "extracting"
      BY <1>3, <1>6, <1>k, <2>1 DEF UpdateLock
  <2> QED BY <1>1, <2>1, <2>2
<1>7. ASSUME NEW p \in Observer, NEW k, UpdateKey(p, k) PROVE FALSE
  <2>1. Goes(p, [job[p] EXCEPT !.keys = @ \ {k}])
      BY <1>7 DEF UpdateKey
  <2>2. [job[p] EXCEPT !.keys = @ \ {k}].pc # "extracting"
      BY <1>7, <1>k DEF UpdateKey
  <2> QED BY <1>1, <2>1, <2>2
<1>8. ASSUME CaptureAfterEvent \/ OnChangeEvent \/ UpdateAfterTracking \/ \E keys : TracksKeys(keys)
      PROVE  FALSE
  <2>1. \/ Goes(Integrator, Idle)
        \/ \E x \in {"capture", "event", "tracked"} : Goes(Integrator, [pc |-> x])
        \/ Goes(Integrator, [pc |-> "update", keys |-> dataKeys])
      BY <1>8 DEF CaptureAfterEvent, OnChangeEvent, UpdateAfterTracking, TracksKeys
  <2> QED BY <1>1, <1>3, <2>1, ObserverAssumption
<1>9. ASSUME NEW p \in Observer, NEW keys, UpdateDataDistribution(p, keys) PROVE FALSE
  <2>1. Goes(p, [pc |-> "update", keys |-> keys])
      BY <1>9 DEF UpdateDataDistribution
  <2> QED BY <1>1, <2>1
<1>10. ASSUME NEW p \in Observer, Enable(p) \/ Disable(p) PROVE FALSE
    BY <1>2, <1>10 DEF Enable, Disable, SwitchTo
<1>11. ASSUME CacheStep \/ UNCHANGED allVars PROVE FALSE
    BY <1>2, <1>11 DEF CacheStep, monitorVars, allVars
<1>12. ASSUME Integration PROVE FALSE
    BY <1>8, <1>12 DEF Integration, TrackDataKeys, AddDataKey, RemoveDataKey
<1>13. ASSUME NEW p \in Observer, Handler(p) PROVE FALSE
    BY <1>4, <1>9, <1>10, <1>13 DEF Handler
<1>14. PICK p \in Observer : ObserverStep(p)
    BY <1>11, <1>12, <1>13 DEF NextMonitoring
<1>15. extractNodeInfo(p) \/ \E n \in Node : CountCache(p, n)
    BY <1>4, <1>5, <1>6, <1>7, <1>8, <1>14 DEF ObserverStep
<1>16. p = o
  <2>1. \E j : Goes(p, j)
      BY <1>15 DEF extractNodeInfo, CountCache
  <2> QED BY <1>1, <2>1
<1> QED BY <1>15, <1>16

(***************************************************************************)
(* While a capture has the read lock no change of nodes is under way, and  *)
(* what it has counted is where the ring puts it, in caches it has asked.  *)
(***************************************************************************)
CountedInv ==
    \A o \in Observer : job[o].pc = "extracting" =>
        /\ MuFree
        /\ \A m, k : <<m, k>> \in job[o].data =>
               m \notin job[o].todo /\ (k \in Key \ racing => m = Owner(k))

(***************************************************************************)
(* With no change under way, a node's cache has the keys written that      *)
(* belong to it.                                                           *)
(***************************************************************************)
LEMMA FreeCaches ==
    ASSUME Inv, MuFree, NEW n \in DOMAIN LocalCaches, NEW k \in Key \ racing
    PROVE  k \in DOMAIN caches[LocalCaches[n]] <=> k \in DOMAIN acked /\ Owner(k) = n
<1>1. KeyOK(k)
    BY DEF Inv, DataInv
<1>2. ASSUME k \in DOMAIN At(n) PROVE k \in DOMAIN acked /\ Owner(k) = n
    BY <1>1, <1>2, FreeLemma DEF KeyOK, OnlyCurrent
<1>3. ASSUME k \in DOMAIN acked, Owner(k) = n PROVE k \in DOMAIN At(n)
    BY <1>1, <1>3, FreeLemma DEF KeyOK, IsSomewhere
<1> QED BY <1>2, <1>3 DEF At

(***************************************************************************)
(* Reading keeps everything but the calls away from the cache.             *)
(***************************************************************************)
LEMMA ReadingKeeps ==
    ASSUME Reading, MuFree, [NextMonitoring]_allVars
    PROVE  MuFree' /\ racing' = racing /\ \A k : Owner(k)' = Owner(k)
<1>1. UNCHANGED <<change, racing, layout, HashRing, SortedHashes>>
  <2>1. CASE CacheStep
    <3>1. ASSUME MigrationStep PROVE FALSE
        BY <3>1 DEF MigrationStep, ScanVirtualNode, MigrateSet, MigrateDelete,
           redistributeDataBasic, RedistributePanics, EndChange, MuFree, NoChange
    <3>2. PICK c \in Client : Call(c) \/ FetchCache(c) \/ UseCache(c)
        BY <2>1, <3>1 DEF CacheStep
    <3> QED BY <3>2 DEF Call, GetNodeForKey, CallPanics, FetchCache, UseCache, vars, ringVars
  <2>2. CASE ~CacheStep
    <3>1. ASSUME NEW o, ObserverStep(o) \/ Handler(o) PROVE UNCHANGED vars
        BY <3>1 DEF ObserverStep, Handler, CaptureLock, extractNodeInfo, CountCache, CaptureEnd,
           UpdateLock, UpdateAfterTracking, UpdateKey, UpdatePanics, UpdateEnd, CaptureAfterEvent,
           Enable, Disable, SwitchTo, CaptureSnapshot, UpdateDataDistribution
    <3>2. ASSUME Integration PROVE UNCHANGED vars
        BY <3>2 DEF Integration, TrackDataKeys, AddDataKey, RemoveDataKey, TracksKeys, OnChangeEvent
    <3>3. UNCHANGED vars
        BY <2>2, <3>1, <3>2 DEF NextMonitoring, allVars
    <3> QED BY <3>3 DEF vars, ringVars
  <2> QED BY <2>1, <2>2
<1> QED BY <1>1 DEF MuFree, Owner, getNodeForKeyUnsafe

(***************************************************************************)
(* What a cache that is asked adds to the count.                           *)
(***************************************************************************)
LEMMA CountLemma ==
    ASSUME Inv, JobsInv, CountedInv, NEW o \in Observer, NEW n \in Node, CountCache(o, n)
    PROVE  /\ MuFree /\ UNCHANGED vars /\ n \in DOMAIN LocalCaches
           /\ job'[o].data = job[o].data \cup ({n} \X DOMAIN caches[LocalCaches[n]])
           /\ job'[o].todo = job[o].todo \ {n} /\ n \in job[o].todo
           /\ \A m, k : <<m, k>> \in job'[o].data =>
                  m \notin job'[o].todo /\ (k \in Key \ racing => m = Owner(k))
<1>1. /\ MuFree /\ UNCHANGED vars /\ n \in job[o].todo
      /\ \A m, k : <<m, k>> \in job[o].data =>
             m \notin job[o].todo /\ (k \in Key \ racing => m = Owner(k))
    BY DEF CountCache, CountedInv
<1>2. job'[o] = Extracting(job[o].nodes, job[o].todo \ {n},
                           job[o].data \cup ({n} \X DOMAIN caches[LocalCaches[n]]))
    BY DEF CountCache, Goes, JobsInv
<1>3. n \in DOMAIN LocalCaches
  <2>1. job[o].todo \subseteq Range(Nodes)
      BY DEF CountCache, JobsInv, JobOK, Idle, Extracting
  <2> QED BY <1>1, <2>1, NodesLemma DEF Inv
<1>4. ASSUME NEW m, NEW k, k \in Key \ racing, <<m, k>> \in {n} \X DOMAIN caches[LocalCaches[n]]
      PROVE  m = Owner(k)
    BY <1>1, <1>3, <1>4, FreeCaches
<1>5. /\ job'[o].data = job[o].data \cup ({n} \X DOMAIN caches[LocalCaches[n]])
      /\ job'[o].todo = job[o].todo \ {n}
    BY <1>2 DEF Extracting
<1>6. ASSUME NEW m, NEW k, <<m, k>> \in job'[o].data
      PROVE  m \notin job'[o].todo /\ (k \in Key \ racing => m = Owner(k))
  <2>1. CASE <<m, k>> \in job[o].data
      BY <1>1, <1>5, <2>1
  <2>2. CASE <<m, k>> \in {n} \X DOMAIN caches[LocalCaches[n]]
      BY <1>4, <1>5, <2>2
  <2> QED BY <1>5, <1>6, <2>1, <2>2
<1> QED BY <1>1, <1>3, <1>5, <1>6

LEMMA CountedStep ==
    ASSUME Inv, JobsInv, CountedInv, [NextMonitoring]_allVars
    PROVE  CountedInv'
<1> SUFFICES ASSUME NEW o \in Observer, job'[o].pc = "extracting"
             PROVE  /\ MuFree'
                    /\ \A m, k : <<m, k>> \in job'[o].data =>
                           m \notin job'[o].todo /\ (k \in Key \ racing' => m = Owner(k)')
    BY DEF CountedInv
<1>1. CASE extractNodeInfo(o)
  <2>1. job'[o].data = {} /\ MuFree /\ UNCHANGED vars
      BY <1>1 DEF extractNodeInfo, Goes, JobsInv, Extracting
  <2> QED BY <2>1 DEF vars, MuFree
<1>2. CASE \E n \in Node : CountCache(o, n)
  <2>1. PICK n \in Node : CountCache(o, n)
      BY <1>2
  <2>2. /\ MuFree /\ UNCHANGED vars
        /\ \A m, k : <<m, k>> \in job'[o].data =>
               m \notin job'[o].todo /\ (k \in Key \ racing => m = Owner(k))
      BY <2>1, CountLemma
  <2>3. \A k : Owner(k)' = Owner(k)
      BY <2>2 DEF vars, ringVars, Owner, getNodeForKeyUnsafe
  <2> QED BY <2>2, <2>3 DEF vars, MuFree
<1>3. CASE job'[o] = job[o]
  <2>1. Reading /\ MuFree
      BY <1>3 DEF Reading, CountedInv
  <2>2. MuFree' /\ racing' = racing /\ \A k : Owner(k)' = Owner(k)
      BY <2>1, ReadingKeeps
  <2> QED BY <1>3, <2>2 DEF CountedInv
<1> QED BY <1>1, <1>2, <1>3, OnlyExtraction

(***************************************************************************)
(* A capture counts every key where it belongs and nowhere else, though it *)
(* asks the caches one by one while calls go on, in the middle of any      *)
(* history of node changes: the read lock keeps it out of a migration,     *)
(* where a key is in two caches or in none (extractNodeInfo).              *)
(***************************************************************************)
THEOREM CountsSafe == ~ReAdd /\ NoCollision => (SpecMonitoring => CapturesCountOnce)
<1> SUFFICES ASSUME ~ReAdd, NoCollision PROVE SpecMonitoring => CapturesCountOnce
    OBVIOUS
<1> DEFINE I == Inv /\ JobsInv /\ KeysInv /\ CountedInv
           A == \A o \in Observer, n \in Node :
                  /\ job[o].pc = "extracting" /\ job'[o].pc = "extracting"
                  /\ n \in job[o].todo \ job'[o].todo
                  => \A k \in Key \ racing :
                       LET owner == getNodeForKeyUnsafe(k)
                       IN  /\ <<n, k>> \in job'[o].data <=> k \in DOMAIN acked /\ owner = n
                           /\ \A m \in job[o].nodes : <<m, k>> \in job'[o].data => m = owner
                           /\ owner \in job[o].nodes
<1>1. InitMonitoring => I
  <2>1. InitMonitoring => CountedInv
      BY DEF InitMonitoring, CountedInv, Idle
  <2> QED BY <2>1, InvInit, MonitorInit DEF InitMonitoring
<1>2. I /\ [NextMonitoring]_allVars => I'
  <2> SUFFICES ASSUME I, [NextMonitoring]_allVars PROVE I'
      OBVIOUS
  <2>1. [Next]_vars /\ TypeInv /\ MembersType
      BY WatchedStep DEF Inv, TypeInv
  <2>2. Inv'
      BY <2>1, InvStep
  <2> QED BY <2>1, <2>2, JobsStep, KeysStep, CountedStep
<1>3. I /\ [NextMonitoring]_allVars => [A]_allVars
  <2> SUFFICES ASSUME I, [NextMonitoring]_allVars, NEW o \in Observer, NEW n \in Node,
                      job[o].pc = "extracting", job'[o].pc = "extracting",
                      n \in job[o].todo \ job'[o].todo, NEW k \in Key \ racing
               PROVE  /\ <<n, k>> \in job'[o].data <=> k \in DOMAIN acked /\ Owner(k) = n
                      /\ \A m \in job[o].nodes : <<m, k>> \in job'[o].data => m = Owner(k)
                      /\ Owner(k) \in job[o].nodes
      BY DEF Owner
  <2>1. \E p \in Node : CountCache(o, p)
      BY OnlyExtraction DEF extractNodeInfo
  <2>2. PICK p \in Node : CountCache(o, p)
      BY <2>1
  <2>3. p = n
      BY <2>2, CountLemma
  <2>4. /\ MuFree /\ n \in DOMAIN LocalCaches
        /\ job'[o].data = job[o].data \cup ({n} \X DOMAIN caches[LocalCaches[n]])
        /\ \A m : <<m, k>> \in job'[o].data => m = Owner(k)
        /\ <<n, k>> \notin job[o].data
      BY <2>2, <2>3, CountLemma DEF CountedInv
  <2>5. k \in DOMAIN caches[LocalCaches[n]] <=> k \in DOMAIN acked /\ Owner(k) = n
      BY <2>4, FreeCaches
  <2>6. <<n, k>> \in job'[o].data <=> k \in DOMAIN acked /\ Owner(k) = n
    <3>1. ASSUME k \in DOMAIN acked, Owner(k) = n PROVE <<n, k>> \in job'[o].data
        BY <2>4, <2>5, <3>1
    <3>2. ASSUME <<n, k>> \in job'[o].data PROVE k \in DOMAIN acked /\ Owner(k) = n
        BY <2>4, <2>5, <3>2
    <3> QED BY <3>1, <3>2
  <2>7. Owner(k) \in job[o].nodes
    <3>1. SortedHashes # {}
      <4>1. layout.vnodes[n] # {}
          BY LayoutsAssumption DEF Inv, TypeInv, RingInv
      <4> QED BY <2>4, <4>1 DEF Inv, ExactInv, TypeInv, RingInv
    <3>2. Owner(k) \in DOMAIN LocalCaches
        BY <3>1, OwnerLemma DEF Owner, Inv, TypeInv
    <3>3. job[o].nodes = Range(Nodes)
        BY DEF JobsInv, JobOK, Idle, Extracting
    <3> QED BY <3>2, <3>3, NodesLemma DEF Inv
  <2> QED BY <2>4, <2>6, <2>7
<1> QED BY <1>1, <1>2, <1>3, PTL DEF SpecMonitoring, CapturesCountOnce

-----------------------------------------------------------------------------
(***************************************************************************)
(* The guards of the steps that the holder of hrm.mu, and the change of    *)
(* nodes it may wait for, can take.  HolderGoesOn is HolderIsNotStuck      *)
(* without ENABLED.                                                        *)
(***************************************************************************)
ObserverGoesOn(o) ==
    \/ job[o].pc = "capturing" /\ MuFree
    \/ job[o].pc = "extracting" /\ \/ job[o].todo \cap DOMAIN LocalCaches = {}
                                   \/ \E n \in Node : n \in job[o].todo \cap DOMAIN LocalCaches
    \/ /\ job[o].pc = "updating" /\ MuFree
       /\ \/ \E k \in Key : k \in job[o].keys /\ SortedHashes # {}
          \/ job[o].keys # {} /\ SortedHashes = {}
    \/ job[o].pc = "updating" /\ job[o].keys = {}

ChangeGoesOn ==
    \/ change.op = "AddNode" /\ NothingPending /\ \E p \in DOMAIN HashRing : p \in change.todo
    \/ change.op = "AddNode" /\ change.moved = {} /\ \E k \in Key : k \in DOMAIN change.data
    \/ change.op = "AddNode" /\ \E k \in Key : k \in change.moved
    \/ change.op = "RemoveNode" /\ SortedHashes # {} /\ \E k \in Key : k \in DOMAIN change.data
    \/ change.op = "RemoveNode" /\ SortedHashes = {} /\ DOMAIN change.data # {}
    \/ change.todo = {} /\ NothingPending

HolderGoesOn == ~HrmFree => ObserverGoesOn(hrm) \/ (~MuFree /\ ChangeGoesOn)

(***************************************************************************)
(* The lock is held by exactly the observer that is between its lock and   *)
(* its unlock, and what a change has still to look at is on the ring.      *)
(***************************************************************************)
HolderInv ==
    /\ HrmFree \/ hrm \in Observer
    /\ \A o \in Observer : job[o].pc \in {"capturing", "extracting", "updating"} <=> o = hrm

WorkInv ==
    ~MuFree => /\ change.todo \subseteq DOMAIN HashRing
               /\ change.op = "RemoveNode" => change.todo = {} /\ change.moved = {}

LEMMA WorkStep == ASSUME TypeInv, WorkInv, [Next]_vars PROVE WorkInv'
<1>0. TypeInv'
    BY TypeStep
<1>1. CASE UNCHANGED vars \/ \E c \in Client : Call(c) \/ FetchCache(c) \/ UseCache(c)
  <2>1. change' = change /\ HashRing' = HashRing
      BY <1>1 DEF vars, ringVars, Call, GetNodeForKey, CallPanics, FetchCache, UseCache
  <2> QED BY <2>1 DEF WorkInv, MuFree
<1>2. ASSUME NEW n \in Node, AddNode(n) PROVE WorkInv'
  <2>1. change'.op = "AddNode" /\ change'.todo = {p \in DOMAIN HashRing' : HashRing'[p] = n}
      BY <1>2 DEF AddNode
  <2> QED BY <2>1 DEF WorkInv
<1>3. ASSUME NEW n \in Node, RemoveNode(n) PROVE WorkInv'
  <2>1. change'.todo = {} /\ change'.moved = {}
      BY <1>3 DEF RemoveNode
  <2> QED BY <2>1 DEF WorkInv
<1>4. CASE RedistributePanics \/ EndChange
    BY <1>4 DEF RedistributePanics, EndChange, WorkInv, MuFree
<1>5. CASE \/ \E p \in DOMAIN HashRing : ScanVirtualNode(p)
           \/ \E k \in Key : MigrateSet(k) \/ MigrateDelete(k) \/ redistributeDataBasic(k)
  <2>1. /\ HashRing' = HashRing /\ change.op # "none"
        /\ change'.todo \subseteq change.todo /\ change'.op = change.op
        /\ change.op = "RemoveNode" => change'.moved = change.moved
    <3>1. change.op # "none"
        BY <1>5 DEF ScanVirtualNode, MigrateSet, MigrateDelete, redistributeDataBasic
    <3>2. change \in ChangeType
        BY <3>1, ChangingLemma DEF TypeInv
    <3>3. ASSUME NEW p, ScanVirtualNode(p)
          PROVE  change'.todo \subseteq change.todo /\ change'.op = change.op /\ change.op = "AddNode"
        BY <3>2, <3>3 DEF ScanVirtualNode, ChangeType
    <3>4. ASSUME NEW k, MigrateSet(k) \/ MigrateDelete(k)
          PROVE  change'.todo \subseteq change.todo /\ change'.op = change.op /\ change.op = "AddNode"
        BY <3>2, <3>4 DEF MigrateSet, MigrateDelete, ChangeType
    <3>5. ASSUME NEW k, redistributeDataBasic(k)
          PROVE  /\ change'.todo \subseteq change.todo /\ change'.op = change.op
                 /\ change'.moved = change.moved
        BY <3>2, <3>5 DEF redistributeDataBasic, ChangeType
    <3>6. HashRing' = HashRing
        BY <1>5 DEF ScanVirtualNode, MigrateSet, MigrateDelete, redistributeDataBasic, ringVars
    <3> QED BY <1>5, <3>1, <3>3, <3>4, <3>5, <3>6
  <2>2. ~MuFree
      BY <2>1 DEF MuFree, NoChange
  <2> QED BY <2>1, <2>2 DEF WorkInv
<1> QED BY <1>1, <1>2, <1>3, <1>4, <1>5 DEF Next, MigrationStep

(* The observer o takes a step, the others do not. *)
LEMMA OneStep ==
    ASSUME JobsInv, HolderInv, NEW o \in Observer, NEW j, Goes(o, j),
           \/ hrm' = o /\ hrm \in {NoObserver, o} /\ j.pc \in {"capturing", "extracting", "updating"}
           \/ hrm' = NoObserver /\ hrm = o /\ j.pc \notin {"capturing", "extracting", "updating"}
           \/ hrm' = hrm /\ hrm # o /\ j.pc \notin {"capturing", "extracting", "updating"}
    PROVE  HolderInv'
BY ObserverAssumption DEF JobsInv, HolderInv, Goes, HrmFree

LEMMA HolderStep ==
    ASSUME JobsInv, HolderInv, [NextMonitoring]_allVars
    PROVE  HolderInv'
<1>0. ASSUME UNCHANGED <<hrm, job>> PROVE HolderInv'
    BY <1>0 DEF HolderInv, HrmFree
<1>i. Idle.pc = "idle"
    BY DEF Idle
<1>e. \A s, t, d : Extracting(s, t, d).pc = "extracting"
    BY DEF Extracting
<1>n. \A o \in Observer : o # NoObserver
    BY ObserverAssumption
<1>k. ASSUME NEW o \in Observer
      PROVE  /\ job[o].pc \in {"capturing", "extracting", "updating"} <=> o = hrm
             /\ job[o].pc \in {"update", "updating"} =>
                    job[o] \in [pc : {"update", "updating"}, keys : SUBSET Key]
    BY DEF JobsInv, JobOK, Idle, Extracting, HolderInv
<1>1. CASE CacheStep \/ UNCHANGED allVars
    BY <1>0, <1>1 DEF CacheStep, allVars, monitorVars
<1>2. ASSUME NEW o \in Observer, Enable(o) \/ Disable(o) PROVE HolderInv'
    BY <1>0, <1>2 DEF Enable, Disable, SwitchTo
<1>3. ASSUME NEW o \in Observer, CaptureSnapshot(o) PROVE HolderInv'
  <2>1. Goes(o, [pc |-> "capture"]) /\ hrm' = hrm /\ hrm # o
      BY <1>3, <1>n DEF CaptureSnapshot, IsEnabled, HrmFree
  <2> QED BY <2>1, OneStep
<1>4. ASSUME NEW o \in Observer, NEW keys, UpdateDataDistribution(o, keys) PROVE HolderInv'
  <2>1. Goes(o, [pc |-> "update", keys |-> keys]) /\ hrm' = hrm /\ hrm # o
      BY <1>4, <1>n DEF UpdateDataDistribution, IsEnabled, HrmFree
  <2> QED BY <2>1, OneStep
<1>5. ASSUME NEW o \in Observer, CaptureLock(o) PROVE HolderInv'
  <2>1. Goes(o, [pc |-> "capturing"]) /\ hrm' = o /\ hrm = NoObserver
      BY <1>5 DEF CaptureLock, HrmFree
  <2> QED BY <2>1, OneStep
<1>6. ASSUME NEW o \in Observer, extractNodeInfo(o) PROVE HolderInv'
  <2>1. hrm' = o /\ hrm = o /\ \E t, d : Goes(o, Extracting(Range(Nodes), t, d))
      BY <1>6, <1>k DEF extractNodeInfo
  <2> QED BY <1>e, <2>1, OneStep
<1>c. ASSUME NEW o \in Observer, NEW n \in Node, CountCache(o, n) PROVE HolderInv'
  <2>1. hrm' = o /\ hrm = o /\ \E t, d : Goes(o, Extracting(job[o].nodes, t, d))
      BY <1>c, <1>k DEF CountCache
  <2> QED BY <1>e, <2>1, OneStep
<1>7. ASSUME NEW o \in Observer, CaptureEnd(o) \/ UpdatePanics(o) \/ UpdateEnd(o) PROVE HolderInv'
  <2>1. Goes(o, Idle) /\ hrm' = NoObserver /\ hrm = o
      BY <1>7, <1>k DEF CaptureEnd, UpdatePanics, UpdateEnd
  <2> QED BY <1>i, <2>1, OneStep
<1>8. ASSUME NEW o \in Observer, UpdateLock(o) PROVE HolderInv'
  <2>1. hrm = NoObserver /\ hrm # o
      BY <1>8, <1>n DEF UpdateLock, HrmFree
  <2>2. CASE Goes(o, Idle) /\ hrm' = hrm
      BY <1>i, <2>1, <2>2, OneStep
  <2>3. CASE Goes(o, [job[o] EXCEPT !.pc = "updating"]) /\ hrm' = o
    <3>1. [job[o] EXCEPT !.pc = "updating"].pc = "updating"
        BY <1>8, <1>k DEF UpdateLock
    <3> QED BY <2>1, <2>3, <3>1, OneStep
  <2> QED BY <1>8, <2>2, <2>3 DEF UpdateLock
<1>9. ASSUME NEW o \in Observer, NEW k \in Key, UpdateKey(o, k) PROVE HolderInv'
  <2>1. Goes(o, [job[o] EXCEPT !.keys = @ \ {k}]) /\ hrm' = o /\ hrm = o
      BY <1>9, <1>k DEF UpdateKey
  <2>2. [job[o] EXCEPT !.keys = @ \ {k}].pc = "updating"
      BY <1>9, <1>k DEF UpdateKey
  <2> QED BY <2>1, <2>2, OneStep
<1>10. ASSUME CaptureAfterEvent PROVE HolderInv'
  <2>1. PICK j : /\ j = IF IsEnabled(Integrator) THEN [pc |-> "capture"] ELSE Idle
                 /\ Goes(Integrator, j)
      BY <1>10 DEF CaptureAfterEvent
  <2>2. hrm' = hrm /\ hrm # Integrator /\ Integrator \in Observer
      BY <1>10, ObserverAssumption DEF CaptureAfterEvent, HrmFree
  <2>3. j.pc \in {"capture", "idle"}
      BY <1>i, <2>1
  <2> QED BY <2>1, <2>2, <2>3, OneStep
<1>u. ASSUME UpdateAfterTracking PROVE HolderInv'
  <2>1. PICK j : /\ j = IF enabled.monitor THEN [pc |-> "update", keys |-> dataKeys] ELSE Idle
                 /\ Goes(Integrator, j)
      BY <1>u DEF UpdateAfterTracking
  <2>2. hrm' = hrm /\ hrm # Integrator /\ Integrator \in Observer
      BY <1>u, ObserverAssumption DEF UpdateAfterTracking, HrmFree
  <2>3. j.pc \in {"update", "idle"}
      BY <1>i, <2>1
  <2> QED BY <2>1, <2>2, <2>3, OneStep
<1>t. ASSUME NEW keys, TracksKeys(keys) PROVE HolderInv'
  <2>1. Goes(Integrator, [pc |-> "tracked"]) /\ hrm' = hrm /\ hrm # Integrator
      BY <1>t, ObserverAssumption DEF TracksKeys, IsEnabled, HrmFree
  <2> QED BY <2>1, OneStep, ObserverAssumption
<1>11. ASSUME OnChangeEvent PROVE HolderInv'
  <2>1. Goes(Integrator, [pc |-> "event"]) /\ hrm' = hrm /\ hrm # Integrator
      BY <1>11, ObserverAssumption DEF OnChangeEvent, IsEnabled, HrmFree
  <2> QED BY <2>1, OneStep, ObserverAssumption
<1>12. CASE Integration
    BY <1>11, <1>12, <1>t DEF Integration, TrackDataKeys, AddDataKey, RemoveDataKey
<1>13. ASSUME NEW o \in Observer, ObserverStep(o) \/ Handler(o) PROVE HolderInv'
    BY <1>2, <1>3, <1>4, <1>5, <1>6, <1>c, <1>7, <1>8, <1>9, <1>10, <1>u, <1>13
       DEF ObserverStep, Handler
<1> QED BY <1>1, <1>12, <1>13 DEF NextMonitoring

LEMMA ChangeHasWork == ASSUME TypeInv, WorkInv, ~MuFree PROVE ChangeGoesOn
<1>1. change \in ChangeType /\ change.todo \subseteq DOMAIN HashRing
    BY DEF TypeInv, ChangeIsTyped, MuFree, WorkInv
<1>2. change.moved \subseteq Key /\ DOMAIN change.data \subseteq Key
    BY <1>1, MapLemma DEF ChangeType
<1>3. CASE change.op = "AddNode"
    BY <1>1, <1>2, <1>3 DEF ChangeGoesOn, NothingPending
<1>4. CASE change.op = "RemoveNode"
  <2>1. change.todo = {} /\ change.moved = {}
      BY <1>4 DEF WorkInv
  <2> QED BY <1>2, <1>4, <2>1 DEF ChangeGoesOn, NothingPending
<1> QED BY <1>1, <1>3, <1>4 DEF ChangeType

(***************************************************************************)
(* However many observers capture, update and switch the monitor while     *)
(* nodes come and go, with collisions and repeated additions too, hrm.mu   *)
(* is never held by someone who cannot go on: its holder has all that its  *)
(* next step asks for, or waits for a change of nodes that has             *)
(* (CaptureSnapshot and UpdateDataDistribution take hrm.mu before dc.Mu,   *)
(* and a panic on an empty ring runs the deferred unlock).                 *)
(***************************************************************************)
THEOREM HolderSafe == SpecMonitoring => []HolderGoesOn
<1> DEFINE I == TypeInv /\ JobsInv /\ KeysInv /\ HolderInv /\ WorkInv
<1>1. InitMonitoring => I
  <2> SUFFICES ASSUME InitMonitoring PROVE I
      OBVIOUS
  <2>1. TypeInv /\ JobsInv /\ KeysInv
      BY TypeInit, MonitorInit DEF InitMonitoring
  <2>2. HolderInv
      BY ObserverAssumption DEF InitMonitoring, NewMonitoringIntegration, NewHashRingMonitor,
         HolderInv, HrmFree, Idle
  <2>3. WorkInv
      BY DEF InitMonitoring, Init, WorkInv, MuFree
  <2> QED BY <2>1, <2>2, <2>3
<1>2. I /\ [NextMonitoring]_allVars => I'
  <2> SUFFICES ASSUME I, [NextMonitoring]_allVars PROVE I'
      OBVIOUS
  <2>1. [Next]_vars /\ MembersType
      BY WatchedStep DEF TypeInv
  <2> QED BY <2>1, TypeStep, JobsStep, KeysStep, HolderStep, WorkStep
<1>3. I => HolderGoesOn
  <2> SUFFICES ASSUME I, ~HrmFree PROVE ObserverGoesOn(hrm) \/ (~MuFree /\ ChangeGoesOn)
      BY DEF HolderGoesOn
  <2>1. ~MuFree => ChangeGoesOn
      BY ChangeHasWork
  <2>2. ASSUME MuFree PROVE ObserverGoesOn(hrm)
    <3>1. hrm \in Observer /\ job[hrm].pc \in {"capturing", "extracting", "updating"}
        BY DEF HolderInv
    <3>2. /\ job[hrm].pc = "updating" => job[hrm].keys \subseteq Key
          /\ job[hrm].pc = "extracting" => job[hrm].todo \subseteq Node
        BY <3>1 DEF JobsInv, JobOK, Idle, Extracting
    <3> QED BY <2>2, <3>1, <3>2 DEF ObserverGoesOn
  <2> QED BY <2>1, <2>2
<1> HIDE DEF I
<1> QED BY <1>1, <1>2, <1>3, PTL DEF SpecMonitoring
=============================================================================
