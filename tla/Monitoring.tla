----------------------------- MODULE Monitoring -----------------------------
(***************************************************************************)
(* monitoring/hash_ring_monitor.go, and what integration.go and the        *)
(* handlers of monitoring_api.go do with it, watching the distributed      *)
(* cache of DistributedCache.tla.                                          *)
(*                                                                         *)
(* The monitor keeps the last maxSnapshots snapshots of the ring under its *)
(* own lock hrm.mu, and takes the cache's dc.Mu for reading inside it: for *)
(* the whole of a capture, but key by key in UpdateDataDistribution.  One  *)
(* goroutine, the integrator, uses a MonitoringIntegration, whose fields   *)
(* have no lock; the other observers are HTTP handlers.  Nothing in the    *)
(* repository calls the integration, so its operations may come in any     *)
(* order.  The migration tracker, which counts what it is told under a     *)
(* lock of its own, hash angles and load-balance scores are left out.      *)
(***************************************************************************)
EXTENDS DistributedCache

CONSTANTS
    Observer,        \* the goroutines that use the monitor
    Integrator,      \* the one that goes through MonitoringIntegration
    NoObserver,
    maxSnapshots

ASSUME ObserverAssumption == Integrator \in Observer /\ NoObserver \notin Observer
ASSUME MaxSnapshotsAssumption == maxSnapshots \in Nat \ {0}

VARIABLES
    hrm,               \* the observer that holds hrm.mu for writing
    job,               \* what each observer is doing
    enabled,           \* mi.enabled and hrm.enabled
    snapshots,         \* the history, oldest first
    dataKeys           \* the keys the integration tracks

monitorVars == <<hrm, job, enabled, snapshots, dataKeys>>
allVars == <<vars, monitorVars>>

Idle == [pc |-> "idle"]

NewHashRingMonitor == hrm = NoObserver /\ snapshots = <<>>

NewMonitoringIntegration ==
    /\ NewHashRingMonitor
    /\ enabled = [integration |-> TRUE, monitor |-> TRUE]
    /\ dataKeys = {}

InitMonitoring == Init /\ NewMonitoringIntegration /\ job = [o \in Observer |-> Idle]

Goes(o, j) == job' = [job EXCEPT ![o] = j]
HrmFree == hrm = NoObserver

IsEnabled(o) == HrmFree /\ enabled.monitor /\ (o = Integrator => enabled.integration)

(***************************************************************************)
(* The integration sets its own flag and then the monitor's; only the      *)
(* integrator reads the former.                                            *)
(***************************************************************************)
SwitchTo(o, on) ==
    /\ job[o] = Idle /\ HrmFree
    /\ enabled' = [integration |-> IF o = Integrator THEN on ELSE enabled.integration,
                   monitor |-> on]
    /\ UNCHANGED <<vars, hrm, job, snapshots, dataKeys>>

Enable(o) == SwitchTo(o, TRUE)
Disable(o) == SwitchTo(o, FALSE)

-----------------------------------------------------------------------------
(***************************************************************************)
(* CaptureSnapshot: ask whether monitoring is on, lock the monitor, lock   *)
(* the cache for reading, list the nodes, ask their caches for their sizes *)
(* one after the other, then copy the ring and append the snapshot.        *)
(* Between the question and the lock the monitor may be disabled; calls go *)
(* on while the caches are asked, since they hold no lock then.            *)
(***************************************************************************)
CaptureSnapshot(o) ==
    /\ job[o] = Idle /\ IsEnabled(o)
    /\ Goes(o, [pc |-> "capture"])
    /\ UNCHANGED <<vars, hrm, enabled, snapshots, dataKeys>>

CaptureLock(o) ==
    /\ job[o].pc = "capture" /\ HrmFree
    /\ hrm' = o
    /\ Goes(o, [pc |-> "capturing"])
    /\ UNCHANGED <<vars, enabled, snapshots, dataKeys>>

(* A capture that has the read lock: the caches it has still to ask, and   *)
(* the entries, <<node, key>>, that those it has asked were counting.      *)
Extracting(nodes, todo, data) ==
    [pc |-> "extracting", nodes |-> nodes, todo |-> todo, data |-> data]

(* Mutant: the cache's lock is not taken. *)
extractNodeInfoUnlocked(o) ==
    /\ job[o].pc = "capturing"
    /\ Goes(o, Extracting(Range(Nodes), Range(Nodes) \cap DOMAIN LocalCaches, {}))
    /\ UNCHANGED <<vars, hrm, enabled, snapshots, dataKeys>>

extractNodeInfo(o) ==
    /\ job[o].pc = "capturing" /\ MuFree
    /\ Goes(o, Extracting(Range(Nodes), Range(Nodes) \cap DOMAIN LocalCaches, {}))
    /\ UNCHANGED <<vars, hrm, enabled, snapshots, dataKeys>>

CountCache(o, n) ==
    /\ job[o].pc = "extracting" /\ n \in job[o].todo \cap DOMAIN LocalCaches
    /\ Goes(o, Extracting(job[o].nodes, job[o].todo \ {n},
                          job[o].data \cup ({n} \X DOMAIN caches[LocalCaches[n]])))
    /\ UNCHANGED <<vars, hrm, enabled, snapshots, dataKeys>>

(* Mutant: the read lock is given up after the nodes are listed. *)
NobodyReads == FALSE

Reading == \E o \in Observer : job[o].pc = "extracting"

extractVirtualNodeInfo == HashRing
extractDataDistribution == EmptyMap

AppendSnapshot(s) ==
    LET all == Append(snapshots, s)
    IN  IF Len(all) > maxSnapshots THEN Tail(all) ELSE all

CaptureEnd(o) ==
    /\ job[o].pc = "extracting" /\ job[o].todo \cap DOMAIN LocalCaches = {}
    /\ snapshots' = AppendSnapshot([nodes |-> job[o].nodes, data |-> Cardinality(job[o].data),
                                    VirtualNodes |-> extractVirtualNodeInfo,
                                    DataDistribution |-> extractDataDistribution])
    /\ hrm' = NoObserver
    /\ Goes(o, Idle)
    /\ UNCHANGED <<vars, enabled, dataKeys>>

-----------------------------------------------------------------------------
(***************************************************************************)
(* UpdateDataDistribution rewrites the distribution of the newest snapshot *)
(* with the owners of the keys as they are now, asking GetNodeForKey for   *)
(* each.  On an empty ring that panics; the deferred unlock is done.       *)
(***************************************************************************)
UpdateDataDistribution(o, keys) ==
    /\ job[o] = Idle /\ IsEnabled(o)
    /\ Goes(o, [pc |-> "update", keys |-> keys])
    /\ UNCHANGED <<vars, hrm, enabled, snapshots>>

UpdateLock(o) ==
    /\ job[o].pc = "update" /\ HrmFree
    /\ IF snapshots = <<>>
       THEN Goes(o, Idle) /\ UNCHANGED <<hrm, snapshots>>
       ELSE /\ hrm' = o
            /\ Goes(o, [job[o] EXCEPT !.pc = "updating"])
            /\ snapshots' = [snapshots EXCEPT ![Len(snapshots)].DataDistribution = EmptyMap]
    /\ UNCHANGED <<vars, enabled, dataKeys>>

UpdateKey(o, k) ==
    /\ job[o].pc = "updating" /\ k \in job[o].keys /\ MuFree
    /\ SortedHashes # {}
    /\ snapshots' = [snapshots EXCEPT ![Len(snapshots)].DataDistribution =
                        With(@, k, getNodeForKeyUnsafe(k))]
    /\ Goes(o, [job[o] EXCEPT !.keys = @ \ {k}])
    /\ UNCHANGED <<vars, hrm, enabled, dataKeys>>

(* Mutant: the unlock is not deferred. *)
UpdatePanicsLocked(o) ==
    /\ job[o].pc = "updating" /\ job[o].keys # {} /\ MuFree
    /\ SortedHashes = {}
    /\ Goes(o, Idle)
    /\ UNCHANGED <<vars, hrm, enabled, snapshots, dataKeys>>

UpdatePanics(o) ==
    /\ job[o].pc = "updating" /\ job[o].keys # {} /\ MuFree
    /\ SortedHashes = {}
    /\ hrm' = NoObserver
    /\ Goes(o, Idle)
    /\ UNCHANGED <<vars, enabled, snapshots, dataKeys>>

UpdateEnd(o) ==
    /\ job[o].pc = "updating" /\ job[o].keys = {}
    /\ hrm' = NoObserver
    /\ Goes(o, Idle)
    /\ UNCHANGED <<vars, enabled, snapshots, dataKeys>>

(***************************************************************************)
(* The integration's key list: a change of it is followed by an update,    *)
(* which asks the monitor's own flag again; a handler may have cleared it  *)
(* meanwhile, and then the list has changed without an update.             *)
(***************************************************************************)
TracksKeys(keys) ==
    /\ job[Integrator] = Idle /\ IsEnabled(Integrator)
    /\ dataKeys' = keys
    /\ Goes(Integrator, [pc |-> "tracked"])
    /\ UNCHANGED <<vars, hrm, enabled, snapshots>>

UpdateAfterTracking ==
    /\ job[Integrator].pc = "tracked" /\ HrmFree
    /\ Goes(Integrator, IF enabled.monitor THEN [pc |-> "update", keys |-> dataKeys] ELSE Idle)
    /\ UNCHANGED <<vars, hrm, enabled, snapshots, dataKeys>>

TrackDataKeys(keys) == TracksKeys(keys)
AddDataKey(k) == k \notin dataKeys /\ TracksKeys(dataKeys \cup {k})
RemoveDataKey(k) == k \in dataKeys /\ TracksKeys(dataKeys \ {k})

(***************************************************************************)
(* OnNodeAdded, OnNodeRemoved and OnMigrationCompleted capture a snapshot  *)
(* after their first question; CaptureSnapshot then asks again.            *)
(***************************************************************************)
OnChangeEvent ==
    /\ job[Integrator] = Idle /\ IsEnabled(Integrator)
    /\ Goes(Integrator, [pc |-> "event"])
    /\ UNCHANGED <<vars, hrm, enabled, snapshots, dataKeys>>

CaptureAfterEvent ==
    /\ job[Integrator].pc = "event" /\ HrmFree
    /\ Goes(Integrator, IF IsEnabled(Integrator) THEN [pc |-> "capture"] ELSE Idle)
    /\ UNCHANGED <<vars, hrm, enabled, snapshots, dataKeys>>

-----------------------------------------------------------------------------
ObserverStep(o) ==
    \/ CaptureLock(o) \/ extractNodeInfo(o) \/ (\E n \in Node : CountCache(o, n)) \/ CaptureEnd(o)
    \/ UpdateLock(o) \/ (\E k \in Key : UpdateKey(o, k)) \/ UpdatePanics(o) \/ UpdateEnd(o)
    \/ o = Integrator /\ (UpdateAfterTracking \/ CaptureAfterEvent)

Handler(o) ==
    \/ Enable(o) \/ Disable(o)
    \/ CaptureSnapshot(o)
    \/ /\ o # Integrator
       /\ \E keys \in SUBSET Key : UpdateDataDistribution(o, keys)
       /\ UNCHANGED dataKeys

Integration ==
    \/ \E keys \in SUBSET Key : TrackDataKeys(keys)
    \/ \E k \in Key : AddDataKey(k) \/ RemoveDataKey(k)
    \/ OnChangeEvent

(* A change of nodes waits for a capture that holds the read lock. *)
CacheStep ==
    /\ \/ \E c \in Client : Call(c) \/ FetchCache(c) \/ UseCache(c)
       \/ ~Reading /\ \E n \in Node : AddNode(n) \/ RemoveNode(n)
       \/ MigrationStep
    /\ UNCHANGED monitorVars

NextMonitoring ==
    \/ CacheStep
    \/ Integration
    \/ \E o \in Observer : ObserverStep(o) \/ Handler(o)

SpecMonitoring == InitMonitoring /\ [][NextMonitoring]_allVars

-----------------------------------------------------------------------------
(***************************************************************************)
(* Every snapshot is one state of the ring: its virtual nodes are those of *)
(* the nodes it lists, although nodes and ring are read one after the      *)
(* other while changes of nodes and other captures go on.                  *)
(***************************************************************************)
SnapshotIsOneRing ==
    \A i \in 1 .. Len(snapshots) :
        LET s == snapshots[i]
        IN  /\ DOMAIN s.VirtualNodes = UNION {layout.vnodes[n] : n \in s.nodes}
            /\ Range(s.VirtualNodes) = s.nodes

(***************************************************************************)
(* A capture counts no key twice, nor misses one that stays in the cache,  *)
(* although it asks the caches one after the other while calls and other   *)
(* captures go on: each cache it asks has exactly the keys written so far  *)
(* that belong to its node, every key it has counted anywhere still        *)
(* belongs there, and every key belongs to a node it asks.  (A write in    *)
(* flight when a change began can leave a second copy of its key; see      *)
(* DistributedCache.)                                                      *)
(***************************************************************************)
CapturesCountOnce ==
    [][\A o \in Observer, n \in Node :
         /\ job[o].pc = "extracting" /\ job'[o].pc = "extracting"
         /\ n \in job[o].todo \ job'[o].todo
         => \A k \in Key \ racing :
              LET owner == getNodeForKeyUnsafe(k)
              IN  /\ <<n, k>> \in job'[o].data <=> k \in DOMAIN acked /\ owner = n
                  /\ \A m \in job[o].nodes : <<m, k>> \in job'[o].data => m = owner
                  /\ owner \in job[o].nodes]_allVars

(***************************************************************************)
(* The monitor's lock is never stuck: the observer that holds it can go    *)
(* on, or the change of nodes it waits for can.  The lock is taken before  *)
(* the cache's, never the other way round, and a panic on an empty ring    *)
(* gives it up.                                                            *)
(***************************************************************************)
HolderIsNotStuck ==
    ~HrmFree => \/ ENABLED ObserverStep(hrm)
                \/ ~MuFree /\ ENABLED MigrationStep
=============================================================================
