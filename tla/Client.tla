------------------------------- MODULE Client -------------------------------
(***************************************************************************)
(* distributed/client.go: the client library and its node manager.         *)
(*                                                                         *)
(* Several goroutines call one DistributedClient.  A request takes nm.mu   *)
(* for reading to list the healthy nodes, dc.mu to take the next of that   *)
(* list, sends the request with no lock held, and takes nm.mu again to     *)
(* record the outcome: the list can be stale when the node is chosen, and  *)
(* the health checks, one goroutine per node and tick, answer and are      *)
(* applied in between.                                                     *)
(*                                                                         *)
(* A call is a number of requests: one for Set, Get, Delete, GetStats and  *)
(* GetClusterInfo, one per key for BatchSet, BatchGet and BatchDelete.     *)
(* Keys and values make no difference to the client.  The nodes are        *)
(* external: a request is answered with 200, or it ends in an error (a     *)
(* refusal, a timeout, another status), having been executed or not.       *)
(***************************************************************************)
EXTENDS Integers, Sequences, SequencesExt

CONSTANTS
    Caller,             \* the goroutines that use the client
    Watched,            \* those whose requests are watched in `unasked'
    nodes,              \* config.Nodes
    retryCount, FailureThreshold,
    MaxRequests,        \* bound: requests of one call, for each goroutine
    MaxChecks           \* bound: health checks of a node under way at once

ASSUME NodesAssumption == nodes \in Seq(Range(nodes)) /\ nodes # <<>> /\ IsInjective(nodes)
ASSUME ConfigAssumption ==
    /\ retryCount \in Nat \ {0} /\ FailureThreshold \in Nat \ {0}
    /\ MaxRequests \in [Caller -> Nat \ {0}] /\ MaxChecks \in Nat \ {0}

Node == Range(nodes)

VARIABLES
    nodeStatus,     \* node -> IsHealthy, FailureCount
    currentNode,    \* the shared round robin index
    call,           \* the call each goroutine is in
    unasked,        \* history: the nodes listed at the current request's first attempt
                    \* that it has still to ask, until it is disturbed
    checks,         \* node -> its checks under way: asking, answered well, answered badly
    routine,        \* the health check routine: "running" or "returned"
    stopped         \* stopChan is closed

managerVars == <<checks, routine, stopped>>
vars == <<nodeStatus, currentNode, call, unasked, checks, routine, stopped>>

NoNode == ""

(***************************************************************************)
(* A call: requests still to be made, attempts of the current one, the     *)
(* list it chooses from and the node it asks.                              *)
(***************************************************************************)
NoCall == [pc |-> "idle", left |-> 0, tries |-> 0, list |-> <<>>, node |-> NoNode]
NewRequest(left) == [NoCall EXCEPT !.pc = "list", !.left = left]

(* The health check routine begins with a check of every node. *)
NewNodeManager ==
    /\ nodeStatus = [n \in Node |-> [IsHealthy |-> TRUE, FailureCount |-> 0]]
    /\ checks = [n \in Node |-> [asking |-> 1, good |-> 0, bad |-> 0]]
    /\ routine = "running"
    /\ stopped = FALSE

Init ==
    /\ NewNodeManager
    /\ currentNode = 0
    /\ call = [c \in Caller |-> NoCall]
    /\ unasked = [c \in Caller |-> {}]

-----------------------------------------------------------------------------
(***************************************************************************)
(* The status of a node, changed under nm.mu.  Only the comparison of      *)
(* FailureCount with the threshold matters: it is kept up to there.        *)
(* activeNodes is never shortened, so that ensureNodeInActiveList never    *)
(* adds a node to it.                                                      *)
(***************************************************************************)
Recovered == [IsHealthy |-> TRUE, FailureCount |-> 0]

Failed(s) ==
    LET count == IF s.FailureCount < FailureThreshold THEN s.FailureCount + 1
                                                      ELSE FailureThreshold
    IN  [IsHealthy |-> s.IsHealthy /\ count < FailureThreshold, FailureCount |-> count]

MarkSuccess(n) == nodeStatus' = [nodeStatus EXCEPT ![n] = Recovered]
MarkFailure(n) == nodeStatus' = [nodeStatus EXCEPT ![n] = Failed(@)]

(* The loop of GetHealthyNodes: the healthy ones of the first i nodes, in order *)
healthyUpTo[i \in 0 .. Len(nodes)] ==
    IF i = 0 THEN <<>>
    ELSE IF nodeStatus[nodes[i]].IsHealthy THEN Append(healthyUpTo[i - 1], nodes[i])
    ELSE healthyUpTo[i - 1]

healthyNodes == healthyUpTo[Len(nodes)]

(* A request whose index or verdicts another goroutine changes is disturbed. *)
Disturb(u, others) == [c \in Caller |-> IF c \in others THEN {} ELSE u[c]]

-----------------------------------------------------------------------------
Call(c, total) ==
    /\ call[c].pc = "idle"
    /\ call' = [call EXCEPT ![c] = NewRequest(total)]
    /\ UNCHANGED <<nodeStatus, currentNode, unasked, managerVars>>

(***************************************************************************)
(* GetHealthyNodes: when no node is healthy, all of them.                  *)
(***************************************************************************)
GetHealthyNodes(c) ==
    /\ call[c].pc = "list"
    /\ LET list == IF healthyNodes = <<>> THEN nodes ELSE healthyNodes
       IN  /\ call' = [call EXCEPT ![c].pc = "choose", ![c].list = list]
           /\ unasked' = [unasked EXCEPT ![c] = IF call[c].tries = 0 /\ c \in Watched
                                              THEN Range(list) ELSE @]
    /\ UNCHANGED <<nodeStatus, currentNode, managerVars>>

(* Mutant: the index is not wrapped. *)
nextIndexUnwrapped(list) == currentNode + 1

nextIndex(list) == (currentNode + 1) % Len(list)

getNextHealthyNode(c) ==
    /\ call[c].pc = "choose"
    /\ LET list == call[c].list
           node == list[(currentNode % Len(list)) + 1]
       IN  /\ currentNode' = nextIndex(list)
           /\ call' = [call EXCEPT ![c].pc = "sent", ![c].list = <<>>, ![c].node = node]
           /\ unasked' = Disturb([unasked EXCEPT ![c] = @ \ {node}], Caller \ {c})
    /\ UNCHANGED <<nodeStatus, managerVars>>

(***************************************************************************)
(* executeWithRetry, answered with 200: mark the node, and go on with the  *)
(* next key of a batch or return nil.                                      *)
(***************************************************************************)
RequestSucceeds(c) ==
    /\ call[c].pc = "sent"
    /\ MarkSuccess(call[c].node)
    /\ call' = [call EXCEPT ![c] = IF @.left > 1 THEN NewRequest(@.left - 1) ELSE NoCall]
    /\ unasked' = Disturb([unasked EXCEPT ![c] = {}], Caller \ {c})
    /\ UNCHANGED <<currentNode, managerVars>>

(* Mutant: an attempt that fails is not counted. *)
RetryForEver(r) == [r EXCEPT !.pc = "list", !.node = NoNode]

Retry(r) == [r EXCEPT !.pc = "list", !.tries = @ + 1, !.node = NoNode]

(* Every error is taken for a network error, other statuses included. *)
isNetworkError == TRUE

(***************************************************************************)
(* An error: the node is marked and, for a network error, the next attempt *)
(* made, retryCount at most.  The request may have been executed all the   *)
(* same.                                                                   *)
(***************************************************************************)
RequestFails(c) ==
    /\ call[c].pc = "sent"
    /\ MarkFailure(call[c].node)
    /\ IF isNetworkError /\ call[c].tries + 1 < retryCount
       THEN /\ call' = [call EXCEPT ![c] = Retry(@)]
            /\ unasked' = Disturb(unasked, Caller \ {c})
       ELSE /\ call' = [call EXCEPT ![c] = NoCall]
            /\ unasked' = Disturb([unasked EXCEPT ![c] = {}], Caller \ {c})
    /\ UNCHANGED <<currentNode, managerVars>>

-----------------------------------------------------------------------------
(***************************************************************************)
(* The node manager.  A tick starts one check per seed node and waits for  *)
(* none of them.                                                           *)
(***************************************************************************)
Running(n) == checks[n].asking + checks[n].good + checks[n].bad

(* Mutant: only the nodes taken for healthy are checked. *)
CheckHealthyOnly ==
    checks' = [n \in Node |-> [checks[n] EXCEPT
                 !.asking = IF nodeStatus[n].IsHealthy THEN @ + 1 ELSE @]]

performHealthCheck == checks' = [n \in Node |-> [checks[n] EXCEPT !.asking = @ + 1]]

RoutineTick ==
    /\ routine = "running"
    /\ \A n \in Node : Running(n) < MaxChecks
    /\ performHealthCheck
    /\ UNCHANGED <<nodeStatus, currentNode, call, unasked, routine, stopped>>

RoutineReturns ==
    /\ routine = "running" /\ stopped
    /\ routine' = "returned"
    /\ UNCHANGED <<nodeStatus, currentNode, call, unasked, checks, stopped>>

Answer(n, answer) ==
    /\ checks[n].asking > 0
    /\ checks' = [checks EXCEPT ![n].asking = @ - 1, ![n][answer] = @ + 1]
    /\ UNCHANGED <<nodeStatus, currentNode, call, unasked, routine, stopped>>

CheckNodeGood(n) == Answer(n, "good")
CheckNodeBad(n) == Answer(n, "bad")

(* Mutant: a recovered node keeps its failures. *)
CheckedGoodKeepsCount(s) == [s EXCEPT !.IsHealthy = TRUE]

CheckedGood(s) == IF s.IsHealthy THEN s ELSE Recovered

(* checkSingleNode, once it has its answer *)
ApplyCheck(n, answer, status) ==
    /\ checks[n][answer] > 0
    /\ checks' = [checks EXCEPT ![n][answer] = @ - 1]
    /\ nodeStatus' = [nodeStatus EXCEPT ![n] = status]
    /\ unasked' = Disturb(unasked, Caller)
    /\ UNCHANGED <<currentNode, call, routine, stopped>>

ApplyGood(n) == ApplyCheck(n, "good", CheckedGood(nodeStatus[n]))
ApplyBad(n) == ApplyCheck(n, "bad", Failed(nodeStatus[n]))

(* A second Close panics. *)
Close ==
    /\ ~stopped
    /\ stopped' = TRUE
    /\ UNCHANGED <<nodeStatus, currentNode, call, unasked, checks, routine>>

-----------------------------------------------------------------------------
CallStep(c) ==
    GetHealthyNodes(c) \/ getNextHealthyNode(c) \/ RequestSucceeds(c) \/ RequestFails(c)

Next ==
    \/ \E c \in Caller : CallStep(c) \/ \E total \in 1 .. MaxRequests[c] : Call(c, total)
    \/ \E n \in Node : CheckNodeGood(n) \/ CheckNodeBad(n) \/ ApplyGood(n) \/ ApplyBad(n)
    \/ RoutineTick \/ RoutineReturns \/ Close

Spec == Init /\ [][Next]_vars

(***************************************************************************)
(* Every HTTP request is answered or times out, a goroutine that can run   *)
(* does, and the ticker keeps ticking.  Of the nodes only this is asked:   *)
(* one that is checked again and again answers some check well; it may     *)
(* fail for as long as it likes, but it comes back.                        *)
(***************************************************************************)
Fairness ==
    /\ \A c \in Caller : WF_vars(CallStep(c))
    /\ \A n \in Node : /\ SF_vars(CheckNodeGood(n))
                       /\ WF_vars(ApplyGood(n)) /\ WF_vars(ApplyBad(n))
    /\ WF_vars(RoutineTick) /\ WF_vars(RoutineReturns)

FairSpec == Spec /\ Fairness

-----------------------------------------------------------------------------
TypeOK ==
    /\ nodeStatus \in [Node -> [IsHealthy : BOOLEAN, FailureCount : 0 .. FailureThreshold]]
    /\ currentNode \in 0 .. Len(nodes) - 1
    /\ call \in [Caller -> [pc : {"idle", "list", "choose", "sent"}, left : Nat,
                            tries : 0 .. retryCount - 1, list : Seq(Node),
                            node : Node \cup {NoNode}]]
    /\ \A c \in Caller : /\ call[c].left <= MaxRequests[c]
                         /\ call[c].pc = "choose" => call[c].list # <<>>
                         /\ call[c].pc = "sent" => call[c].node \in Node
    /\ unasked \in [Caller -> SUBSET Node]
    /\ checks \in [Node -> [asking : 0 .. MaxChecks, good : 0 .. MaxChecks, bad : 0 .. MaxChecks]]
    /\ routine \in {"running", "returned"}
    /\ stopped \in BOOLEAN

(***************************************************************************)
(* A node is out of use exactly when its counted failures have reached the *)
(* threshold, although requests and checks that began under other verdicts *)
(* count and reset it in any order (MarkSuccess, MarkFailure and           *)
(* checkSingleNode each write both fields): none is excluded with a low    *)
(* count, and none stays in use with a high one.                           *)
(***************************************************************************)
HealthMatchesCount ==
    \A n \in Node : nodeStatus[n].IsHealthy <=> nodeStatus[n].FailureCount < FailureThreshold

(***************************************************************************)
(* With at least as many attempts as nodes, a request that gives up, with  *)
(* the error that all nodes are unavailable, has asked every node it took  *)
(* for healthy at its first attempt, unless another goroutine has moved    *)
(* the shared index or changed a verdict meanwhile.                        *)
(***************************************************************************)
GivesUpWhenAllAsked ==
    [][\A c \in Caller :
         RequestFails(c) /\ call'[c] = NoCall /\ retryCount >= Len(nodes)
            => unasked[c] = {}]_vars

(***************************************************************************)
(* Every call returns: timeouts and the bounded number of attempts end it  *)
(* even when no node answers.                                              *)
(***************************************************************************)
CallsReturn == \A c \in Caller : (call[c].pc # "idle") ~> (call[c].pc = "idle")

(***************************************************************************)
(* A node that comes back is used again: until the client is closed, the   *)
(* checks lift every exclusion, also when an answer from before the        *)
(* recovery is applied after it.                                           *)
(***************************************************************************)
ExclusionsEnd ==
    <>stopped \/ \A n \in Node : []<>nodeStatus[n].IsHealthy
=============================================================================
