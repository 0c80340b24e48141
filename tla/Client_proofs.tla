---------------------------- MODULE Client_proofs ----------------------------
(***************************************************************************)
(* Theorems about distributed/client.go, for every number of goroutines    *)
(* and nodes, every threshold and every number of attempts.                *)
(***************************************************************************)
EXTENDS Client, NaturalsInduction, WellFoundedInduction, SequenceTheorems, TLAPS

Status == [IsHealthy : BOOLEAN, FailureCount : 0 .. FailureThreshold]

(* What a status says of its node, whoever wrote it last *)
Sound(s) == s \in Status /\ (s.IsHealthy <=> s.FailureCount < FailureThreshold)

HealthInv == nodeStatus \in [Node -> Status] /\ \A n \in Node : Sound(nodeStatus[n])

(***************************************************************************)
(* MarkSuccess, MarkFailure and both outcomes of checkSingleNode write a   *)
(* sound status over a sound one.                                          *)
(***************************************************************************)
LEMMA StatusLemma ==
    ASSUME NEW s, Sound(s)
    PROVE  Sound(Recovered) /\ Sound(Failed(s)) /\ Sound(CheckedGood(s))
<1>1. FailureThreshold \in Nat /\ FailureThreshold > 0
    BY ConfigAssumption
<1>2. Sound(Recovered)
    BY <1>1 DEF Sound, Status, Recovered
<1>3. Sound(Failed(s))
  <2> DEFINE count == IF s.FailureCount < FailureThreshold THEN s.FailureCount + 1
                                                          ELSE FailureThreshold
             b == s.IsHealthy /\ count < FailureThreshold
  <2>1. s.FailureCount \in 0 .. FailureThreshold /\ s.IsHealthy \in BOOLEAN
        /\ (s.IsHealthy <=> s.FailureCount < FailureThreshold)
      BY DEF Sound, Status
  <2>2. count \in 0 .. FailureThreshold /\ b \in BOOLEAN
      BY <1>1, <2>1
  <2>3. b <=> count < FailureThreshold
      BY <1>1, <2>1
  <2>4. Failed(s) = [IsHealthy |-> b, FailureCount |-> count]
      BY DEF Failed
  <2> HIDE DEF b, count
  <2> QED BY <2>2, <2>3, <2>4 DEF Sound, Status
<1>4. Sound(CheckedGood(s))
    BY <1>2 DEF CheckedGood
<1> QED BY <1>2, <1>3, <1>4

LEMMA MarkLemma ==
    ASSUME HealthInv, NEW n, NEW s, n \in Node => Sound(s),
           nodeStatus' = [nodeStatus EXCEPT ![n] = s]
    PROVE  HealthInv'
<1>1. \A m \in Node : Sound(nodeStatus'[m])
    BY DEF HealthInv
<1>2. \A m \in Node : nodeStatus'[m] \in Status
    BY <1>1 DEF Sound
<1> QED BY <1>1, <1>2 DEF HealthInv

LEMMA HealthInit == ASSUME Init PROVE HealthInv
<1>1. nodeStatus = [n \in Node |-> Recovered]
    BY DEF Init, NewNodeManager, Recovered
<1>2. Sound(Recovered) /\ Recovered \in Status
    BY ConfigAssumption DEF Sound, Status, Recovered
<1> QED BY <1>1, <1>2 DEF HealthInv

LEMMA HealthStep == ASSUME HealthInv, [Next]_vars PROVE HealthInv'
<1>1. ASSUME NEW c \in Caller, CallStep(c) PROVE HealthInv'
  <2>1. CASE RequestSucceeds(c)
    <3>1. call[c].node \in Node => Sound(Recovered)
        BY StatusLemma DEF HealthInv
    <3> QED BY <2>1, <3>1, MarkLemma DEF RequestSucceeds, MarkSuccess
  <2>2. CASE RequestFails(c)
    <3>1. call[c].node \in Node => Sound(Failed(nodeStatus[call[c].node]))
        BY StatusLemma DEF HealthInv
    <3> QED BY <2>2, <3>1, MarkLemma DEF RequestFails, MarkFailure
  <2>3. CASE GetHealthyNodes(c) \/ getNextHealthyNode(c)
      BY <2>3 DEF GetHealthyNodes, getNextHealthyNode, HealthInv
  <2> QED BY <1>1, <2>1, <2>2, <2>3 DEF CallStep
<1>2. ASSUME NEW n \in Node, ApplyGood(n) \/ ApplyBad(n) PROVE HealthInv'
  <2>1. Sound(CheckedGood(nodeStatus[n])) /\ Sound(Failed(nodeStatus[n]))
      BY StatusLemma DEF HealthInv
  <2> QED BY <1>2, <2>1, MarkLemma DEF ApplyGood, ApplyBad, ApplyCheck
<1>3. ASSUME UNCHANGED nodeStatus PROVE HealthInv'
    BY <1>3 DEF HealthInv
<1>4. CASE \/ \E c \in Caller, total \in Nat : Call(c, total)
           \/ \E n \in Node : CheckNodeGood(n) \/ CheckNodeBad(n)
           \/ RoutineTick \/ RoutineReturns \/ Close \/ UNCHANGED vars
    BY <1>3, <1>4 DEF Call, CheckNodeGood, CheckNodeBad, Answer, RoutineTick, RoutineReturns,
                      Close, vars
<1> QED BY <1>1, <1>2, <1>4, ConfigAssumption DEF Next

(***************************************************************************)
(* In every run of the client, a node is out of use exactly when its       *)
(* failures have reached the threshold (MarkSuccess, MarkFailure,          *)
(* checkSingleNode), in whatever order requests and checks are applied.    *)
(***************************************************************************)
THEOREM HealthSafe == Spec => []HealthMatchesCount
<1>1. Init => HealthInv
    BY HealthInit
<1>2. HealthInv /\ [Next]_vars => HealthInv'
    BY HealthStep
<1>3. HealthInv => HealthMatchesCount
    BY DEF HealthInv, HealthMatchesCount, Sound
<1> QED BY <1>1, <1>2, <1>3, PTL DEF Spec

-----------------------------------------------------------------------------
(* One turn of the loop of GetHealthyNodes *)
Turn(g, i) ==
    IF i = 0 THEN <<>>
    ELSE IF nodeStatus[nodes[i]].IsHealthy THEN Append(g[i - 1], nodes[i])
    ELSE g[i - 1]

(***************************************************************************)
(* A set of numbers that has some member has a least one: the form of      *)
(* induction used below.                                                   *)
(***************************************************************************)
LEMMA LeastLemma ==
    ASSUME NEW S \in SUBSET Nat, S # {}
    PROVE  \E x \in S : \A y \in S : x =< y
<1>1. PICK x \in S : \A y \in S : ~(<<y, x>> \in OpToRel(<, Nat))
    BY WFMin, NatLessThanWellFounded
<1>2. \A y \in S : ~(y < x)
    BY <1>1 DEF OpToRel
<1>3. \A y \in S : x =< y
    BY <1>2
<1> QED BY <1>3

(***************************************************************************)
(* The recursion that models the loop defines a function.                  *)
(***************************************************************************)
LEMMA LoopLemma ==
    healthyUpTo = [i \in 0 .. Len(nodes) |-> Turn(healthyUpTo, i)]
<1> DEFINE Solves(g, n) == g = [i \in 0 .. n |-> Turn(g, i)]
           S == {n \in Nat : ~ \E g : Solves(g, n)}
<1>0. Len(nodes) \in Nat
    BY NodesAssumption
<1>1. ASSUME S # {} PROVE FALSE
  <2>1. PICK n \in S : \A y \in S : n =< y
    <3>1. S \in SUBSET Nat
        OBVIOUS
    <3> HIDE DEF S
    <3> QED BY <1>1, <3>1, LeastLemma
  <2>2. CASE n = 0
    <3> DEFINE g == [i \in 0 .. 0 |-> <<>>]
    <3>1. Solves(g, 0)
        BY DEF Turn
    <3> QED BY <2>1, <2>2, <3>1
  <2>3. CASE n # 0
    <3>1. n \in Nat /\ n - 1 \in Nat /\ n - 1 \notin S
        BY <2>1, <2>3
    <3>2. PICK g : Solves(g, n - 1)
        BY <3>1
    <3> DEFINE h == [i \in 0 .. n |-> IF i = n THEN Turn(g, n) ELSE g[i]]
    <3>3. ASSUME NEW i \in 0 .. n PROVE h[i] = Turn(h, i)
      <4>1. i # 0 => i - 1 \in 0 .. n /\ i - 1 # n /\ h[i - 1] = g[i - 1]
          BY <3>1
      <4>2. Turn(h, i) = Turn(g, i)
          BY <4>1 DEF Turn
      <4>3. i # n => g[i] = Turn(g, i)
        <5> SUFFICES ASSUME i # n PROVE g[i] = Turn(g, i)
            OBVIOUS
        <5>1. i \in 0 .. n - 1
            BY <3>1
        <5> QED BY <3>2, <5>1
      <4>4. h[i] = Turn(g, i)
          BY <4>3
      <4> QED BY <4>2, <4>4
    <3>4. Solves(h, n)
        BY <3>3
    <3> QED BY <2>1, <3>4
  <2> QED BY <2>2, <2>3
<1>2. \E g : Solves(g, Len(nodes))
    BY <1>0, <1>1
<1>3. healthyUpTo = CHOOSE g : Solves(g, Len(nodes))
    BY DEF healthyUpTo, Turn
<1> QED BY <1>2, <1>3

(***************************************************************************)
(* The list of healthy nodes is made of nodes and is no longer than that   *)
(* of all nodes.                                                           *)
(***************************************************************************)
LEMMA ListLemma == healthyNodes \in Seq(Node) /\ Len(healthyNodes) =< Len(nodes)
<1> DEFINE Good(i) == healthyUpTo[i] \in Seq(Node) /\ Len(healthyUpTo[i]) =< i
           S == {i \in 0 .. Len(nodes) : ~Good(i)}
<1>0. Len(nodes) \in Nat /\ \A i \in 1 .. Len(nodes) : nodes[i] \in Node
    BY NodesAssumption DEF Node
<1>1. ASSUME S # {} PROVE FALSE
  <2>1. PICK n \in S : \A y \in S : n =< y
    <3>1. S \in SUBSET Nat
        BY <1>0
    <3> HIDE DEF S
    <3> QED BY <1>1, <3>1, LeastLemma
  <2>2. n \in 0 .. Len(nodes) /\ healthyUpTo[n] = Turn(healthyUpTo, n)
      BY LoopLemma
  <2>3. n # 0 /\ n - 1 \in 0 .. Len(nodes) /\ Good(n - 1)
    <3>1. ASSUME n = 0 PROVE FALSE
      <4>1. healthyUpTo[n] = <<>>
          BY <2>2, <3>1 DEF Turn
      <4>2. <<>> \in Seq(Node) /\ Len(<<>>) = 0
          OBVIOUS
      <4>3. Len(healthyUpTo[n]) =< n
          BY <3>1, <4>1, <4>2
      <4>4. healthyUpTo[n] \in Seq(Node)
          BY <4>1, <4>2
      <4> QED BY <2>1, <4>3, <4>4
    <3>2. n - 1 \in 0 .. Len(nodes) /\ n - 1 \notin S
        BY <1>0, <2>1, <2>2, <3>1
    <3> QED BY <3>1, <3>2
  <2>4. nodes[n] \in Node
      BY <1>0, <2>2, <2>3
  <2> DEFINE before == healthyUpTo[n - 1]
  <2>5. before \in Seq(Node) /\ Len(before) =< n - 1
      BY <2>3
  <2>6. healthyUpTo[n] = before \/ healthyUpTo[n] = Append(before, nodes[n])
      BY <2>2, <2>3 DEF Turn
  <2>7. Append(before, nodes[n]) \in Seq(Node) /\ Len(Append(before, nodes[n])) = Len(before) + 1
    <3> HIDE DEF before
    <3> QED BY <2>4, <2>5
  <2>8. Good(n)
    <3>1. Len(before) \in Nat
        BY <2>5
    <3> HIDE DEF before
    <3> QED BY <1>0, <2>2, <2>5, <2>6, <2>7, <3>1
  <2> QED BY <2>1, <2>8
<1>2. Good(Len(nodes))
    BY <1>0, <1>1
<1> QED BY <1>2 DEF healthyNodes

-----------------------------------------------------------------------------
(***************************************************************************)
(* What a goroutine carries from one lock to the next, and what the checks *)
(* under way add up to.                                                    *)
(***************************************************************************)
CallType ==
    [pc : {"idle", "list", "choose", "sent"}, left : Nat, tries : 0 .. retryCount - 1,
     list : Seq(Node), node : Node \cup {NoNode}]

CallOK(c, r) ==
    /\ r \in CallType
    /\ r.left =< MaxRequests[c]
    /\ r.pc = "choose" => r.list # <<>>
    /\ Len(r.list) =< Len(nodes)
    /\ r.pc = "sent" => r.node \in Node

ChecksOK(k) ==
    /\ k \in [asking : Nat, good : Nat, bad : Nat]
    /\ k.asking + k.good + k.bad =< MaxChecks

CallsInv == call = [c \in Caller |-> call[c]] /\ \A c \in Caller : CallOK(c, call[c])
IndexInv == currentNode \in 0 .. Len(nodes) - 1
ChecksInv == checks = [n \in Node |-> checks[n]] /\ \A n \in Node : ChecksOK(checks[n])
RestInv ==
    /\ unasked \in [Caller -> SUBSET Node]
    /\ routine \in {"running", "returned"}
    /\ stopped \in BOOLEAN

TypeInv == HealthInv /\ CallsInv /\ IndexInv /\ ChecksInv /\ RestInv

LEMMA ConstantsLemma ==
    /\ Len(nodes) \in Nat \ {0}
    /\ nodes \in Seq(Node)
    /\ retryCount \in Nat \ {0} /\ MaxChecks \in Nat \ {0}
    /\ \A c \in Caller : MaxRequests[c] \in Nat \ {0}
BY NodesAssumption, ConfigAssumption DEF Node

LEMMA CallLemma ==
    ASSUME CallsInv, NEW c \in Caller, NEW r, CallOK(c, r), call' = [call EXCEPT ![c] = r]
    PROVE  CallsInv'
BY DEF CallsInv

LEMMA NoCallOK ==
    ASSUME NEW c \in Caller
    PROVE  /\ CallOK(c, NoCall)
           /\ \A left \in Nat : left =< MaxRequests[c] => CallOK(c, NewRequest(left))
<1>1. <<>> \in Seq(Node) /\ Len(<<>>) = 0
    OBVIOUS
<1>2. NoCall \in CallType
    BY <1>1, ConstantsLemma DEF NoCall, CallType
<1>3. CallOK(c, NoCall)
    BY <1>1, <1>2, ConstantsLemma DEF CallOK, NoCall
<1>4. ASSUME NEW left \in Nat, left =< MaxRequests[c] PROVE CallOK(c, NewRequest(left))
  <2>1. NewRequest(left) \in CallType
      BY <1>2 DEF NewRequest, CallType
  <2>2. /\ NewRequest(left).pc = "list" /\ NewRequest(left).left = left
        /\ NewRequest(left).list = <<>>
      BY DEF NewRequest, NoCall
  <2> QED BY <1>1, <1>4, <2>1, <2>2, ConstantsLemma DEF CallOK
<1> QED BY <1>3, <1>4

(***************************************************************************)
(* The steps of a call.                                                    *)
(***************************************************************************)
LEMMA CallTypeStep == ASSUME TypeInv, NEW c \in Caller, CallStep(c) PROVE CallsInv' /\ IndexInv'
<1> DEFINE r == call[c]
<1>0. CallsInv /\ IndexInv /\ CallOK(c, r)
    BY DEF TypeInv, CallsInv
<1>1. CASE GetHealthyNodes(c)
  <2> DEFINE list == IF healthyNodes = <<>> THEN nodes ELSE healthyNodes
             u == [r EXCEPT !.pc = "choose", !.list = list]
  <2>1. list \in Seq(Node) /\ list # <<>> /\ Len(list) =< Len(nodes)
      BY ListLemma, ConstantsLemma, NodesAssumption
  <2>2. call' = [call EXCEPT ![c] = u] /\ currentNode' = currentNode
      BY <1>0, <1>1 DEF GetHealthyNodes, CallsInv
  <2> HIDE DEF list
  <2>3. u \in CallType
      BY <1>0, <2>1 DEF CallOK, CallType
  <2>4. u.pc = "choose" /\ u.list = list /\ u.left = r.left
      BY <1>0 DEF CallOK, CallType
  <2>5. CallOK(c, u)
    <3> HIDE DEF u
    <3> QED BY <1>0, <2>1, <2>3, <2>4 DEF CallOK
  <2> HIDE DEF u
  <2> QED BY <1>0, <2>2, <2>5, CallLemma DEF IndexInv
<1>2. CASE getNextHealthyNode(c)
  <2> DEFINE list == r.list
             node == list[(currentNode % Len(list)) + 1]
             u == [r EXCEPT !.pc = "sent", !.list = <<>>, !.node = node]
  <2>1. list \in Seq(Node) /\ list # <<>> /\ Len(list) =< Len(nodes) /\ currentNode \in Nat
      BY <1>0, <1>2, ConstantsLemma DEF CallOK, CallType, getNextHealthyNode, IndexInv
  <2>2. call' = [call EXCEPT ![c] = u] /\ currentNode' = (currentNode + 1) % Len(list)
      BY <1>0, <1>2 DEF getNextHealthyNode, CallsInv, nextIndex
  <2> HIDE DEF list
  <2>3. Len(list) \in Nat \ {0}
      BY <2>1
  <2>4. currentNode' \in 0 .. Len(list) - 1 /\ (currentNode % Len(list)) + 1 \in 1 .. Len(list)
      BY <2>1, <2>2, <2>3
  <2>5. IndexInv'
      BY <2>1, <2>3, <2>4, ConstantsLemma DEF IndexInv
  <2>6. node \in Node
      BY <2>1, <2>4
  <2> HIDE DEF node
  <2>7. <<>> \in Seq(Node) /\ Len(<<>>) = 0
      OBVIOUS
  <2>8. u \in CallType
      BY <1>0, <2>6, <2>7 DEF CallOK, CallType
  <2>9. u.pc = "sent" /\ u.list = <<>> /\ u.left = r.left /\ u.node = node
      BY <1>0 DEF CallOK, CallType
  <2>10. CallOK(c, u)
    <3> HIDE DEF u
    <3> QED BY <1>0, <2>6, <2>7, <2>8, <2>9, ConstantsLemma DEF CallOK
  <2> HIDE DEF u
  <2> QED BY <1>0, <2>2, <2>5, <2>10, CallLemma
<1>3. CASE RequestSucceeds(c)
  <2> DEFINE u == IF r.left > 1 THEN NewRequest(r.left - 1) ELSE NoCall
  <2>1. call' = [call EXCEPT ![c] = u] /\ currentNode' = currentNode
      BY <1>0, <1>3 DEF RequestSucceeds, CallsInv
  <2>2. r.left \in Nat /\ r.left =< MaxRequests[c]
      BY <1>0 DEF CallOK, CallType
  <2>3. r.left > 1 => r.left - 1 \in Nat /\ r.left - 1 =< MaxRequests[c]
      BY <2>2, ConstantsLemma
  <2>4. CallOK(c, u)
      BY <2>3, NoCallOK
  <2> HIDE DEF u
  <2> QED BY <1>0, <2>1, <2>4, CallLemma DEF IndexInv
<1>4. CASE RequestFails(c)
  <2> DEFINE u == IF isNetworkError /\ r.tries + 1 < retryCount THEN Retry(r) ELSE NoCall
  <2>1. call' = [call EXCEPT ![c] = u] /\ currentNode' = currentNode
      BY <1>0, <1>4 DEF RequestFails, CallsInv
  <2>2. ASSUME r.tries + 1 < retryCount PROVE CallOK(c, Retry(r))
    <3>1. r.tries + 1 \in 0 .. retryCount - 1
        BY <1>0, <2>2, ConstantsLemma DEF CallOK, CallType
    <3>2. Retry(r) \in CallType
        BY <1>0, <3>1 DEF CallOK, CallType, Retry
    <3>3. Retry(r).pc = "list" /\ Retry(r).list = r.list /\ Retry(r).left = r.left
        BY <1>0 DEF CallOK, CallType, Retry
    <3> QED BY <1>0, <3>2, <3>3 DEF CallOK
  <2>3. CallOK(c, u)
      BY <2>2, NoCallOK
  <2> HIDE DEF u
  <2> QED BY <1>0, <2>1, <2>3, CallLemma DEF IndexInv
<1> QED BY <1>1, <1>2, <1>3, <1>4 DEF CallStep

(***************************************************************************)
(* The steps of the node manager.                                          *)
(***************************************************************************)
LEMMA ChecksStep ==
    ASSUME TypeInv, NEW n \in Node,
           CheckNodeGood(n) \/ CheckNodeBad(n) \/ ApplyGood(n) \/ ApplyBad(n)
    PROVE  ChecksInv'
<1> DEFINE k == checks[n]
<1>0. ChecksInv /\ ChecksOK(k) /\ MaxChecks \in Nat
    BY ConstantsLemma DEF TypeInv, ChecksInv
<1>1. ASSUME NEW u, ChecksOK(u), checks' = [checks EXCEPT ![n] = u] PROVE ChecksInv'
    BY <1>0, <1>1 DEF ChecksInv
<1>2. ASSUME NEW a \in {"good", "bad"}, Answer(n, a) PROVE ChecksInv'
  <2> DEFINE u == [k EXCEPT !.asking = @ - 1, ![a] = @ + 1]
  <2>1. checks' = [checks EXCEPT ![n] = u]
      BY <1>0, <1>2 DEF Answer, ChecksInv
  <2>2. k.asking > 0
      BY <1>2 DEF Answer
  <2>3. k.asking - 1 \in Nat /\ k.good + 1 \in Nat /\ k.bad + 1 \in Nat
      BY <1>0, <2>2 DEF ChecksOK
  <2>4. ChecksOK(u)
    <3>1. u \in [asking : Nat, good : Nat, bad : Nat]
        BY <1>0, <2>3 DEF ChecksOK
    <3>2. /\ u.asking = k.asking - 1
          /\ a = "good" => u.good = k.good + 1 /\ u.bad = k.bad
          /\ a = "bad" => u.good = k.good /\ u.bad = k.bad + 1
        BY <1>0 DEF ChecksOK
    <3> HIDE DEF u
    <3> QED BY <1>0, <3>1, <3>2 DEF ChecksOK
  <2> HIDE DEF u
  <2> QED BY <1>1, <2>1, <2>4
<1>3. ASSUME NEW a \in {"good", "bad"}, NEW s, ApplyCheck(n, a, s) PROVE ChecksInv'
  <2> DEFINE u == [k EXCEPT ![a] = @ - 1]
  <2>1. checks' = [checks EXCEPT ![n] = u]
      BY <1>0, <1>3 DEF ApplyCheck, ChecksInv
  <2>2. k[a] > 0
      BY <1>3 DEF ApplyCheck
  <2>3. ChecksOK(u)
      BY <1>0, <2>2, <1>3 DEF ChecksOK
  <2> HIDE DEF u
  <2> QED BY <1>1, <2>1, <2>3
<1> QED BY <1>2, <1>3 DEF CheckNodeGood, CheckNodeBad, ApplyGood, ApplyBad

LEMMA TickStep == ASSUME TypeInv, RoutineTick PROVE ChecksInv'
<1>1. ASSUME NEW n \in Node PROVE ChecksOK([checks[n] EXCEPT !.asking = @ + 1])
  <2>1. ChecksOK(checks[n]) /\ MaxChecks \in Nat
      BY ConstantsLemma DEF TypeInv, ChecksInv
  <2>2. checks[n].asking + checks[n].good + checks[n].bad < MaxChecks
      BY DEF RoutineTick, Running
  <2> QED BY <2>1, <2>2 DEF ChecksOK
<1> QED BY <1>1 DEF RoutineTick, performHealthCheck, ChecksInv

LEMMA UnaskedStep == ASSUME TypeInv, [Next]_vars PROVE unasked' \in [Caller -> SUBSET Node]
<1>1. unasked \in [Caller -> SUBSET Node]
    BY DEF TypeInv, RestInv
<1>2. ASSUME NEW u \in [Caller -> SUBSET Node], NEW o PROVE Disturb(u, o) \in [Caller -> SUBSET Node]
    BY DEF Disturb
<1>3. ASSUME NEW c \in Caller, GetHealthyNodes(c) PROVE unasked' \in [Caller -> SUBSET Node]
  <2> DEFINE list == IF healthyNodes = <<>> THEN nodes ELSE healthyNodes
  <2>1. Range(list) \subseteq Node
    <3>1. list \in Seq(Node)
        BY ListLemma, ConstantsLemma
    <3> HIDE DEF list
    <3> QED BY <3>1 DEF Range
  <2>2. \E S \in SUBSET Node : unasked' = [unasked EXCEPT ![c] = S]
    <3>1. unasked[c] \in SUBSET Node
        BY <1>1
    <3>2. unasked' = [unasked EXCEPT ![c] = IF call[c].tries = 0 /\ c \in Watched
                                          THEN Range(list) ELSE unasked[c]]
        BY <1>3 DEF GetHealthyNodes
    <3> HIDE DEF list
    <3> QED BY <2>1, <3>1, <3>2
  <2> QED BY <1>1, <2>2
<1>4. ASSUME NEW c \in Caller, getNextHealthyNode(c) \/ RequestSucceeds(c) \/ RequestFails(c)
      PROVE  unasked' \in [Caller -> SUBSET Node]
  <2>1. \A S \in SUBSET Node : [unasked EXCEPT ![c] = S] \in [Caller -> SUBSET Node]
      BY <1>1
  <2>2. \A x : unasked[c] \ {x} \in SUBSET Node
      BY <1>1
  <2>3. \E u \in [Caller -> SUBSET Node], o \in SUBSET Caller : unasked' = Disturb(u, o)
    <3>1. CASE getNextHealthyNode(c)
      <4>1. PICK x : unasked' = Disturb([unasked EXCEPT ![c] = unasked[c] \ {x}], Caller \ {c})
          BY <3>1 DEF getNextHealthyNode
      <4> QED BY <2>1, <2>2, <4>1
    <3>2. CASE RequestSucceeds(c) \/ RequestFails(c)
      <4>1. \/ unasked' = Disturb([unasked EXCEPT ![c] = {}], Caller \ {c})
            \/ unasked' = Disturb(unasked, Caller \ {c})
          BY <3>2 DEF RequestSucceeds, RequestFails
      <4> QED BY <1>1, <2>1, <4>1
    <3> QED BY <1>4, <3>1, <3>2
  <2> QED BY <1>2, <2>3
<1>5. ASSUME NEW n \in Node, ApplyGood(n) \/ ApplyBad(n) PROVE unasked' \in [Caller -> SUBSET Node]
    BY <1>1, <1>2, <1>5 DEF ApplyGood, ApplyBad, ApplyCheck
<1>6. ASSUME UNCHANGED unasked PROVE unasked' \in [Caller -> SUBSET Node]
    BY <1>1, <1>6
<1> QED BY <1>3, <1>4, <1>5, <1>6
    DEF Next, CallStep, Call, CheckNodeGood, CheckNodeBad, Answer, RoutineTick, RoutineReturns,
        Close, vars

LEMMA TypeStep == ASSUME TypeInv, [Next]_vars PROVE TypeInv'
<1>1. HealthInv'
    BY HealthStep DEF TypeInv
<1>2. CallsInv' /\ IndexInv'
  <2>1. ASSUME NEW c \in Caller, NEW total \in 1 .. MaxRequests[c], Call(c, total) PROVE CallsInv' /\ IndexInv'
    <3>1. total \in Nat /\ total =< MaxRequests[c]
        BY ConstantsLemma
    <3>2. CallOK(c, NewRequest(total))
        BY <3>1, NoCallOK
    <3> QED BY <2>1, <3>2, CallLemma DEF Call, TypeInv, IndexInv
  <2>2. ASSUME UNCHANGED <<call, currentNode>> PROVE CallsInv' /\ IndexInv'
      BY <2>2 DEF TypeInv, CallsInv, IndexInv
  <2> QED BY <2>1, <2>2, CallTypeStep
      DEF Next, CheckNodeGood, CheckNodeBad, Answer, ApplyGood, ApplyBad, ApplyCheck,
          RoutineTick, RoutineReturns, Close, vars
<1>3. ChecksInv'
  <2>1. ASSUME UNCHANGED checks PROVE ChecksInv'
      BY <2>1 DEF TypeInv, ChecksInv
  <2> QED BY <2>1, ChecksStep, TickStep
      DEF Next, CallStep, GetHealthyNodes, getNextHealthyNode, RequestSucceeds, RequestFails,
          Call, RoutineReturns, Close, vars, managerVars
<1>4. routine' \in {"running", "returned"} /\ stopped' \in BOOLEAN
  <2>1. routine \in {"running", "returned"} /\ stopped \in BOOLEAN
      BY DEF TypeInv, RestInv
  <2> QED BY <2>1
      DEF Next, CallStep, GetHealthyNodes, getNextHealthyNode, RequestSucceeds, RequestFails,
          Call, CheckNodeGood, CheckNodeBad, Answer, ApplyGood, ApplyBad, ApplyCheck,
          RoutineTick, RoutineReturns, Close, vars, managerVars
<1> QED BY <1>1, <1>2, <1>3, <1>4, UnaskedStep DEF TypeInv, RestInv

(***************************************************************************)
(* Type correctness of the client: the shared index stays within the seed  *)
(* nodes although the list it wraps around shrinks and grows, a node is    *)
(* chosen only from a list that is not empty, and attempts and checks stay *)
(* within their limits (getNextHealthyNode, executeWithRetry).             *)
(***************************************************************************)
THEOREM ClientTypeCorrect == Spec => []TypeOK
<1>1. Init => TypeInv
  <2> SUFFICES ASSUME Init PROVE TypeInv
      OBVIOUS
  <2>1. HealthInv
      BY HealthInit
  <2>2. CallsInv /\ IndexInv
      BY NoCallOK, ConstantsLemma DEF Init, CallsInv, IndexInv
  <2>3. ChecksInv
      BY ConstantsLemma DEF Init, NewNodeManager, ChecksInv, ChecksOK
  <2> QED BY <2>1, <2>2, <2>3 DEF Init, NewNodeManager, TypeInv, RestInv
<1>2. TypeInv /\ [Next]_vars => TypeInv'
    BY TypeStep
<1>3. TypeInv => TypeOK
  <2> SUFFICES ASSUME TypeInv PROVE TypeOK
      OBVIOUS
  <2>1. \A n \in Node : checks[n] \in [asking : 0 .. MaxChecks, good : 0 .. MaxChecks,
                                       bad : 0 .. MaxChecks]
    <3> SUFFICES ASSUME NEW n \in Node
                 PROVE  checks[n] \in [asking : 0 .. MaxChecks, good : 0 .. MaxChecks,
                                       bad : 0 .. MaxChecks]
        OBVIOUS
    <3>1. checks[n] \in [asking : Nat, good : Nat, bad : Nat] /\ MaxChecks \in Nat
        BY ConfigAssumption DEF TypeInv, ChecksInv, ChecksOK
    <3>2. checks[n].asking + checks[n].good + checks[n].bad =< MaxChecks
        BY DEF TypeInv, ChecksInv, ChecksOK
    <3>3. checks[n].asking \in Nat /\ checks[n].good \in Nat /\ checks[n].bad \in Nat
        BY <3>1
    <3>4. /\ checks[n].asking \in 0 .. MaxChecks /\ checks[n].good \in 0 .. MaxChecks
          /\ checks[n].bad \in 0 .. MaxChecks
        BY <3>1, <3>2, <3>3
    <3> QED BY <3>1, <3>4
  <2> QED BY <2>1 DEF TypeInv, HealthInv, Status, CallsInv, CallOK, CallType, IndexInv, ChecksInv,
                      RestInv, TypeOK
<1> QED BY <1>1, <1>2, <1>3, PTL DEF Spec
=============================================================================
