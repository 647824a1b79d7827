----------------------- MODULE FencingOperatorProofs -----------------------
(***************************************************************************)
(* What holds of the whole operator for every value of its constants: it   *)
(* behaves as Executioner says, so that what is proved there holds here,   *)
(* and no node is fenced without reason.                                   *)
(***************************************************************************)
EXTENDS FencingOperator, ExecutionerOutcomes, ExecutionerConfigs

-----------------------------------------------------------------------------
(* The watcher's half: types, and the reasons behind what it holds.         *)

Watched ==
  /\ node \in [Nodes -> W!NodeRecord] /\ seenNode \in [Nodes -> W!NodeRecord]
  /\ problem \in [Problems -> W!ProblemRecord]
  /\ seenProblem \in [Problems -> W!ProblemRecord]
  /\ watcher \in [W!Watchers -> W!WatcherRecord]

(* A node that is, or was seen, out of touch has a loss on its account; an   *)
(* Event that asks for fencing was reported of the node it names.            *)
ReportsAreTrue ==
  /\ \A n \in Nodes : node[n].ready = "Unknown" \/ seenNode[n].ready = "Unknown"
                      => node[n].losses > 0
  /\ \A p \in Problems : W!Serious(problem[p]) =>
       problem[p].phase # "unborn" /\ problem[p].host \in Nodes
  /\ \A p \in Problems : W!Serious(seenProblem[p]) =>
       seenProblem[p].host \in Nodes /\ Suspect(seenProblem[p].host)

(* A worker acts for a node, and creates requests only for suspects. *)
ActsOnReason(k) ==
  /\ k.pc # "idle" => k.target \in Nodes
  /\ k.pc # "idle" /\ k.purpose = "create" => Suspect(k.target)
  /\ k.pc \in {"getNode", "create"} => k.purpose = "create"

WatchersActOnReason == \A w \in W!Watchers : ActsOnReason(watcher[w])

RequestsNameSuspects ==
  \A r \in Requests : request[r].phase # "unborn" =>
    request[r].target \in Nodes /\ Suspect(request[r].target)

-----------------------------------------------------------------------------
(* The watcher's steps, as Executioner sees them.                          *)

(* All but the creation and the deletion of a request are stutters.        *)
LEMMA QuietWatch ==
  ASSUME NEW w \in W!Watchers,
         Lookout(W!Notice) \/ Lookout(W!World)
         \/ (\E n \in Nodes : Lookout(W!TakeNode(n)))
         \/ (\E p \in Problems : Lookout(W!TakeProblem(p)))
         \/ Lookout(W!GetNode(w)) \/ Lookout(W!ListRequests(w))
  PROVE  UNCHANGED vars
<1>1. UNCHANGED <<request, process, execute>>
  BY DEF Lookout, W!Notice, W!World, W!TakeNode, W!TakeProblem, W!GetNode,
         W!ListRequests, W!SyncNodes, W!SyncProblems, W!ObserveNode, W!ObserveProblem,
         W!ChangeReadiness, W!DeleteNode, W!RegisterNode, W!ReportProblem,
         W!ExpireProblem, W!Elsewhere
<1> QED BY <1>1 DEF execute, vars

LEMMA CreationIsSubmission ==
  ASSUME Typed, Watched, WatchersActOnReason, NEW w \in W!Watchers,
         Lookout(W!CreateRequest(w))
  PROVE  \/ \E r \in Requests : Submit(r, watcher[w].target) /\ watcher[w].target \in Nodes
         \/ UNCHANGED vars
<1>1. watcher[w].target \in Nodes
  BY DEF Lookout, W!CreateRequest, WatchersActOnReason, ActsOnReason
<1>2. UNCHANGED <<process, execute>>
  BY DEF Lookout, W!CreateRequest
<1>3. CASE UNCHANGED request
  BY <1>2, <1>3 DEF execute, vars
<1>4. ASSUME NEW r \in Requests, request[r].phase = "unborn",
             request' = [request EXCEPT ![r] = W!NewRequest(r, watcher[w].target)]
      PROVE  Submit(r, watcher[w].target)
  <2>1. request' = [request EXCEPT ![r].phase = "live", ![r].target = watcher[w].target]
    BY <1>4 DEF W!NewRequest, Typed, TypeOK, RequestRecord
  <2> QED BY <1>2, <1>4, <2>1 DEF execute, Submit, Outside, informer, config
<1> QED BY <1>1, <1>3, <1>4 DEF Lookout, W!CreateRequest

LEMMA DeletionIsWithdrawal ==
  ASSUME NEW w \in W!Watchers, NEW r \in Requests, Lookout(W!DeleteRequest(w, r))
  PROVE  Withdraw(r) \/ UNCHANGED vars
<1>1. UNCHANGED <<process, execute>>
  BY DEF Lookout, W!DeleteRequest
<1>2. CASE UNCHANGED request
  BY <1>1, <1>2 DEF execute, vars
<1>3. CASE request[r].phase = "live" /\ request' = [request EXCEPT ![r].phase = "gone"]
  BY <1>1, <1>3 DEF execute, Withdraw, Outside, informer, config
<1> QED BY <1>2, <1>3 DEF Lookout, W!DeleteRequest

LEMMA StepIsExecutioners ==
  ASSUME Typed, Watched, WatchersActOnReason, [OperatorNext]_operatorVars
  PROVE  [Next]_vars
<1>1. CASE Execution(Execute)
  BY <1>1 DEF Execution, Execute, Next, Cluster
<1>2. CASE Lookout(W!Watch)
  <2>1. "Node" \in W!Watchers
    BY DEF W!Watchers
  <2>2. CASE \/ Lookout(W!Notice) \/ \E n \in Nodes : Lookout(W!TakeNode(n))
             \/ \E p \in Problems : Lookout(W!TakeProblem(p))
    BY <2>1, <2>2, QuietWatch
  <2>3. ASSUME NEW w \in W!Watchers, Lookout(W!Proceed(w)) PROVE [Next]_vars
    <3>1. \/ Lookout(W!GetNode(w)) \/ Lookout(W!ListRequests(w))
          \/ Lookout(W!CreateRequest(w))
          \/ \E r \in Requests : Lookout(W!DeleteRequest(w, r))
      BY <2>3 DEF Lookout, W!Proceed
    <3> QED BY <3>1, QuietWatch, CreationIsSubmission, DeletionIsWithdrawal
            DEF Next, Cluster
  <2> QED BY <1>2, <2>2, <2>3 DEF Lookout, W!Watch
<1>3. CASE Lookout(W!World)
  <2>1. "Node" \in W!Watchers
    BY DEF W!Watchers
  <2> QED BY <1>3, <2>1, QuietWatch
<1>4. CASE UNCHANGED operatorVars
  BY <1>4 DEF operatorVars, execute, vars
<1> QED BY <1>1, <1>2, <1>3, <1>4 DEF OperatorNext

-----------------------------------------------------------------------------
(* The reasons: once there, they stay, and nothing is asked for without.    *)

SuspectsStay == \A n \in Nodes : Suspect(n) => Suspect(n)'

Reasons ==
  /\ Watched /\ ReportsAreTrue /\ WatchersActOnReason /\ RequestsNameSuspects

LEMMA IdleActs ==
  W!Idle \in W!WatcherRecord /\ ActsOnReason(W!Idle) /\ ActsOnReason(W!Idle)'
BY DEF W!Idle, W!WatcherRecord, ActsOnReason

LEMMA FreshWatched ==
  /\ W!FreshNode \in W!NodeRecord /\ W!FreshNode.ready # "Unknown"
  /\ W!UnbornProblem \in W!ProblemRecord /\ ~W!Serious(W!UnbornProblem)
BY OperatorAssumption
DEF W!WatcherAssumption, W!FreshNode, W!NodeRecord, W!Readiness, W!UnbornProblem,
    W!ProblemRecord, W!Phases, W!Components, W!Serious

LEMMA InitReasons == OperatorInit => Reasons
<1> SUFFICES ASSUME OperatorInit PROVE Reasons
  OBVIOUS
<1>1. Watched /\ ReportsAreTrue
  BY FreshWatched, IdleActs DEF OperatorInit, W!InitWorld, W!StartWatching, Watched,
                                ReportsAreTrue
<1>2. WatchersActOnReason
  BY IdleActs DEF OperatorInit, W!StartWatching, WatchersActOnReason
<1>3. RequestsNameSuspects
  BY DEF OperatorInit, Init, NoRequests, UnbornRequest, RequestsNameSuspects
<1> QED BY <1>1, <1>2, <1>3 DEF Reasons

(* A worker that takes a step with reason leaves the others theirs. *)
LEMMA GoActs ==
  ASSUME Watched, WatchersActOnReason, NEW w \in W!Watchers, NEW k \in W!WatcherRecord,
         W!Go(w, k), ActsOnReason(k), UNCHANGED <<node, problem>>
  PROVE  watcher' \in [W!Watchers -> W!WatcherRecord] /\ WatchersActOnReason'
<1>1. \A v \in W!Watchers : watcher'[v] = watcher[v] \/ watcher'[v] = k
  BY DEF W!Go, Watched
<1>2. \A n : Suspect(n) => Suspect(n)'
  BY DEF Suspect
<1>3. \A v \in W!Watchers : ActsOnReason(watcher[v])'
  BY <1>1, <1>2 DEF WatchersActOnReason, ActsOnReason
<1> QED BY <1>3 DEF W!Go, Watched, WatchersActOnReason

LEMMA RestActs ==
  ASSUME Watched, WatchersActOnReason, NEW w \in W!Watchers, W!Rest(w),
         UNCHANGED <<node, problem>>
  PROVE  watcher' \in [W!Watchers -> W!WatcherRecord] /\ WatchersActOnReason'
BY IdleActs, GoActs DEF W!Rest

LEMMA ActActs ==
  ASSUME Watched, WatchersActOnReason, NEW w \in W!Watchers,
         NEW pc \in {"getNode", "list", "create"}, NEW n \in Nodes,
         NEW purpose \in {"create", "cancel"}, W!Act(w, pc, n, purpose),
         pc # "list" => purpose = "create", purpose = "create" => Suspect(n),
         UNCHANGED <<node, problem>>
  PROVE  watcher' \in [W!Watchers -> W!WatcherRecord] /\ WatchersActOnReason'
<1> DEFINE k == [W!Idle EXCEPT !.pc = pc, !.target = n, !.purpose = purpose]
<1>1. k \in W!WatcherRecord /\ k.pc = pc /\ k.target = n /\ k.purpose = purpose
  BY DEF W!Idle, W!WatcherRecord
<1>2. W!Go(w, k)
  BY DEF W!Act
<1> HIDE DEF k
<1>3. ActsOnReason(k)
  BY <1>1 DEF ActsOnReason
<1> QED BY <1>1, <1>2, <1>3, GoActs

(* What a step of a watcher's worker leaves alone. *)
LEMMA WorkerReasons ==
  ASSUME Reasons, watcher' \in [W!Watchers -> W!WatcherRecord], WatchersActOnReason',
         UNCHANGED <<node, problem, seenNode, seenProblem>>,
         \A r \in Requests : request'[r].phase # "unborn" =>
            \/ request[r].phase # "unborn" /\ request'[r].target = request[r].target
            \/ request'[r].target \in Nodes /\ Suspect(request'[r].target)
  PROVE  Reasons'
<1>1. \A n : Suspect(n) => Suspect(n)'
  BY DEF Suspect
<1>2. RequestsNameSuspects'
  BY <1>1 DEF Reasons, RequestsNameSuspects
<1> QED BY <1>1, <1>2 DEF Reasons, Watched, ReportsAreTrue

LEMMA NoticeReasons == Reasons /\ Lookout(W!Notice) => Reasons'
<1> SUFFICES ASSUME Reasons, Lookout(W!Notice) PROVE Reasons'
  OBVIOUS
<1>1. UNCHANGED <<node, problem, request, watcher>>
  BY DEF Lookout, W!Notice, W!SyncNodes, W!SyncProblems, W!ObserveNode,
         W!ObserveProblem, W!world
<1>2. /\ seenNode' \in [Nodes -> W!NodeRecord]
      /\ seenProblem' \in [Problems -> W!ProblemRecord]
      /\ \A n \in Nodes : seenNode'[n] = seenNode[n] \/ seenNode'[n] = node[n]
      /\ \A p \in Problems : seenProblem'[p] = seenProblem[p] \/ seenProblem'[p] = problem[p]
  BY DEF Lookout, W!Notice, W!SyncNodes, W!SyncProblems, W!ObserveNode,
         W!ObserveProblem, Reasons, Watched
<1>3. \A n : Suspect(n) => Suspect(n)'
  BY <1>1 DEF Suspect
<1>4. \A p \in Problems : W!Serious(problem[p]) => Suspect(problem[p].host)
  BY DEF Reasons, ReportsAreTrue, W!Serious, W!SupportedNodeProblemSources, Suspect
<1>5. Watched' /\ ReportsAreTrue'
  BY <1>1, <1>2, <1>3, <1>4 DEF Reasons, Watched, ReportsAreTrue
<1>6. WatchersActOnReason' /\ RequestsNameSuspects'
  BY <1>1, <1>3
  DEF Reasons, WatchersActOnReason, ActsOnReason, RequestsNameSuspects
<1> QED BY <1>5, <1>6 DEF Reasons

LEMMA TakeReasons ==
  ASSUME Reasons
  PROVE  /\ \A n \in Nodes : Lookout(W!TakeNode(n)) => Reasons'
         /\ \A p \in Problems : Lookout(W!TakeProblem(p)) => Reasons'
<1>0. {"Node", "Event"} \subseteq W!Watchers /\ Watched /\ WatchersActOnReason
  BY DEF W!Watchers, Reasons
<1>1. ASSUME NEW n \in Nodes, Lookout(W!TakeNode(n)) PROVE Reasons'
  <2>1. UNCHANGED <<node, problem, seenNode, seenProblem, request>>
    BY <1>1 DEF Lookout, W!TakeNode, W!world
  <2>2. CASE W!Lost(seenNode[n]) /\ W!Act("Node", "list", n, "create")
    <3>1. Suspect(n)
      BY <2>2 DEF Reasons, ReportsAreTrue, W!Lost, Suspect
    <3>2. watcher' \in [W!Watchers -> W!WatcherRecord] /\ WatchersActOnReason'
      BY <1>0, <2>1, <2>2, <3>1, ActActs
    <3> QED BY <2>1, <3>2, WorkerReasons
  <2>3. CASE W!Act("Node", "list", n, "cancel")
    <3>1. watcher' \in [W!Watchers -> W!WatcherRecord] /\ WatchersActOnReason'
      BY <1>0, <2>1, <2>3, ActActs
    <3> QED BY <2>1, <3>1, WorkerReasons
  <2> QED BY <1>1, <2>2, <2>3 DEF Lookout, W!TakeNode, W!isNodeDirty
<1>2. ASSUME NEW p \in Problems, Lookout(W!TakeProblem(p)) PROVE Reasons'
  <2>1. UNCHANGED <<node, problem, seenNode, seenProblem, request>>
    BY <1>2 DEF Lookout, W!TakeProblem, W!world
  <2>2. CASE W!Serious(seenProblem[p])
    <3>1. seenProblem[p].host \in Nodes /\ Suspect(seenProblem[p].host)
      BY <2>2 DEF Reasons, ReportsAreTrue
    <3>2. W!Act("Event", "getNode", seenProblem[p].host, "create")
      BY <1>2, <2>2 DEF Lookout, W!TakeProblem
    <3>3. watcher' \in [W!Watchers -> W!WatcherRecord] /\ WatchersActOnReason'
      BY <1>0, <2>1, <3>1, <3>2, ActActs
    <3> QED BY <2>1, <3>3, WorkerReasons
  <2>3. CASE UNCHANGED watcher
    <3>1. watcher' \in [W!Watchers -> W!WatcherRecord] /\ WatchersActOnReason'
      BY <1>0, <2>1, <2>3 DEF Watched, WatchersActOnReason, ActsOnReason, Suspect
    <3> QED BY <2>1, <3>1, WorkerReasons
  <2> QED BY <1>2, <2>2, <2>3 DEF Lookout, W!TakeProblem
<1> QED BY <1>1, <1>2

LEMMA ProceedReasons ==
  ASSUME Reasons, Typed, NEW w \in W!Watchers, Lookout(W!Proceed(w))
  PROVE  Reasons'
<1> DEFINE n == watcher[w].target
<1>0. /\ Watched /\ WatchersActOnReason /\ watcher[w] \in W!WatcherRecord
      /\ ActsOnReason(watcher[w])
  BY DEF Reasons, Watched, WatchersActOnReason
<1>1. UNCHANGED <<node, problem, seenNode, seenProblem>>
  BY DEF Lookout, W!Proceed, W!GetNode, W!ListRequests, W!CreateRequest,
         W!DeleteRequest, W!world
<1>2. CASE W!GetNode(w)
  <2>1. n \in Nodes /\ Suspect(n) /\ UNCHANGED request
    BY <1>0, <1>2 DEF W!GetNode, ActsOnReason
  <2>2. W!Act(w, "list", n, "create") \/ W!Rest(w)
    BY <1>2 DEF W!GetNode
  <2>3. watcher' \in [W!Watchers -> W!WatcherRecord] /\ WatchersActOnReason'
    BY <1>0, <1>1, <2>1, <2>2, ActActs, RestActs
  <2> QED BY <1>1, <2>1, <2>3, WorkerReasons
<1>3. CASE W!ListRequests(w)
  <2>1. watcher[w].pc = "list" /\ n \in Nodes /\ UNCHANGED request
    BY <1>0, <1>3 DEF W!ListRequests, ActsOnReason
  <2>2. PICK found \in SUBSET Requests :
          IF watcher[w].purpose = "cancel" THEN W!Cancel(w, found) ELSE W!Schedule(w, found)
    BY <1>3 DEF W!ListRequests, W!Answers, W!Listed
  <2>3. CASE W!Rest(w)
    <3>1. watcher' \in [W!Watchers -> W!WatcherRecord] /\ WatchersActOnReason'
      BY <1>0, <1>1, <2>3, RestActs
    <3> QED BY <1>1, <2>1, <3>1, WorkerReasons
  <2>4. CASE watcher[w].purpose # "cancel" /\ W!Act(w, "create", n, "create")
    <3>1. Suspect(n)
      BY <1>0, <2>1, <2>4 DEF ActsOnReason, W!WatcherRecord
    <3>2. watcher' \in [W!Watchers -> W!WatcherRecord] /\ WatchersActOnReason'
      BY <1>0, <1>1, <2>1, <2>4, <3>1, ActActs
    <3> QED BY <1>1, <2>1, <3>2, WorkerReasons
  <2>5. CASE /\ watcher[w].purpose = "cancel"
             /\ W!Go(w, [watcher[w] EXCEPT !.pc = "delete", !.todo = found])
    <3> DEFINE k == [watcher[w] EXCEPT !.pc = "delete", !.todo = found]
    <3>1. k \in W!WatcherRecord /\ k.pc = "delete" /\ k.target = n /\ k.purpose = "cancel"
      BY <1>0, <2>5 DEF W!WatcherRecord
    <3>2. W!Go(w, k)
      BY <2>5
    <3> HIDE DEF k
    <3>3. ActsOnReason(k)
      BY <2>1, <3>1 DEF ActsOnReason
    <3>4. watcher' \in [W!Watchers -> W!WatcherRecord] /\ WatchersActOnReason'
      BY <1>0, <1>1, <3>1, <3>2, <3>3, GoActs
    <3> QED BY <1>1, <2>1, <3>4, WorkerReasons
  <2> QED BY <2>2, <2>3, <2>4, <2>5 DEF W!Schedule, W!Cancel
<1>4. CASE W!CreateRequest(w)
  <2>1. n \in Nodes /\ Suspect(n) /\ W!Rest(w)
    BY <1>0, <1>4 DEF W!CreateRequest, ActsOnReason
  <2>2. watcher' \in [W!Watchers -> W!WatcherRecord] /\ WatchersActOnReason'
    BY <1>0, <1>1, <2>1, RestActs
  <2>3. \A r \in Requests :
          request'[r] = request[r] \/ request'[r].target = n
    <3>1. request \in [Requests -> RequestRecord]
      BY DEF Typed, TypeOK
    <3>2. CASE UNCHANGED request
      BY <3>2
    <3>3. ASSUME NEW r \in Requests,
                 request' = [request EXCEPT ![r] = W!NewRequest(r, n)]
          PROVE  <2>3!:
      <4>1. W!NewRequest(r, n).target = n
        BY <3>1 DEF W!NewRequest, RequestRecord
      <4> QED BY <3>1, <3>3, <4>1
    <3> QED BY <1>4, <3>2, <3>3 DEF W!CreateRequest
  <2> QED BY <1>1, <2>1, <2>2, <2>3, WorkerReasons
<1>5. ASSUME NEW r \in Requests, W!DeleteRequest(w, r) PROVE Reasons'
  <2> DEFINE k == [watcher[w] EXCEPT !.todo = watcher[w].todo \ {r}]
  <2>1. \A q \in Requests : request'[q].phase # "unborn" =>
           request[q].phase # "unborn" /\ request'[q].target = request[q].target
    <3>1. request \in [Requests -> RequestRecord]
      BY DEF Typed, TypeOK
    <3>2. CASE UNCHANGED request
      BY <3>2
    <3>3. CASE request[r].phase = "live" /\ request' = [request EXCEPT ![r].phase = "gone"]
      BY <3>1, <3>3 DEF RequestRecord
    <3> QED BY <1>5, <3>2, <3>3 DEF W!DeleteRequest
  <2>2. CASE W!Rest(w)
    <3>1. watcher' \in [W!Watchers -> W!WatcherRecord] /\ WatchersActOnReason'
      BY <1>0, <1>1, <2>2, RestActs
    <3> QED BY <1>1, <2>1, <3>1, WorkerReasons
  <2>3. CASE W!Go(w, k)
    <3>1. /\ k \in W!WatcherRecord /\ k.pc = watcher[w].pc
          /\ k.target = n /\ k.purpose = watcher[w].purpose
      BY <1>0 DEF W!WatcherRecord
    <3> HIDE DEF k
    <3>2. ActsOnReason(k)
      BY <1>0, <3>1 DEF ActsOnReason
    <3>3. watcher' \in [W!Watchers -> W!WatcherRecord] /\ WatchersActOnReason'
      BY <1>0, <1>1, <2>3, <3>1, <3>2, GoActs
    <3> QED BY <1>1, <2>1, <3>3, WorkerReasons
  <2> QED BY <1>5, <2>2, <2>3 DEF W!DeleteRequest
<1> QED BY <1>2, <1>3, <1>4, <1>5 DEF Lookout, W!Proceed

LEMMA WorldReasons == Reasons /\ Lookout(W!World) => Reasons'
<1> SUFFICES ASSUME Reasons, Lookout(W!World) PROVE Reasons'
  OBVIOUS
<1>0. UNCHANGED <<request, seenNode, seenProblem, watcher>>
  BY DEF Lookout, W!World, W!ChangeReadiness, W!DeleteNode, W!RegisterNode,
         W!ReportProblem, W!ExpireProblem, W!Elsewhere, W!memory
<1>1. /\ node' \in [Nodes -> W!NodeRecord]
      /\ \A n \in Nodes : node[n].losses > 0 => node'[n].losses > 0
      /\ \A n \in Nodes : node'[n].ready = "Unknown" => node'[n].losses > 0
  <2>1. node \in [Nodes -> W!NodeRecord]
        /\ \A n \in Nodes : node[n].ready = "Unknown" => node[n].losses > 0
    BY DEF Reasons, Watched, ReportsAreTrue
  <2>2. CASE UNCHANGED node
    BY <2>1, <2>2
  <2>3. ASSUME NEW n \in Nodes, NEW ready \in W!Readiness, W!ChangeReadiness(n, ready)
        PROVE  <1>1!:
    <3> DEFINE lost == IF ready = "Unknown" THEN node[n].losses + 1 ELSE node[n].losses
               changed == [node[n] EXCEPT !.ready = ready, !.losses = lost]
    <3>1. node[n] \in W!NodeRecord /\ node[n].losses \in Nat /\ lost \in 0 .. MaxLosses
      BY <2>1, <2>3, OperatorAssumption
      DEF W!WatcherAssumption, W!ChangeReadiness, W!NodeRecord
    <3>2. /\ changed \in W!NodeRecord /\ changed.losses = lost /\ changed.ready = ready
      BY ONLY <3>1, ready \in W!Readiness DEF W!NodeRecord
    <3>3. node' = [node EXCEPT ![n] = changed]
      BY <2>3 DEF W!ChangeReadiness
    <3>4. /\ node[n].losses > 0 => lost > 0
          /\ ready = "Unknown" => lost > 0
      BY <3>1
    <3> HIDE DEF changed, lost
    <3> QED BY <2>1, <3>2, <3>3, <3>4
  <2>4. ASSUME NEW n \in Nodes, W!DeleteNode(n) \/ W!RegisterNode(n)
        PROVE  <1>1!:
    <3>1. CASE W!DeleteNode(n)
      BY <2>1, <3>1 DEF W!DeleteNode, W!NodeRecord
    <3>2. CASE W!RegisterNode(n)
      BY <2>1, <3>2 DEF W!RegisterNode, W!NodeRecord, W!Readiness
    <3> QED BY <2>4, <3>1, <3>2
  <2> QED BY <2>2, <2>3, <2>4 DEF Lookout, W!World, W!ReportProblem, W!ExpireProblem
<1>2. /\ problem' \in [Problems -> W!ProblemRecord]
      /\ \A p \in Problems : W!Serious(problem'[p]) =>
           problem'[p].phase # "unborn" /\ problem'[p].host \in Nodes
      /\ \A p \in Problems : problem[p].phase # "unborn" =>
           /\ problem'[p].phase # "unborn" /\ problem'[p].host = problem[p].host
           /\ problem'[p].type = problem[p].type
           /\ problem'[p].component = problem[p].component
  <2>1. /\ problem \in [Problems -> W!ProblemRecord]
        /\ \A p \in Problems : W!Serious(problem[p]) =>
             problem[p].phase # "unborn" /\ problem[p].host \in Nodes
    BY DEF Reasons, Watched, ReportsAreTrue
  <2>2. CASE UNCHANGED problem
    BY <2>1, <2>2
  <2>3. ASSUME NEW p \in Problems, NEW n \in Nodes, NEW report \in Reports,
               W!ReportProblem(p, n, report)
        PROVE  <1>2!:
    <3>1. report \in [type : {"Normal", "Warning"}, component : W!Components]
      BY OperatorAssumption DEF W!WatcherAssumption
    <3> QED BY <2>1, <2>3, <3>1 DEF W!ReportProblem, W!ProblemRecord, W!Phases
  <2>4. ASSUME NEW p \in Problems, W!ExpireProblem(p) PROVE <1>2!:
    BY <2>1, <2>4 DEF W!ExpireProblem, W!ProblemRecord, W!Phases, W!Serious
  <2> QED BY <2>2, <2>3, <2>4
          DEF Lookout, W!World, W!ChangeReadiness, W!DeleteNode, W!RegisterNode, W!Elsewhere
<1>3. \A n \in Nodes : Suspect(n) => Suspect(n)'
  BY <1>1, <1>2 DEF Suspect
<1>4. Watched' /\ ReportsAreTrue'
  BY <1>0, <1>1, <1>2, <1>3 DEF Reasons, Watched, ReportsAreTrue
<1>5. WatchersActOnReason' /\ RequestsNameSuspects'
  BY <1>0, <1>3 DEF Reasons, WatchersActOnReason, ActsOnReason, RequestsNameSuspects
<1> QED BY <1>4, <1>5 DEF Reasons

LEMMA ExecutionReasons ==
  ASSUME Reasons, Typed, CopiesKeepTarget, Execution(Execute)
  PROVE  Reasons'
<1>1. UNCHANGED <<node, problem>>
  BY DEF Execution, outside
<1>2. TargetsKept
  BY NextFollows DEF Execution, Execute, Next, Cluster
<1>3. \A r \in Requests : request'[r].phase # "unborn" => request[r].phase # "unborn"
  <2>1. CASE UNCHANGED request
    BY <2>1
  <2>2. ASSUME NEW w \in Handlers, WriteStatus(w)
        PROVE  \A r \in Requests : request'[r].phase # "unborn" => request[r].phase # "unborn"
    <3>1. request[worker[w].key].phase # "unborn"
      BY <2>2 DEF WriteStatus, CopiesKeepTarget, Carries, SameTarget
    <3>2. \A r \in Requests : request'[r] = request[r] \/ r = worker[w].key
      BY <2>2 DEF WriteStatus, Typed, TypeOK
    <3> QED BY <3>1, <3>2
  <2>3. ASSUME NEW w \in Handlers, Step(w), ~WriteStatus(w) PROVE UNCHANGED request
    BY <2>3 DEF Step, LookupRequest, HandleFencingJob, ChooseConfig, VisitConfig,
                EndVisit, ChooseMethod, CreateJob, Panic, server
  <2>4. (\E w \in Handlers : Step(w)) \/ UNCHANGED request
    BY DEF Execution, Execute, Operator, Handle, Inform, Load, SyncRequests, SyncJobs,
           SyncMaps, ObserveRequest, ObserveJob, ObserveMap, ParseConfigMap,
           TakeConfigMap, TakeRequest, TakeJob, Crash, Restart, ConcurrentMapAccess,
           Panic, EditConfigMap, StartPod, PodSucceeds, PodFails, RemoveJob, server
  <2> QED BY <2>1, <2>2, <2>3, <2>4
<1>4. RequestsNameSuspects'
  BY <1>1, <1>2, <1>3 DEF Reasons, RequestsNameSuspects, TargetsKept, Suspect
<1>5. CASE UNCHANGED memory
  BY <1>1, <1>4, <1>5
  DEF memory, Reasons, Watched, ReportsAreTrue, WatchersActOnReason, ActsOnReason, Suspect
<1>6. CASE W!ForgetNodes
  <2>1. Watched' /\ ReportsAreTrue'
    BY <1>1, <1>6, FreshWatched, IdleActs
    DEF W!ForgetNodes, Reasons, Watched, ReportsAreTrue
  <2>2. WatchersActOnReason'
    BY <1>6, IdleActs DEF W!ForgetNodes, WatchersActOnReason
  <2> QED BY <1>4, <2>1, <2>2 DEF Reasons
<1> QED BY <1>5, <1>6 DEF Execution

-----------------------------------------------------------------------------
(* The theorems.                                                           *)

OperatorInv == Typed /\ CopiesKeepTarget /\ Reasons

LEMMA OperatorInvInit == OperatorInit => OperatorInv
BY InitTyped, InitFollows, InitReasons DEF OperatorInit, OperatorInv

LEMMA OperatorInvNext == OperatorInv /\ [OperatorNext]_operatorVars => OperatorInv'
<1> SUFFICES ASSUME OperatorInv, [OperatorNext]_operatorVars PROVE OperatorInv'
  OBVIOUS
<1> USE DEF OperatorInv
<1>1. [Next]_vars
  BY StepIsExecutioners DEF Reasons
<1>2. Typed' /\ CopiesKeepTarget'
  BY <1>1, NextTyped, NextFollows
<1>3. CASE Execution(Execute)
  BY <1>2, <1>3, ExecutionReasons
<1>4. CASE Lookout(W!Watch)
  <2>1. \/ Lookout(W!Notice) \/ \E n \in Nodes : Lookout(W!TakeNode(n))
        \/ \E p \in Problems : Lookout(W!TakeProblem(p))
        \/ \E w \in W!Watchers : Lookout(W!Proceed(w))
    BY <1>4 DEF Lookout, W!Watch
  <2> QED BY <1>2, <2>1, NoticeReasons, TakeReasons, ProceedReasons
<1>5. CASE Lookout(W!World)
  BY <1>2, <1>5, WorldReasons
<1>6. CASE UNCHANGED operatorVars
  BY <1>2, <1>6
  DEF operatorVars, outside, memory, Reasons, Watched, ReportsAreTrue,
      WatchersActOnReason, ActsOnReason, RequestsNameSuspects, Suspect
<1> QED BY <1>3, <1>4, <1>5, <1>6 DEF OperatorNext

(* With the watcher in the place of whoever asks for fencing, the operator   *)
(* behaves as Executioner says: each of its steps is one of the executioner  *)
(* or of its surroundings there, or leaves the executioner alone.            *)
THEOREM OperatorImplementsExecutioner == OperatorSpec => ImplementsExecutioner
<1>1. OperatorInit => Init
  BY DEF OperatorInit
<1>2. OperatorInv /\ [OperatorNext]_operatorVars => [Next]_vars
  BY StepIsExecutioners DEF OperatorInv, Reasons
<1> QED BY <1>1, <1>2, OperatorInvInit, OperatorInvNext, PTL
        DEF OperatorSpec, ImplementsExecutioner, Spec

(* A node is fenced only if it was out of touch at some time, or a serious   *)
(* problem was reported of it.                                               *)
THEOREM FencedOnReason == OperatorSpec => []OnlySuspectsAreFenced
<1>1. OperatorInv => OnlySuspectsAreFenced
  BY DEF OperatorInv, Typed, WorkerShape, CopiesKeepTarget, Reasons,
         RequestsNameSuspects, OnlySuspectsAreFenced
<1> QED BY <1>1, OperatorInvInit, OperatorInvNext, PTL DEF OperatorSpec

(* In the whole operator, too, a request is Complete only if a Job of it     *)
(* ended with a success and no failure, and then its outcome is final; no    *)
(* history claims more attempts than there are Jobs; and only a handler with *)
(* a stale copy fences for a request that is complete.                       *)
COROLLARY OperatorCompletesSoundly ==
  OperatorSpec => /\ []CompleteMeansFenced /\ OutcomeIsFinal
                  /\ []ProgressMeansJobs /\ OnlyStaleHandlersFenceCompleted
BY OperatorImplementsExecutioner, CompletionIsSound, OutcomeStaysFinal,
   AttemptsAreBacked, CompletedIsLeftAlone, PTL
DEF ImplementsExecutioner

(* While nobody edits the configuration, the Jobs of the whole operator are  *)
(* of methods of the configuration, which selects their target.              *)
COROLLARY OperatorFollowsItsConfig ==
  ASSUME Edits = {} PROVE OperatorSpec => []JobsFollowConfig
<1>1. Spec => []JobsFollowConfig
  BY JobsFollowTheirConfig
<1> QED BY <1>1, OperatorImplementsExecutioner, PTL DEF ImplementsExecutioner

(* Whatever is watched, reported and withdrawn besides, the map of the       *)
(* whole operator holds what its informer has, and nothing else brings the   *)
(* operator down than brings the executioner down.                           *)
COROLLARY OperatorViewAndPanics ==
  OperatorSpec => []ViewIsCurrent /\ PanicsAreExplained
BY OperatorImplementsExecutioner, ViewStaysCurrent, OnlyThesePanics, PTL
DEF ImplementsExecutioner

-----------------------------------------------------------------------------
(* The refinement of Watcher: the executioner's steps, as the watcher sees   *)
(* them, and the watcher's own on the requests as it knows them.             *)

Seen(req) == [phase |-> req.phase, target |-> req.target, complete |-> req.complete]

LEMMA RequestsSeen ==
  /\ RequestsWatched = [r \in Requests |-> Seen(request[r])]
  /\ RequestsWatched' = [r \in Requests |-> Seen(request'[r])]
BY DEF RequestsWatched, Seen

LEMMA SeenUnchanged ==
  /\ UNCHANGED request => UNCHANGED RequestsWatched
  /\ UNCHANGED process => UNCHANGED ProcessWatched
BY DEF RequestsWatched, ProcessWatched, Running

(* One request that changes is one that is seen to change. *)
LEMMA OneSeen ==
  ASSUME Typed, NEW r \in Requests, NEW s, request' = [request EXCEPT ![r] = s]
  PROVE  RequestsWatched' = [RequestsWatched EXCEPT ![r] = Seen(s)]
<1>1. \A q \in Requests : request'[q] = IF q = r THEN s ELSE request[q]
  BY DEF Typed, TypeOK
<1>2. \A q \in Requests : Seen(request'[q]) = IF q = r THEN Seen(s) ELSE Seen(request[q])
  BY <1>1
<1> QED BY <1>2, RequestsSeen

SeenRecord == [phase : Phases, target : Nodes \cup {None}, complete : BOOLEAN]

LEMMA SeenFields ==
  ASSUME NEW req \in RequestRecord
  PROVE  /\ Seen(req) \in SeenRecord /\ Seen(req).phase = req.phase
         /\ Seen(req).target = req.target /\ Seen(req).complete = req.complete
BY DEF Seen, SeenRecord, RequestRecord

LEMMA SeenSame ==
  ASSUME NEW y \in SeenRecord, NEW z \in SeenRecord, y.phase = z.phase,
         y.target = z.target, y.complete = z.complete
  PROVE  y = z
BY DEF SeenRecord

(* What is changed of a request is changed of it as it is seen. *)
LEMMA ChangesSeen ==
  ASSUME NEW req \in RequestRecord
  PROVE  /\ Seen([req EXCEPT !.phase = "gone"]) = [Seen(req) EXCEPT !.phase = "gone"]
         /\ \A n \in Nodes : Seen([req EXCEPT !.phase = "live", !.target = n])
                             = [Seen(req) EXCEPT !.phase = "live", !.target = n]
<1> DEFINE z == Seen(req)
<1>1. z \in SeenRecord /\ z.target = req.target /\ z.complete = req.complete
  BY SeenFields
<1> HIDE DEF z
<1>2. ASSUME NEW phase \in Phases
      PROVE  Seen([req EXCEPT !.phase = phase]) = [z EXCEPT !.phase = phase]
  <2> DEFINE a == [req EXCEPT !.phase = phase]
             c == [z EXCEPT !.phase = phase]
  <2>1. /\ a \in RequestRecord /\ a.phase = phase /\ a.target = req.target
        /\ a.complete = req.complete
    BY DEF RequestRecord
  <2>2. /\ c \in SeenRecord /\ c.phase = phase /\ c.target = z.target
        /\ c.complete = z.complete
    BY <1>1 DEF SeenRecord
  <2> HIDE DEF a, c
  <2>3. Seen(a) = c
    BY <1>1, <2>1, <2>2, SeenFields, SeenSame
  <2> QED BY <2>3 DEF a, c
<1>3. ASSUME NEW phase \in Phases, NEW n \in Nodes
      PROVE  Seen([req EXCEPT !.phase = phase, !.target = n])
               = [z EXCEPT !.phase = phase, !.target = n]
  <2> DEFINE a == [req EXCEPT !.phase = phase, !.target = n]
             c == [z EXCEPT !.phase = phase, !.target = n]
  <2>1. /\ a \in RequestRecord /\ a.phase = phase /\ a.target = n
        /\ a.complete = req.complete
    BY DEF RequestRecord
  <2>2. c \in SeenRecord /\ c.phase = phase /\ c.target = n /\ c.complete = z.complete
    BY <1>1 DEF SeenRecord
  <2> HIDE DEF a, c
  <2>3. Seen(a) = c
    BY <1>1, <2>1, <2>2, SeenFields, SeenSame
  <2> QED BY <2>3 DEF a, c
<1> QED BY <1>2, <1>3 DEF z, Phases

LEMMA WriteSeen ==
  ASSUME Typed, CopiesAreOrdered, CopiesKeepTarget, NEW w \in Handlers, WriteStatus(w)
  PROVE  \/ UNCHANGED request
         \/ \E r \in Requests :
              /\ RequestsWatched[r].phase = "live" /\ ~RequestsWatched[r].complete
              /\ \/ UNCHANGED RequestsWatched
                 \/ RequestsWatched' = [RequestsWatched EXCEPT ![r].complete = TRUE]
<1> DEFINE r == worker[w].key
           req == worker[w].req
           s == Stored(req)
<1>1. r \in Requests /\ req \in RequestRecord /\ request[r] \in RequestRecord
  BY DEF WriteStatus, Typed, TypeOK, WorkerRecord, WorkerShape, LocalsSet
<1>2. CASE Accepted(req, r) /\ request' = [request EXCEPT ![r] = s]
  <2>1. /\ req.phase = "live" /\ request[r].phase = "live"
        /\ Successor(req, r) /\ req.version = request[r].version
    BY <1>2 DEF WriteStatus, CopiesAreOrdered, CopyOrdered, Accepted
  <2>2. ~request[r].complete
    BY <2>1, Zenon DEF Successor
  <2>3. req.target = request[r].target
    BY DEF WriteStatus, CopiesKeepTarget, Carries, SameTarget
  <2>4. s.phase = "live" /\ s.target = request[r].target /\ s.complete = req.complete
    BY <1>1, <2>1, <2>3 DEF Stored, Encoded, RequestRecord
  <2> HIDE DEF s
  <2>5. RequestsWatched' = [RequestsWatched EXCEPT ![r] = Seen(s)]
    BY <1>1, <1>2, OneSeen
  <2>6. /\ RequestsWatched[r] \in SeenRecord
        /\ RequestsWatched[r].phase = "live"
        /\ RequestsWatched[r].target = request[r].target
        /\ RequestsWatched[r].complete = request[r].complete
    BY <1>1, <2>1, RequestsSeen, SeenFields
  <2>s. /\ Seen(s) \in SeenRecord /\ Seen(s).phase = "live"
        /\ Seen(s).target = request[r].target /\ Seen(s).complete = req.complete
    <3>1. s \in RequestRecord
      BY <1>1, StoredTyped DEF s
    <3> QED BY <2>4, <3>1, SeenFields
  <2>7. request[r].complete = FALSE /\ req.complete \in BOOLEAN
    BY <1>1, <2>2 DEF RequestRecord
  <2> HIDE DEF r, req
  <2>8. RequestsWatched[r].phase = "live" /\ ~RequestsWatched[r].complete
    BY <2>6, <2>7
  <2>9. CASE req.complete = FALSE
    <3>1. Seen(s) = RequestsWatched[r]
      <4>1. Seen(s).complete = RequestsWatched[r].complete
        BY <2>6, <2>7, <2>9, <2>s
      <4> QED BY ONLY <2>6, <2>s, <4>1, SeenSame
    <3>2. UNCHANGED RequestsWatched
      BY <1>1, <2>5, <3>1, RequestsSeen
    <3> QED BY <1>1, <2>8, <3>2
  <2>10. CASE req.complete = TRUE
    <3> DEFINE z == RequestsWatched[r]
               c == [z EXCEPT !.complete = TRUE]
    <3>0. c \in SeenRecord /\ c.phase = z.phase /\ c.target = z.target /\ c.complete = TRUE
      BY <2>6 DEF SeenRecord
    <3> HIDE DEF z, c
    <3>1. Seen(s) = [RequestsWatched[r] EXCEPT !.complete = TRUE]
      <4>1. Seen(s) = c
        <5>1. Seen(s).complete = c.complete
          BY <2>10, <2>s, <3>0
        <5>2. c.phase = "live" /\ c.target = request[r].target
          BY <2>6, <3>0 DEF z
        <5> QED BY ONLY <2>s, <3>0, <5>1, <5>2, SeenSame
      <4> QED BY <4>1 DEF c, z
    <3> QED BY <1>1, <2>5, <2>8, <3>1
  <2> QED BY <2>7, <2>9, <2>10
<1> QED BY <1>2 DEF WriteStatus

LEMMA ExecutionSeen ==
  ASSUME Typed, CopiesAreOrdered, CopiesKeepTarget, Execution(Execute)
  PROVE  [Alone!OpenNext]_(Alone!vars)
<1>1. UNCHANGED <<node, problem, refusals>>
  BY DEF Execution, outside
<1>2. ASSUME UNCHANGED request PROVE [Alone!OpenNext]_(Alone!vars)
  <2>1. CASE Running /\ process' # "running"
    <3>1. Alone!Stop /\ Alone!Granted
      BY <1>1, <1>2, <2>1, SeenUnchanged
      DEF Execution, ProcessWatched, Running, Alone!Stop, Alone!Granted, Alone!Running,
          Alone!ForgetNodes, W!ForgetNodes, Alone!FreshNode, W!FreshNode,
          Alone!UnbornProblem, W!UnbornProblem, Alone!NothingQueued, W!NothingQueued,
          Alone!Watchers, W!Watchers, Alone!Idle, W!Idle, Alone!world
    <3> QED BY <3>1 DEF Alone!OpenNext
  <2>2. CASE ~Running /\ process' = "running"
    <3>1. Alone!Restart
      BY <1>1, <1>2, <2>2, SeenUnchanged
      DEF Execution, memory, ProcessWatched, Running, Alone!Restart, Alone!Running,
          Alone!world, Alone!memory
    <3> QED BY <3>1 DEF Alone!OpenNext, Alone!Next
  <2>3. CASE Running <=> process' = "running"
    BY <1>1, <1>2, <2>3, SeenUnchanged
    DEF Execution, memory, ProcessWatched, Running, Alone!vars, Alone!world, Alone!memory
  <2> QED BY <2>1, <2>2, <2>3
<1>3. ASSUME NEW w \in Handlers, WriteStatus(w), ~UNCHANGED request
      PROVE  [Alone!OpenNext]_(Alone!vars)
  <2>1. UNCHANGED <<node, problem, refusals, memory, ProcessWatched>>
    <3>1. UNCHANGED process
      BY <1>3 DEF WriteStatus
    <3>2. UNCHANGED memory
      BY <3>1 DEF Execution, Running
    <3> QED BY <1>1, <3>1, <3>2, SeenUnchanged
  <2>2. PICK r \in Requests :
          /\ RequestsWatched[r].phase = "live" /\ ~RequestsWatched[r].complete
          /\ \/ UNCHANGED RequestsWatched
             \/ RequestsWatched' = [RequestsWatched EXCEPT ![r].complete = TRUE]
    BY <1>3, WriteSeen
  <2>3. CASE UNCHANGED RequestsWatched
    BY <2>1, <2>3 DEF memory, Alone!vars, Alone!world, Alone!memory
  <2>4. CASE RequestsWatched' = [RequestsWatched EXCEPT ![r].complete = TRUE]
    <3>1. Alone!Complete(r)
      BY <2>1, <2>2, <2>4 DEF memory, Alone!Complete, Alone!world, Alone!memory
    <3> QED BY <3>1 DEF Alone!OpenNext, Alone!Next
  <2> QED BY <2>2, <2>3, <2>4
<1>4. (\E w \in Handlers : WriteStatus(w)) \/ UNCHANGED request
  <2>1. ASSUME NEW w \in Handlers, Step(w), ~WriteStatus(w) PROVE UNCHANGED request
    BY <2>1 DEF Step, LookupRequest, HandleFencingJob, ChooseConfig, VisitConfig,
                EndVisit, ChooseMethod, CreateJob, Panic, server
  <2>2. (\E w \in Handlers : Step(w)) \/ UNCHANGED request
    BY DEF Execution, Execute, Operator, Handle, Inform, Load, SyncRequests, SyncJobs,
           SyncMaps, ObserveRequest, ObserveJob, ObserveMap, ParseConfigMap,
           TakeConfigMap, TakeRequest, TakeJob, Crash, Restart, ConcurrentMapAccess,
           Panic, EditConfigMap, StartPod, PodSucceeds, PodFails, RemoveJob, server
  <2> QED BY <2>1, <2>2
<1> QED BY <1>2, <1>3, <1>4

LEMMA RunningSeen == W!Running => Alone!Running
BY DEF W!Running, Alone!Running, ProcessWatched, Running

LEMMA NoticeSeen == ASSUME W!Notice PROVE Alone!Notice
<1>1. CASE W!SyncNodes
  BY <1>1, RunningSeen, SeenUnchanged
  DEF W!SyncNodes, Alone!SyncNodes, W!world, Alone!world, Alone!Notice
<1>2. CASE W!SyncProblems
  BY <1>2, RunningSeen, SeenUnchanged
  DEF W!SyncProblems, Alone!SyncProblems, W!world, Alone!world, Alone!Notice
<1>3. ASSUME NEW n \in Nodes, W!ObserveNode(n) PROVE Alone!Notice
  BY <1>3, RunningSeen, SeenUnchanged
  DEF W!ObserveNode, Alone!ObserveNode, W!world, Alone!world, W!InTouch, Alone!InTouch,
      Alone!Notice
<1>4. ASSUME NEW p \in Problems, W!ObserveProblem(p) PROVE Alone!Notice
  BY <1>4, RunningSeen, SeenUnchanged
  DEF W!ObserveProblem, Alone!ObserveProblem, W!world, Alone!world, Alone!Notice
<1> QED BY <1>1, <1>2, <1>3, <1>4 DEF W!Notice

LEMMA TakeSeen ==
  /\ \A n \in Nodes : W!TakeNode(n) => Alone!TakeNode(n)
  /\ \A p \in Problems : W!TakeProblem(p) => Alone!TakeProblem(p)
<1>1. ASSUME NEW n \in Nodes, W!TakeNode(n) PROVE Alone!TakeNode(n)
  BY <1>1, RunningSeen, SeenUnchanged
  DEF W!TakeNode, Alone!TakeNode, W!Lost, Alone!Lost, W!isNodeDirty, Alone!isNodeDirty,
      W!Act, Alone!Act, W!Go, Alone!Go, W!Idle, Alone!Idle, W!world, Alone!world
<1>2. ASSUME NEW p \in Problems, W!TakeProblem(p) PROVE Alone!TakeProblem(p)
  BY <1>2, RunningSeen, SeenUnchanged
  DEF W!TakeProblem, Alone!TakeProblem, W!Serious, Alone!Serious,
      W!SupportedNodeProblemSources, Alone!SupportedNodeProblemSources, W!Act,
      Alone!Act, W!Go, Alone!Go, W!Idle, Alone!Idle, W!world, Alone!world
<1> QED BY <1>1, <1>2

LEMMA WorldSeen == ASSUME W!World PROVE Alone!World
<1>1. UNCHANGED W!Elsewhere => UNCHANGED Alone!Elsewhere
  BY SeenUnchanged DEF W!Elsewhere, Alone!Elsewhere, W!memory, Alone!memory
<1>2. ASSUME NEW n \in Nodes,
             \/ \E ready \in W!Readiness : W!ChangeReadiness(n, ready)
             \/ W!DeleteNode(n) \/ W!RegisterNode(n)
      PROVE  Alone!World
  BY <1>1, <1>2
  DEF W!ChangeReadiness, Alone!ChangeReadiness, W!DeleteNode, Alone!DeleteNode,
      W!RegisterNode, Alone!RegisterNode, W!Readiness, Alone!Readiness, Alone!World
<1>3. ASSUME NEW p \in Problems,
             \/ \E n \in Nodes, report \in Reports : W!ReportProblem(p, n, report)
             \/ W!ExpireProblem(p)
      PROVE  Alone!World
  BY <1>1, <1>3
  DEF W!ReportProblem, Alone!ReportProblem, W!ExpireProblem, Alone!ExpireProblem, Alone!World
<1> QED BY <1>2, <1>3 DEF W!World

LEMMA ListSeen ==
  ASSUME Typed, NEW w \in W!Watchers, W!GetNode(w) \/ W!ListRequests(w)
  PROVE  Alone!GetNode(w) \/ Alone!ListRequests(w)
<1>1. CASE W!GetNode(w)
  BY <1>1, RunningSeen, SeenUnchanged
  DEF W!GetNode, Alone!GetNode, W!Granted, Alone!Granted, W!Refuse, Alone!Refuse, W!Act,
      Alone!Act, W!Rest, Alone!Rest, W!Go, Alone!Go, W!Idle, Alone!Idle, W!world,
      Alone!world
<1>2. CASE W!ListRequests(w)
  <2>1. \A n : W!Answers(n) = Alone!Answers(n)
    BY DEF W!Answers, Alone!Answers, W!Listed, Alone!Listed, RequestsWatched
  <2>2. \A found \in SUBSET Requests :
          /\ W!Schedule(w, found) => Alone!Schedule(w, found)
          /\ W!Cancel(w, found) => Alone!Cancel(w, found)
    BY DEF W!Schedule, Alone!Schedule, W!Cancel, Alone!Cancel, W!Act, Alone!Act, W!Rest,
           Alone!Rest, W!Go, Alone!Go, W!Idle, Alone!Idle, RequestsWatched
  <2>3. Alone!Answers(watcher[w].target) \subseteq SUBSET Requests
    BY DEF Alone!Answers, Alone!Listed
  <2> QED BY <1>2, <2>1, <2>2, <2>3, RunningSeen, SeenUnchanged
          DEF W!ListRequests, Alone!ListRequests, W!Granted, Alone!Granted, W!Refuse,
              Alone!Refuse, W!world, Alone!world
<1> QED BY <1>1, <1>2

LEMMA CreateSeen ==
  ASSUME Typed, NEW w \in W!Watchers, watcher[w].target \in Nodes, W!CreateRequest(w)
  PROVE  Alone!CreateRequest(w)
<1> DEFINE n == watcher[w].target
<1>1. {r \in Requests : request[r].phase = "unborn"}
        = {r \in Requests : RequestsWatched[r].phase = "unborn"}
  BY DEF RequestsWatched
<1>2. ASSUME NEW r \in Requests, request' = [request EXCEPT ![r] = W!NewRequest(r, n)]
      PROVE  RequestsWatched' = [RequestsWatched EXCEPT ![r] = Alone!NewRequest(r, n)]
  <2>1. request[r] \in RequestRecord /\ RequestsWatched[r] = Seen(request[r])
    BY RequestsSeen DEF Typed, TypeOK
  <2>2. Seen(W!NewRequest(r, n)) = Alone!NewRequest(r, n)
    <3>1. Seen([request[r] EXCEPT !.phase = "live", !.target = n])
            = [Seen(request[r]) EXCEPT !.phase = "live", !.target = n]
      BY <2>1, ChangesSeen, Zenon
    <3> QED BY <2>1, <3>1, Zenon DEF W!NewRequest, Alone!NewRequest
  <2> QED BY <1>2, <2>2, OneSeen
<1> QED BY <1>1, <1>2, RunningSeen, SeenUnchanged
        DEF W!CreateRequest, Alone!CreateRequest, W!Granted, Alone!Granted, W!Refuse,
            Alone!Refuse, W!Rest, Alone!Rest, W!Go, Alone!Go, W!Idle, Alone!Idle,
            W!world, Alone!world

LEMMA DeleteSeen ==
  ASSUME Typed, NEW w \in W!Watchers, NEW r \in Requests, W!DeleteRequest(w, r)
  PROVE  Alone!DeleteRequest(w, r)
<1>1. request[r] \in RequestRecord /\ RequestsWatched[r] = Seen(request[r])
  BY RequestsSeen DEF Typed, TypeOK
<1>2. RequestsWatched[r].phase = request[r].phase
  BY <1>1, SeenFields
<1>3. ASSUME request' = [request EXCEPT ![r].phase = "gone"]
      PROVE  RequestsWatched' = [RequestsWatched EXCEPT ![r].phase = "gone"]
  <2> DEFINE s == [request[r] EXCEPT !.phase = "gone"]
  <2>1. request' = [request EXCEPT ![r] = s] /\ Seen(s) = [RequestsWatched[r] EXCEPT !.phase = "gone"]
    BY <1>1, <1>3, ChangesSeen
  <2> HIDE DEF s
  <2> QED BY <2>1, OneSeen
<1> QED BY <1>2, <1>3, RunningSeen, SeenUnchanged
        DEF W!DeleteRequest, Alone!DeleteRequest, W!Granted, Alone!Granted, W!Refuse,
            Alone!Refuse, W!Rest, Alone!Rest, W!Go, Alone!Go, W!Idle, Alone!Idle,
            W!world, Alone!world

LEMMA StepIsWatchers ==
  ASSUME OperatorInv, CopiesAreOrdered, [OperatorNext]_operatorVars
  PROVE  [Alone!OpenNext]_(Alone!vars)
<1>1. CASE Execution(Execute)
  BY <1>1, ExecutionSeen DEF OperatorInv
<1>2. CASE Lookout(W!Watch)
  <2>1. ASSUME NEW w \in W!Watchers, W!Proceed(w) PROVE Alone!Watch
    <3>1. w \in Alone!Watchers
      BY DEF W!Watchers, Alone!Watchers
    <3>2. W!CreateRequest(w) => watcher[w].target \in Nodes
      BY DEF W!CreateRequest, OperatorInv, Reasons, WatchersActOnReason, ActsOnReason
    <3>3. Alone!Proceed(w)
      BY <2>1, <3>2, ListSeen, CreateSeen, DeleteSeen
      DEF W!Proceed, Alone!Proceed, OperatorInv
    <3> QED BY <3>1, <3>3 DEF Alone!Watch
  <2>2. Alone!Watch
    BY <1>2, <2>1, NoticeSeen, TakeSeen DEF Lookout, W!Watch, Alone!Watch
  <2> QED BY <2>2 DEF Alone!OpenNext, Alone!Next
<1>3. CASE Lookout(W!World)
  BY <1>3, WorldSeen DEF Lookout, Alone!OpenNext, Alone!Next
<1>4. CASE UNCHANGED operatorVars
  BY <1>4, SeenUnchanged
  DEF operatorVars, outside, memory, Alone!vars, Alone!world, Alone!memory
<1> QED BY <1>1, <1>2, <1>3, <1>4 DEF OperatorNext

LEMMA InitSeen == OperatorInit => Alone!Init
BY DEF OperatorInit, Init, NoRequests, UnbornRequest, RequestsWatched, ProcessWatched,
       Running, Alone!Init, Alone!UnbornRequest, W!InitWorld, Alone!InitWorld,
       W!StartWatching, Alone!StartWatching, W!FreshNode, Alone!FreshNode,
       W!UnbornProblem, Alone!UnbornProblem, W!NothingQueued, Alone!NothingQueued,
       W!Watchers, Alone!Watchers, W!Idle, Alone!Idle

(* To the watcher, the executioner is one that now and then completes a      *)
(* request or ends the process: the operator behaves as Watcher says too.    *)
THEOREM OperatorImplementsWatcher == OperatorSpec => ImplementsWatcher
<1> DEFINE I == OperatorInv /\ CopiesAreOrdered
<1>1. OperatorInit => I
  BY OperatorInvInit, InitOrdered DEF OperatorInit
<1>2. I /\ [OperatorNext]_operatorVars => I'
  BY OperatorInvNext, NextOrdered, StepIsExecutioners DEF OperatorInv, Reasons
<1>3. I /\ [OperatorNext]_operatorVars => [Alone!OpenNext]_(Alone!vars)
  BY StepIsWatchers
<1> QED BY <1>1, <1>2, <1>3, InitSeen, PTL
        DEF OperatorSpec, ImplementsWatcher, Alone!OpenSpec

Watching == INSTANCE WatcherProofs
              WITH request <- RequestsWatched, process <- ProcessWatched

LEMMA SameWatcher ==
  /\ Alone!Init <=> Watching!Init
  /\ Alone!OpenNext <=> Watching!OpenNext
  /\ Alone!vars = Watching!vars
<1>1. Alone!Init <=> Watching!Init
  BY DEF Alone!Init, Watching!Init, Alone!InitWorld, Watching!InitWorld,
         Alone!StartWatching, Watching!StartWatching, Alone!FreshNode,
         Watching!FreshNode, Alone!UnbornProblem, Watching!UnbornProblem,
         Alone!UnbornRequest, Watching!UnbornRequest, Alone!NothingQueued,
         Watching!NothingQueued, Alone!Watchers, Watching!Watchers, Alone!Idle,
         Watching!Idle
<1>2. Alone!OpenNext <=> Watching!OpenNext
  BY DEF Alone!OpenNext, Watching!OpenNext, Alone!Next, Watching!Next, Alone!Watch,
         Watching!Watch, Alone!World, Watching!World, Alone!Stop, Watching!Stop,
         Alone!Restart, Watching!Restart, Alone!Crash, Watching!Crash, Alone!Complete,
         Watching!Complete, Alone!Notice, Watching!Notice, Alone!TakeNode,
         Watching!TakeNode, Alone!TakeProblem, Watching!TakeProblem, Alone!Proceed,
         Watching!Proceed, Alone!SyncNodes, Watching!SyncNodes, Alone!SyncProblems,
         Watching!SyncProblems, Alone!ObserveNode, Watching!ObserveNode,
         Alone!ObserveProblem, Watching!ObserveProblem, Alone!GetNode,
         Watching!GetNode, Alone!ListRequests, Watching!ListRequests,
         Alone!CreateRequest, Watching!CreateRequest, Alone!DeleteRequest,
         Watching!DeleteRequest, Alone!ChangeReadiness, Watching!ChangeReadiness,
         Alone!DeleteNode, Watching!DeleteNode, Alone!RegisterNode,
         Watching!RegisterNode, Alone!ReportProblem, Watching!ReportProblem,
         Alone!ExpireProblem, Watching!ExpireProblem, Alone!Elsewhere,
         Watching!Elsewhere, Alone!ForgetNodes, Watching!ForgetNodes, Alone!Refuse,
         Watching!Refuse, Alone!Granted, Watching!Granted, Alone!Go, Watching!Go,
         Alone!Rest, Watching!Rest, Alone!Act, Watching!Act, Alone!Idle,
         Watching!Idle, Alone!Answers, Watching!Answers, Alone!Listed, Watching!Listed,
         Alone!Schedule, Watching!Schedule, Alone!Cancel, Watching!Cancel,
         Alone!NewRequest, Watching!NewRequest, Alone!Lost, Watching!Lost,
         Alone!InTouch, Watching!InTouch, Alone!Serious, Watching!Serious,
         Alone!SupportedNodeProblemSources, Watching!SupportedNodeProblemSources,
         Alone!isNodeDirty, Watching!isNodeDirty, Alone!Watchers, Watching!Watchers,
         Alone!Readiness, Watching!Readiness, Alone!FreshNode, Watching!FreshNode,
         Alone!UnbornProblem, Watching!UnbornProblem, Alone!NothingQueued,
         Watching!NothingQueued, Alone!Running, Watching!Running, Alone!world,
         Watching!world, Alone!memory, Watching!memory
<1>3. Alone!vars = Watching!vars
  BY DEF Alone!vars, Watching!vars, Alone!world, Watching!world, Alone!memory,
         Watching!memory
<1> QED BY <1>1, <1>2, <1>3

(* What is on record stays on record in the whole operator too: while the    *)
(* executioner fences and completes, and whenever one of its handlers takes  *)
(* the process down, a loss the Node worker is done with has a request.      *)
COROLLARY OperatorKeepsLosses == OperatorSpec => []W!LossIsOnRecord
<1>1. [Alone!OpenNext]_(Alone!vars) => [Watching!OpenNext]_(Watching!vars)
  BY SameWatcher DEF Alone!vars, Watching!vars, Alone!world, Watching!world, Alone!memory,
                     Watching!memory
<1>2. ImplementsWatcher => Watching!OpenSpec
  BY <1>1, SameWatcher, PTL DEF ImplementsWatcher, Alone!OpenSpec, Watching!OpenSpec
<1>3. Watching!LossIsOnRecord => W!LossIsOnRecord
  <2>1. \A n \in Nodes : W!Attended(n) => Watching!Attended(n)
    BY DEF Watching!Attended, W!Attended, Watching!Running, W!Running, ProcessWatched,
           Running
  <2>2. \A r \in Requests : /\ RequestsWatched[r].phase = request[r].phase
                           /\ RequestsWatched[r].target = request[r].target
    BY DEF RequestsWatched
  <2>3. \A n \in Nodes : Watching!OnRecord(n) => W!OnRecord(n)
    BY <2>2 DEF Watching!OnRecord, W!OnRecord
  <2> QED BY <2>1, <2>3 DEF Watching!LossIsOnRecord, W!LossIsOnRecord, Watching!Lost, W!Lost
<1>4. Watching!OpenSpec => []Watching!LossIsOnRecord
  <2>1. Watching!WatcherAssumption
    BY OperatorAssumption
    DEF W!WatcherAssumption, W!Readiness, W!Components, W!Calls, Watching!WatcherAssumption,
        Watching!Readiness, Watching!Components, Watching!Calls
  <2> QED BY <2>1, Watching!OpenLossStays, PTL
<1> QED BY <1>2, <1>3, <1>4, OperatorImplementsWatcher, PTL
=============================================================================
