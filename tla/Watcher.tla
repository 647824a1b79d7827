------------------------------ MODULE Watcher ------------------------------
(***************************************************************************)
(* The watcher half of the operator (pkg/stub/handler.go): two informers   *)
(* deliver Nodes and Events to one worker each.  A node that stops         *)
(* reporting, and a problem that the node problem detector reports of one, *)
(* ask for fencing: a FencingRequest is created.  A node that reports      *)
(* again, or is deleted, cancels the requests there are for it.            *)
(*                                                                         *)
(* A handler is cut into one action per call that leaves the process, so   *)
(* that nodes, events, the other worker and the executioner may act        *)
(* between any two of them.  The variables request and process are shared  *)
(* with the executioner; FencingOperator puts the two together.            *)
(***************************************************************************)
EXTENDS Integers

CONSTANTS
  Nodes,          \* names of the Node objects
  Requests,       \* names of the FencingRequests that may come to exist
  Problems,       \* names of the Event objects that may come to exist
  Changes,        \* what may become of a node: a readiness, or a deletion
  Reports,        \* what an Event may say: its type and source component
  DirtyNodes,     \* nodes whose pods claim persistent volumes
  AnyAnswer,      \* may listFencingRequests come back with what it asks for?
  Refusable,      \* the kinds of call that may fail, and "crash"
  MaxRefusals,    \* bound: such failures in a behaviour
  MaxLosses,      \* bound: how often a node stops reporting
  None

Calls == {"getNode", "createRequest", "deleteRequest"}

Components == {"kernel", "kubelet"}  \* a supported source, and another

Readiness == {"True", "False", "Unknown"}

ASSUME WatcherAssumption ==
  /\ None \notin Nodes \cup Requests \cup Problems
  /\ Changes \subseteq Readiness \cup {"deleted"}
  /\ Reports \subseteq [type : {"Normal", "Warning"}, component : Components]
  /\ DirtyNodes \subseteq Nodes
  /\ AnyAnswer \in BOOLEAN
  /\ Refusable \subseteq Calls \cup {"crash"}
  /\ MaxRefusals \in Nat /\ MaxLosses \in Nat

VARIABLES
  node,         \* API server: the Nodes with their condition Ready
  problem,      \* API server: the Events
  request,      \* API server: the FencingRequests
  seenNode,     \* the Node informer's copy of the objects
  seenProblem,  \* the Event informer's copy
  watchQueue,   \* each informer's work queue
  watching,     \* the informers whose first list has arrived
  watcher,      \* the Node worker and the Event worker
  process,      \* is the operator running?
  refusals      \* how many calls failed

world  == <<node, problem>>
memory == <<seenNode, seenProblem, watchQueue, watching, watcher>>
vars   == <<world, request, memory, process, refusals>>

-----------------------------------------------------------------------------
(* Objects.                                                                *)

Phases == {"unborn", "live", "gone"}

NodeRecord ==
  [live : BOOLEAN, ready : Readiness, losses : 0 .. MaxLosses]

ProblemRecord ==
  [phase : Phases, host : Nodes \cup {None}, type : {"Normal", "Warning"},
   component : Components]

FreshNode     == [live |-> TRUE, ready |-> "True", losses |-> 0]
UnbornProblem == [phase |-> "unborn", host |-> None, type |-> "Normal",
                  component |-> "kubelet"]
UnbornRequest == [phase |-> "unborn", target |-> None, complete |-> FALSE]

(* The kubelet reports; or the node controller has not heard of it. *)
InTouch(n) == n.live /\ n.ready # "Unknown"

(* Slip: a node that says it is not ready counts as lost. *)
LostWhenNotReady(n) == n.live /\ n.ready # "True"

Lost(n) == n.live /\ n.ready = "Unknown"

SupportedNodeProblemSources == {"kernel"}

(* Slip: what counts is who reports, not how serious it is. *)
SeriousWhenNormal(p) ==
  p.type = "Normal" /\ p.component \in SupportedNodeProblemSources

Serious(p) == p.type = "Warning" /\ p.component \in SupportedNodeProblemSources

-----------------------------------------------------------------------------
(* The process: workers, informers, crash and restart.                     *)

Watchers == {"Node", "Event"}

(* A worker acts for the node target: it creates a request or cancels those *)
(* there are (purpose), and still has some of them to delete (todo).        *)
WatcherRecord ==
  [pc : {"idle", "getNode", "list", "create", "delete"},
   target : Nodes \cup {None}, purpose : {"create", "cancel"},
   todo : SUBSET Requests]

Idle == [pc |-> "idle", target |-> None, purpose |-> "create", todo |-> {}]

Running == process = "running"

NothingQueued == [Node |-> {}, Event |-> {}]

StartWatching ==
  /\ seenNode = [n \in Nodes |-> FreshNode]
  /\ seenProblem = [p \in Problems |-> UnbornProblem]
  /\ watchQueue = NothingQueued /\ watching = {}
  /\ watcher = [w \in Watchers |-> Idle]

InitWorld ==
  /\ node = [n \in Nodes |-> FreshNode]
  /\ problem = [p \in Problems |-> UnbornProblem]
  /\ refusals = 0

Init ==
  /\ InitWorld /\ StartWatching
  /\ request = [r \in Requests |-> UnbornRequest]
  /\ process = "running"

ForgetNodes ==
  /\ seenNode' = [n \in Nodes |-> FreshNode]
  /\ seenProblem' = [p \in Problems |-> UnbornProblem]
  /\ watchQueue' = NothingQueued /\ watching' = {}
  /\ watcher' = [w \in Watchers |-> Idle]

Refuse(call) == call \in Refusable /\ refusals < MaxRefusals /\ refusals' = refusals + 1
Granted      == UNCHANGED refusals

Go(w, k) == watcher' = [watcher EXCEPT ![w] = k]
Rest(w)  == Go(w, Idle)

Act(w, pc, n, purpose) ==
  Go(w, [Idle EXCEPT !.pc = pc, !.target = n, !.purpose = purpose])

SyncNodes ==
  /\ Running /\ "Node" \notin watching
  /\ watching' = watching \cup {"Node"}
  /\ seenNode' = node
  /\ watchQueue' = [watchQueue EXCEPT !.Node = {n \in Nodes : node[n].live}]
  /\ UNCHANGED <<world, request, seenProblem, watcher, process, refusals>>

SyncProblems ==
  /\ Running /\ "Event" \notin watching
  /\ watching' = watching \cup {"Event"}
  /\ seenProblem' = problem
  /\ watchQueue' = [watchQueue EXCEPT
                      !.Event = {p \in Problems : problem[p].phase = "live"}]
  /\ UNCHANGED <<world, request, seenNode, watcher, process, refusals>>

(* A change arrives; or a heartbeat, which changes nothing but its time. *)
ObserveNode(n) ==
  /\ Running /\ "Node" \in watching
  /\ seenNode[n] # node[n] \/ InTouch(node[n])
  /\ seenNode' = [seenNode EXCEPT ![n] = node[n]]
  /\ watchQueue' = [watchQueue EXCEPT !.Node = @ \cup {n}]
  /\ UNCHANGED <<world, request, seenProblem, watching, watcher, process, refusals>>

ObserveProblem(p) ==
  /\ Running /\ "Event" \in watching /\ seenProblem[p] # problem[p]
  /\ seenProblem' = [seenProblem EXCEPT ![p] = problem[p]]
  /\ watchQueue' = [watchQueue EXCEPT !.Event = @ \cup {p}]
  /\ UNCHANGED <<world, request, seenNode, watching, watcher, process, refusals>>

-----------------------------------------------------------------------------
(* HandleNode.                                                             *)

(* Slip: the line "TODO: For debugging only" is gone. *)
isNodeDirtyForClaims(n) == n \in DirtyNodes

(* A lost node is fenced whether or not its pods hold volumes. *)
isNodeDirty(n) == n \in DirtyNodes \/ TRUE

(* A deleted node, and one whose condition Ready is true or false, cancels. *)
TakeNode(n) ==
  /\ Running /\ n \in watchQueue.Node /\ watcher["Node"].pc = "idle"
  /\ watchQueue' = [watchQueue EXCEPT !.Node = @ \ {n}]
  /\ \/ /\ Lost(seenNode[n])
        /\ IF isNodeDirty(n)
           THEN Act("Node", "list", n, "create") ELSE UNCHANGED watcher
     \/ /\ ~Lost(seenNode[n])
        /\ Act("Node", "list", n, "cancel")
  /\ UNCHANGED <<world, request, seenNode, seenProblem, watching, process, refusals>>

(* HandleEvent, which does not care whether the Event is gone. *)
TakeProblem(p) ==
  /\ Running /\ p \in watchQueue.Event /\ watcher["Event"].pc = "idle"
  /\ watchQueue' = [watchQueue EXCEPT !.Event = @ \ {p}]
  /\ IF Serious(seenProblem[p])
     THEN Act("Event", "getNode", seenProblem[p].host, "create")
     ELSE UNCHANGED watcher
  /\ UNCHANGED <<world, request, seenNode, seenProblem, watching, process, refusals>>

GetNode(w) ==
  LET n == watcher[w].target
  IN /\ Running /\ watcher[w].pc = "getNode"
     /\ \/ node[n].live /\ Granted /\ Act(w, "list", n, "create")
        \/ /\ IF node[n].live THEN Refuse("getNode") ELSE Granted
           /\ Rest(w)
     /\ UNCHANGED <<world, request, seenNode, seenProblem, watchQueue, watching,
                    process>>

-----------------------------------------------------------------------------
(* CreateFencingRequest and CancelFencingRequests, which begin with         *)
(* listFencingRequests and take a failed list for an empty one.             *)

(* The list is empty, or an error that nobody looks at, as long as it asks  *)
(* in the namespace "--all-namespaces" for a field that the API server does *)
(* not select by.  With AnyAnswer it may also find the requests there are:  *)
(* then what stands behind the list is checked whatever it answers.         *)
Listed(n) == {r \in Requests : request[r].phase = "live" /\ request[r].target = n}

Answers(n) == {{}} \cup (IF AnyAnswer THEN {Listed(n)} ELSE {})

(* Only a complete request keeps another from being created. *)
Schedule(w, found) ==
  IF \E r \in found : request[r].complete
  THEN Rest(w) ELSE Act(w, "create", watcher[w].target, "create")

Cancel(w, found) ==
  IF found = {}
  THEN Rest(w) ELSE Go(w, [watcher[w] EXCEPT !.pc = "delete", !.todo = found])

ListRequests(w) ==
  /\ Running /\ watcher[w].pc = "list"
  /\ \E found \in Answers(watcher[w].target) :
       \/ watcher[w].purpose = "cancel" /\ Cancel(w, found)
       \/ watcher[w].purpose = "create" /\ Schedule(w, found)
  /\ UNCHANGED <<world, request, seenNode, seenProblem, watchQueue, watching,
                 process, refusals>>

(* Slip: the request names no target. *)
NewRequestUntargeted(r, n) == [request[r] EXCEPT !.phase = "live"]

(* newFencingRequest; the pods it lists for the record are left out.        *)
NewRequest(r, n) == [request[r] EXCEPT !.phase = "live", !.target = n]

(* The name is the API server's choice (GenerateName).  One try only: the   *)
(* backoff loop ends at the first error.                                    *)
CreateRequest(w) ==
  LET unborn == {r \in Requests : request[r].phase = "unborn"}
  IN /\ Running /\ watcher[w].pc = "create"
     /\ \/ \E r \in unborn :
             /\ request' = [request EXCEPT ![r] = NewRequest(r, watcher[w].target)]
             /\ Granted
        \/ /\ IF unborn = {} THEN Granted ELSE Refuse("createRequest")
           /\ UNCHANGED request
     /\ Rest(w)
     /\ UNCHANGED <<world, seenNode, seenProblem, watchQueue, watching, process>>

DeleteRequest(w, r) ==
  LET left == watcher[w].todo \ {r}
  IN /\ Running /\ watcher[w].pc = "delete" /\ r \in watcher[w].todo
     /\ \/ /\ request[r].phase = "live" /\ Granted
           /\ request' = [request EXCEPT ![r].phase = "gone"]
        \/ /\ IF request[r].phase = "live" THEN Refuse("deleteRequest") ELSE Granted
           /\ UNCHANGED request
     /\ IF left = {} THEN Rest(w) ELSE Go(w, [watcher[w] EXCEPT !.todo = left])
     /\ UNCHANGED <<world, seenNode, seenProblem, watchQueue, watching, process>>

-----------------------------------------------------------------------------
(* The nodes, and what is reported of them.                                *)

Elsewhere == <<request, memory, process, refusals>>

(* The kubelet reports another readiness, or the node controller has not    *)
(* heard of it for too long (Unknown).                                      *)
ChangeReadiness(n, ready) ==
  /\ ready \in Changes
  /\ node[n].live /\ node[n].ready # ready
  /\ ready = "Unknown" => node[n].losses < MaxLosses
  /\ node' = [node EXCEPT ![n].ready = ready,
                          ![n].losses = IF ready = "Unknown" THEN @ + 1 ELSE @]
  /\ UNCHANGED <<problem, Elsewhere>>

DeleteNode(n) ==
  /\ "deleted" \in Changes /\ node[n].live
  /\ node' = [node EXCEPT ![n].live = FALSE]
  /\ UNCHANGED <<problem, Elsewhere>>

RegisterNode(n) ==
  /\ ~node[n].live
  /\ node' = [node EXCEPT ![n].live = TRUE, ![n].ready = "True"]
  /\ UNCHANGED <<problem, Elsewhere>>

ReportProblem(p, n, report) ==
  /\ problem[p].phase = "unborn"
  /\ problem' = [problem EXCEPT
        ![p] = [phase |-> "live", host |-> n, type |-> report.type,
                component |-> report.component]]
  /\ UNCHANGED <<node, Elsewhere>>

(* An Event is kept for an hour. *)
ExpireProblem(p) ==
  /\ problem[p].phase = "live"
  /\ problem' = [problem EXCEPT ![p].phase = "gone"]
  /\ UNCHANGED <<node, Elsewhere>>

-----------------------------------------------------------------------------

Notice ==
  \/ SyncNodes \/ SyncProblems
  \/ \E n \in Nodes : ObserveNode(n)
  \/ \E p \in Problems : ObserveProblem(p)

(* A handler that is under way goes on. *)
Proceed(w) ==
  \/ GetNode(w) \/ ListRequests(w) \/ CreateRequest(w)
  \/ \E r \in Requests : DeleteRequest(w, r)

Watch ==
  \/ Notice
  \/ \E n \in Nodes : TakeNode(n)
  \/ \E p \in Problems : TakeProblem(p)
  \/ \E w \in Watchers : Proceed(w)

World ==
  \/ \E n \in Nodes : \/ \E ready \in Readiness : ChangeReadiness(n, ready)
                      \/ DeleteNode(n) \/ RegisterNode(n)
  \/ \E p \in Problems :
       \/ \E n \in Nodes, report \in Reports : ReportProblem(p, n, report)
       \/ ExpireProblem(p)

(* What the watcher meets when it is modelled alone: the executioner        *)
(* completes a request, the process ends and is started again.              *)
Complete(r) ==
  /\ request[r].phase = "live" /\ ~request[r].complete
  /\ request' = [request EXCEPT ![r].complete = TRUE]
  /\ UNCHANGED <<world, memory, process, refusals>>

Stop ==
  /\ Running /\ process' = "killed"
  /\ ForgetNodes /\ UNCHANGED <<world, request>>

Crash == Refuse("crash") /\ Stop

Restart ==
  /\ ~Running
  /\ process' = "running"
  /\ UNCHANGED <<world, request, memory, refusals>>

Next == Watch \/ World \/ Crash \/ Restart \/ \E r \in Requests : Complete(r)

Spec == Init /\ [][Next]_vars

(* As a part of a process that others end whenever they like. *)
OpenNext == Next \/ (Stop /\ Granted)

OpenSpec == Init /\ [][OpenNext]_vars

(* The workers are scheduled, the informers deliver, the Deployment         *)
(* restarts the operator; strong where the worker may be busy with other    *)
(* keys of its first in, first out queue.  That the kubelet of a node in    *)
(* touch goes on reporting is the one assumption about the cluster.         *)
Fairness ==
  /\ WF_vars(Restart) /\ WF_vars(SyncNodes) /\ WF_vars(SyncProblems)
  /\ \A n \in Nodes : WF_vars(ObserveNode(n)) /\ SF_vars(TakeNode(n))
  /\ \A p \in Problems : WF_vars(ObserveProblem(p)) /\ SF_vars(TakeProblem(p))
  /\ \A w \in Watchers : WF_vars(Proceed(w))

FairSpec == Spec /\ Fairness

-----------------------------------------------------------------------------
(* Properties.                                                             *)

(* Every variable holds what the Go types and the API objects allow, and a  *)
(* handler that is under way has a node to act for.                         *)
TypeOK ==
  /\ node \in [Nodes -> NodeRecord] /\ seenNode \in [Nodes -> NodeRecord]
  /\ problem \in [Problems -> ProblemRecord]
  /\ seenProblem \in [Problems -> ProblemRecord]
  /\ request \in [Requests -> [phase : Phases, target : Nodes \cup {None},
                               complete : BOOLEAN]]
  /\ watchQueue \in [Node : SUBSET Nodes, Event : SUBSET Problems]
  /\ watching \subseteq Watchers
  /\ watcher \in [Watchers -> WatcherRecord]
  /\ process \in {"running", "killed"}
  /\ refusals \in 0 .. MaxRefusals

WatcherShape ==
  /\ \A w \in Watchers : /\ watcher[w].pc # "idle" => watcher[w].target \in Nodes
                         /\ watcher[w].pc = "delete" <=> watcher[w].todo # {}
  /\ \A r \in Requests : request[r].phase = "live" => request[r].target \in Nodes
  /\ \A p \in Problems : seenProblem[p].phase # "unborn" => seenProblem[p].host \in Nodes

WellFormed == TypeOK /\ WatcherShape

Open(r, n) == /\ request[r].phase = "live" /\ request[r].target = n
              /\ ~request[r].complete

OnRecord(n) ==
  \/ \E r \in Requests : request[r].phase = "live" /\ request[r].target = n
  \/ \A r \in Requests : request[r].phase # "unborn"   \* the bound is met

Attended(n) ==
  /\ Running /\ "Node" \in watching
  /\ seenNode[n] = node[n] /\ n \notin watchQueue.Node
  /\ watcher["Node"].target # n

(* A loss that the Node worker is done with is on record, whatever failed   *)
(* or was cancelled meanwhile, and the record stays while the node is lost: *)
(* no cancellation that was under way when the node was lost again takes it *)
(* away.  Unless its creation was refused (HandleNode, CreateFencingRequest *)
(* and CancelFencingRequests).                                              *)
LossIsOnRecord ==
  "createRequest" \notin Refusable =>
    \A n \in Nodes : Lost(node[n]) /\ Attended(n) => OnRecord(n)

(* A node that stays in touch ends up without open requests: those there    *)
(* are are cancelled, as is one that a worker was just about to create.     *)
(* Failed calls and crashes only delay it, because heartbeats repeat the    *)
(* event.  "A _failed_ node returning to a healthy state cancels any        *)
(* existing scheduled fencing actions" (types.go, HandleNode).              *)
RecoveredNodeIsCleared ==
  \A n \in Nodes :
    <>[]InTouch(node[n]) => <>[](\A r \in Requests : ~Open(r, n))

(* "Retry it as errors writing to the API server are common": a node that   *)
(* stays lost ends up with a request (HandleNode, CreateFencingRequest).    *)
LossGetsRequest ==
  \A n \in Nodes : <>[]Lost(node[n]) => <>OnRecord(n)

(* A serious problem reported of a node that exists leads to a request for  *)
(* it, or finds one, although its Event is delivered only once more after   *)
(* each crash (HandleEvent).                                                *)
Unattended(p) ==
  \/ ~Running \/ "Event" \notin watching
  \/ seenProblem[p] # problem[p] \/ p \in watchQueue.Event
  \/ watcher["Event"].pc # "idle"

ProblemIsActedOn ==
  "getNode" \notin Refusable =>
    \A p \in Problems, n \in Nodes :
      (/\ problem[p] = [phase |-> "live", host |-> n, type |-> "Warning",
                        component |-> "kernel"]
       /\ Unattended(p))
        ~> (OnRecord(n) \/ ~node[n].live \/ problem[p].phase = "gone")
=============================================================================
