-------------------------- MODULE FencingOperator --------------------------
(***************************************************************************)
(* The whole operator, started in mode "all" (cmd/fencing-operator): the   *)
(* watcher and the executioner run in one process and meet in the          *)
(* FencingRequests of the API server.  The watcher takes the place of      *)
(* whoever creates and withdraws requests in Executioner; what ends the    *)
(* process, a panic of a handler included, takes the watcher's memory too. *)
(***************************************************************************)
EXTENDS Executioner

CONSTANTS Problems, Changes, Reports, DirtyNodes, Refusable, MaxRefusals, MaxLosses

VARIABLES node, problem, seenNode, seenProblem, watchQueue, watching, watcher,
          refusals

W == INSTANCE Watcher

ASSUME OperatorAssumption == W!WatcherAssumption

outside      == <<node, problem, refusals>>
memory       == <<seenNode, seenProblem, watchQueue, watching, watcher>>
execute      == <<job, configmap, fencingConfigs, seenRequest, seenJob, seenMap,
                  queue, synced, worker, loader, faults>>
operatorVars == <<request, process, outside, memory, execute>>

OperatorInit == Init /\ W!InitWorld /\ W!StartWatching

(* A step of the executioner, as the watcher sees it, and the reverse. *)
Execution(A) ==
  /\ A
  /\ IF Running /\ process' # "running" THEN W!ForgetNodes ELSE UNCHANGED memory
  /\ UNCHANGED outside

Lookout(A) == A /\ UNCHANGED execute

(* All that Executioner has, but for Submit and Withdraw. *)
Execute ==
  \/ Operator
  \/ \E c \in ConfigMaps, data \in Edits : EditConfigMap(c, data)
  \/ \E j \in Jobs : StartPod(j) \/ PodSucceeds(j) \/ PodFails(j) \/ RemoveJob(j)

OperatorNext == Execution(Execute) \/ Lookout(W!Watch) \/ Lookout(W!World)

OperatorSpec == OperatorInit /\ [][OperatorNext]_operatorVars

(* Both halves' fairness; Crash and Restart are the executioner's. *)
OperatorFairness ==
  /\ WF_operatorVars(Execution(Restart))
  /\ WF_operatorVars(Execution(SyncRequests)) /\ WF_operatorVars(Execution(SyncMaps))
  /\ \A r \in Requests : /\ WF_operatorVars(Execution(ObserveRequest(r)))
                         /\ SF_operatorVars(Execution(TakeRequest(r)))
  /\ \A c \in ConfigMaps : /\ WF_operatorVars(Execution(ObserveMap(c)))
                           /\ SF_operatorVars(Execution(TakeConfigMap(c)))
  /\ WF_operatorVars(Execution(ParseConfigMap))
  /\ \A w \in Handlers : WF_operatorVars(Execution(Step(w)))
  /\ WF_operatorVars(Lookout(W!SyncNodes))
  /\ \A n \in Nodes : /\ WF_operatorVars(Lookout(W!ObserveNode(n)))
                      /\ SF_operatorVars(Lookout(W!TakeNode(n)))
  /\ \A w \in W!Watchers : WF_operatorVars(Lookout(W!Proceed(w)))

FairOperatorSpec == OperatorSpec /\ OperatorFairness

-----------------------------------------------------------------------------
(* Properties.                                                             *)

(* With the watcher in the place of whoever asked for fencing, the operator *)
(* still behaves as Executioner says, and so has all that was shown of it   *)
(* (CreateFencingRequest, CancelFencingRequests).                           *)
ImplementsExecutioner == Spec

(* The other way round, the executioner is to the watcher one that now and  *)
(* then completes a request, or ends the process: what was shown of the     *)
(* watcher alone holds here as well (HandleNode, HandleEvent).              *)
RequestsWatched ==
  [r \in Requests |-> [phase |-> request[r].phase, target |-> request[r].target,
                       complete |-> request[r].complete]]

ProcessWatched == IF Running THEN "running" ELSE "killed"

Alone == INSTANCE Watcher WITH request <- RequestsWatched, process <- ProcessWatched

ImplementsWatcher == Alone!OpenSpec

(* Someone had a reason to fence this node: it was out of touch at some     *)
(* time, or a serious problem was reported of it.                           *)
Suspect(n) ==
  \/ node[n].losses > 0
  \/ \E p \in Problems : /\ problem[p].phase # "unborn" /\ problem[p].host = n
                         /\ problem[p].type = "Warning"
                         /\ problem[p].component = "kernel"

(* No node is fenced without reason, whatever was stale, lost, repeated or  *)
(* restarted between the report and the Job (HandleNode, HandleEvent,       *)
(* createFencingJob).                                                       *)
OnlySuspectsAreFenced ==
  \A j \in Jobs : job[j].phase # "unborn" => Suspect(request[job[j].owner].target)

(* From the kubelet's silence to the Job: a node that is lost and stays     *)
(* lost has a Job, or a request that was given up (all handlers together).  *)
LossIsActedOn ==
  \A n \in Nodes :
    <>[]W!Lost(node[n])
      => <>(\E r \in Requests : request[r].target = n /\ Handled(r))
=============================================================================
