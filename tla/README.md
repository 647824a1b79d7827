# Verification of the fencing operator

The fencing operator runs in a Kubernetes cluster. When a node is lost it
creates a `FencingRequest`; for each request it chooses a configuration and a
method and runs a Job that fences the node, and records in the request's status
what became of it. These modules model the operator from the kubelet's silence
to the fencing Job and the outcome in the request, together with the way the
text of a configuration becomes the command line of that Job; TLC checks them
and TLAPS proves their main properties. Paths are relative to the repository
root (`src/` here).

One remark on the commit: `newContainerFromConfig` tests a variable `subcfg`
that is declared nowhere (`pkg/apis/fencing/v1alpha1/mechanism.go:71`), so the
package does not build as it stands. The models read that line as the test of
its parameter `cfg`.

## The system

| Component | State it keeps | Operations | Correct when |
| --- | --- | --- | --- |
| **Executioner** `pkg/stub/fencing.go`, `request.go` | the request a handler holds, the map `fencingConfigs` | `HandleFencingRequest`, `HandleJob`, `HandleFencingJob`, `HandleFencingRequestError`, `AddResult`, `SetFinalResult`, `Update` | Complete means fenced; an outcome is final; requests are handled; methods escalate; handlers do not panic |
| **Configuration store** `fencing.go:30-122` | `fencingConfigs`, shared and unlocked | `HandleConfigMap` | the map follows the ConfigMaps |
| **Configuration parser** `pkg/config`, `mechanism.go:16-103` | none | `NewConfigFromString`, getters, `New*FromConfig` | what parses is what was written |
| **Selection** `fencing.go:203-278` | none | `chooseFencingConfig`, `chooseFencingMethod`, `isFencingMethodActive` | most specific matching configuration, next untried method |
| **Job building** `fencing.go:280-363`, `mechanism.go:105-216` | the configuration's own slices | `createFencingJob`, `CreateContainer` | each Job gets its own arguments and its target |
| **Watcher** `pkg/stub/handler.go` | none | `HandleNode`, `HandleEvent`, `CreateFencingRequest`, `CancelFencingRequests` | a lost node gets one request, a healthy one none |
| **Informers** vendored operator SDK | cache, work queue, `deletedObjects` | list, watch, one worker per kind, retry | every last state of an object reaches the handler |
| **API access** vendored SDK `action`, `query` | none | Create, Update, Delete, Get, List | errors reach the caller |
| **Leader election, process** `main.go`, `k8sutil.go:90-117` | the lease | `SingletonWith`, exit when the lease is lost | one leader |
| **CRD registration** `k8sutil.go:119-205` | none | `RegisterCRD`, `WaitCRDReady` | the CRD is there before it is watched |
| **Agent entry point** `cmd/agent-entrypoint.sh` | none | secrets to arguments or environment | every secret reaches the agent |
| types, generated deep copies, logging, manifests | | | no behaviour of their own |

How they interact:

* Five informers (Node, Event, ConfigMap, Job, FencingRequest; `main.go:78-97`)
  each feed one work queue and one worker goroutine. All workers call
  `Handler.Handle`, which always returns nil, so the SDK never retries an event.
* The watcher and the executioner share nothing in memory; they meet in the
  FencingRequest objects of the API server.
* Within the executioner the ConfigMap worker writes `fencingConfigs`, and the
  Job worker and the FencingRequest worker read it, without a lock.
* The Job worker reads the request from the API server, the FencingRequest
  worker has it from its informer's cache. Both write the same status. The
  server's resource version is the only thing that keeps them apart.
* A status write is itself an event of the request, and a new Job is an event
  of the Job informer: the operator's writes drive it on.

What is hard to test here: two workers on one request with copies of different
age; a configuration that changes between choice and use; the order in which
the informers' first lists arrive; a lost answer to a Job creation; a Job's
success that arrives after completion, withdrawal or restart; errors that are
dropped so that nothing ever repeats the step; panics that a restart repeats.
`PROJECT.json` lists each of them under "hazards" with its line.

## Modules

| Module | What it is |
| --- | --- |
| `RequestLifecycle` | the abstract promise about a request: submitted, updates appended, at most one final result, nothing after it |
| `Executioner` | executioner, configuration store, informers and API server as one state machine; its properties |
| `Watcher` | Node and Event workers, their informers, the nodes and what is reported of them |
| `FencingOperator` | the two composed, as the process runs them in mode "all" |
| `ConfigParser` | pkg/config and the constructors of a method, as operators over YAML values |
| `JobBuilding` | the workers that build Jobs from one parsed method |
| `MCExecutioner`, `MCWatcher`, `MCFencingOperator`, `MCJobBuilding` | values of the constants for TLC |
| `ExecutionerTyping` | type invariant, and what each worker's locals hold |
| `ExecutionerSafety` | safety of the executioner, from its inductive invariant |
| `RequestLifecycleProofs` | an outcome is final in the abstract specification |
| `ExecutionerOutcomes` | `Executioner` implements `RequestLifecycle`, and what follows; the history claims no more attempts than there are Jobs |
| `ExecutionerConfigs` | Jobs follow their configuration, the map is current, and what brings a handler down |
| `WatcherProofs` | types and `LossIsOnRecord` of the watcher |
| `FencingOperatorProofs` | the composition implements `Executioner` and `Watcher`; no node is fenced without reason |
| `JobBuildingProofs` | the parser gives back what was written, commands stay as they are, Jobs fence their targets |

### Executioner: state

| Variable | In the code |
| --- | --- |
| `request`, `job`, `configmap` | the objects in the API server; a request has a `version` that each status write raises, and what the JSON encoder loses (`ActiveMethod` and `ActiveJob` share a tag, `types.go:56-57`) is lost in `Encoded` |
| `seenRequest`, `seenJob`, `seenMap`, `queue`, `synced` | the informers: their copies (with the last copy of deleted objects), queued keys, whether the first list arrived |
| `fencingConfigs` | the map of the same name, entries parsed or nil |
| `worker` | for the FencingRequest and Job workers: where the handler is, the request it holds, and the locals that live across calls |
| `loader` | the ConfigMap worker, between clearing an entry and publishing the parsed one |
| `process`, `faults` | is the operator up; how many faults happened |

Data is abstracted to what the properties distinguish. A configuration is its
number of selector labels (what `chooseFencingConfig` compares), the set of
nodes its selector matches, and its sequence of method names. A container that
can be built for a node is a pair in `Buildable`. Messages are the
`FencingResult` values; time stamps, output and error texts are left out. All
Jobs have the one retry that `NewFencingMethodFromConfig` gives them.

### Executioner: actions

A handler is cut at each API call and at each access of the shared map, and
runs unbroken in between, so every interleaving that another actor can notice
is there.

| Action | Code |
| --- | --- |
| `Sync*`, `Observe*` | informer's first list, and add, update and delete events (`informer.go:75-123`) |
| `TakeConfigMap`, `ParseConfigMap` | `HandleConfigMap`: key check, deletion, clearing; then parse and publish |
| `ConcurrentMapAccess` | the runtime's fatal error when a write of the map (`fencing.go:84`, 90 or 114) meets a handler's read (217 or 225) |
| `TakeRequest` | event of a request: deleted and complete ones are left alone |
| `TakeJob`, `LookupRequest` (with `HandleFencingJob`) | `HandleJob`: getNode, list the request, judge the Job |
| `ChooseConfig`, `VisitConfig`, `EndVisit` | `chooseFencingConfig`: recorded configuration, one turn of the map iteration per step, in any order, and its end |
| `ChooseMethod` | `chooseFencingMethod`, `isFencingMethodActive`, `createFencingJob` |
| `CreateJob` | the creation: done, refused, or done with the answer lost |
| `WriteStatus` | `Update`: accepted, conflicting, too large, or failed |
| `Crash`, `Panic`, `Restart` | the process ends and is started again with empty memory |
| `Submit`, `Withdraw`, `EditConfigMap`, `StartPod`, `PodSucceeds`, `PodFails`, `RemoveJob` | everyone else: watcher, administrator, Job controller, garbage collector; at any time |

`AnyAnswer` is about `listFencingRequests` (`handler.go:210-230`), with which the
watcher looks for the requests of a node and `HandleJob` for the request of a
Job. It lists the namespace that is literally named `--all-namespaces`, of a
resource that has namespaces (`k8sutil.go:158`), and selects by the field
`target`, which the API server does not know of a custom resource
(`metadata.name` and `metadata.namespace` are all it knows). Either way the list
is empty or an error, and the callers go on with an empty list. That is FALSE,
the program as it is. With TRUE the list may, each time, also be what is asked
for, so that the behaviours of the program are among those that are checked, and
the code behind the list is checked as well, as it would run with the list
mended. Nothing but the answer depends on it.

| `AnyAnswer` | Runs |
| --- | --- |
| FALSE | `exec_view`, `exec_handled`, and all runs that end in a violation: none of their traces needs an answer that the program does not get |
| TRUE | `exec_faults`, `exec_storm`, `watcher`, `operator`: what they show holds whatever the list answers |

The proofs cover both values.

Operators marked "Slip" are the mistakes the properties are tried against (the
mutants of `PROJECT.json`); no action uses them.

### Watcher

| Variable | In the code |
| --- | --- |
| `node`, `problem`, `request` | Nodes (their condition Ready, and how often it became Unknown), Events, FencingRequests in the API server |
| `seenNode`, `seenProblem`, `watchQueue`, `watching` | the two informers, as above |
| `watcher` | the Node worker and the Event worker: where the handler is, its node, whether it creates or cancels, the requests still to delete |
| `refusals` | how many calls failed |

| Action | Code |
| --- | --- |
| `SyncNodes`, `SyncProblems`, `ObserveNode`, `ObserveProblem` | informers; a heartbeat, which changes only a time, is an event too |
| `TakeNode` | `HandleNode`: Ready Unknown creates, True, False or a deletion cancels (`isNodeDirty` ends in `return true`, so volumes do not matter) |
| `TakeProblem`, `GetNode` | `HandleEvent`: type and source, then `getNode` |
| `ListRequests`, `CreateRequest`, `DeleteRequest` | `CreateFencingRequest`, `CancelFencingRequests`, one API call each; a failed list is taken for an empty one, and the first error of a creation ends its retry loop |
| `ChangeReadiness`, `DeleteNode`, `RegisterNode`, `ReportProblem`, `ExpireProblem` | kubelet, node controller, administrator, node problem detector |
| `Complete`, `Crash`, `Restart` | the executioner and the process, when the watcher is modelled alone |

The check for an existing request is modelled as the code has it: only a
complete one that the list finds keeps a second from being created
(`handler.go:251`). So a node can have several open requests, which is not what
the comment says (`handler.go:248`).

### FencingOperator

Both halves share `request` and `process`. A step of the executioner
(`Execution`) leaves the watcher alone, except that one that ends the process
takes the watcher's memory too; a step of the watcher (`Lookout`) leaves the
executioner alone. `Submit` and `Withdraw` are gone: `CreateRequest` and
`DeleteRequest` are in their place, and `Watcher`'s own `Complete`, `Crash` and
`Restart` are the executioner's.

### ConfigParser and JobBuilding

A YAML value is a string, a list, a mapping, or something else (numbers,
booleans and nulls are told apart by no code that is called). Each getter is an
operator of the same name. The read locks of `config.go` are left out: nothing
ever writes a `Config`, so that `GetSubConfigArray` returns without releasing its
lock harms nobody.

In `JobBuilding` a method is written down, loaded, and built for any targets by
the `Workers`. The FencingRequest worker builds Jobs; the Job worker shares the
code, but does not get there, as `HandleJob`'s list never finds the request. So
TLC has one, and what holds for several is proved. `array` is the
memory behind each mechanism's `Container.Command`, of the capacity that
appending one string at a time leaves (1, 2, 4, ... up to 1024, where append
changes its rule); a slice is a length over it.
`Append1` is one `append`: in place if there is room, else into a copy. A string
is written whole; a torn one would only make the outcome worse. `Send` is where
the Job is encoded, so the arrays are read then. The order in which a Go map is
walked is any order. The methods written down have two mechanisms, one told in
its environment (with a variable and a secret of its own) and one on the command
line, with and without `passTargetAs` and with dynamic values that have a default
or none; some have two on the command line, in arrays with room, and one more has
an argument format that nobody knows.

## Properties

Executioner:

* `CompleteMeansFenced`: a Complete request had a Job of its own that ended with
  a success and no failure.
* `Lifecycle`: the status implements `RequestLifecycle`; `OutcomeIsFinal` is what
  that says about results and histories.
* `CopiesAreOrdered`: every copy of a request that still has the server's version
  has the server's status, and one about to be written adds one thing to it.
* `OnlyStaleHandlersFenceCompleted`: a Job is created for a complete request only
  by a handler whose copy is older than the completion. That it can be is real:
  the version check refuses the write, not the Job.
* `ProgressMeansJobs`: the history claims no more attempts than there are Jobs.
* `JobsFollowConfig`, `NoPanic`: with configurations that nobody edits, Jobs
  follow them and no handler panics, failing pods or not.
* `ViewIsCurrent`: what the loader is done with, the map holds as the informer
  has it, whatever was queued again, parsed late or lost in a crash meanwhile.
* `PanicsAreExplained`: with every edit, a handler panics only on a nil entry
  whose ConfigMap is gone, unusable or on its way through the loader (an entry
  that is loaded and usable is never nil), on a configuration without methods,
  on a caught map race, or on a failed Job's request, should the list find it.
* `ConfigViewConverges`: the map follows a ConfigMap that is left alone, as long
  as the operator stays up.
* `EveryRequestIsHandled`: a request that stays leads to a Job or a result.
* `TriesMethodsInOrder`, `StopsAtSuccess`: what a comment promises and the code
  does not do (below).

Watcher:

* `LossIsOnRecord`: a loss that the Node worker is done with has a request, and
  keeps it while the node is lost. It takes a cancellation that outlives the
  node's second loss to break it.
* `ProblemIsActedOn`: a serious problem of an existing node leads to a request,
  across crashes, while its Event lives.
* `RecoveredNodeIsCleared`, `LossGetsRequest`: what comments promise and the code
  does not do (below).

The whole:

* `ImplementsExecutioner`: the composition behaves as `Executioner` says, with
  the watcher as its environment.
* `ImplementsWatcher`: it behaves as `Watcher` says, with the executioner as its
  environment: to the watcher, the executioner completes requests that are open
  and at times ends the process (`OpenSpec`, `Watcher` in a process that others
  end whenever they like). A write that reopened a request would break it.
* `OnlySuspectsAreFenced`: a Job exists only for a node that was out of touch or
  had a serious problem reported. That a node is still lost when its Job is
  created is not promised: it may be back, with the cancellation under way.
* `LossIsActedOn`: a node that stays lost gets a Job or a final result.

Job building:

* `ParsedAsWritten`: what is parsed is what was written, pairs grouped as the
  getters want them (`GetMapOfStrings` reads the first list item only).
* `ConfigurationIsIntact`: no worker changes the configuration's own commands.
* `JobFencesItsTarget`: each container of a sent Job runs its command with the
  arguments or variables of that Job's target, next to each other and nothing
  else, and mounts only volumes the Job has.

## Runs

Common bounds: one request in the executioner, since a handler touches only its
own and requests meet only in the queue; one or two Jobs (two are needed for a
second Job beside the first, for a conflict and for the order of methods; a
quota that is used up is the refusal of `CreateJob`); one or two configurations;
two methods (one that is last, one that is not). `MaxUpdates` bounds the history,
as the API server's limit on an object's size does: the write that exceeds it is
refused, and one entry short of it is enough for a result after an attempt.
`MaxFaults`, `MaxRefusals` and `MaxLosses` bound faults, failed calls and losses
of a node; they may come anywhere. Job names are symmetric in `exec_storm`,
which checks no liveness. Deadlock is checked where a system may not stop
(`job_build`, whose worker always may start again) and not elsewhere: an
operator with empty queues and nothing left to do rests.

| Run | Bounds | Shows |
| --- | --- | --- |
| `exec_faults` | 1 Job, all nine kinds of fault, 2 faults | type invariant, `CompleteMeansFenced`, `CopiesAreOrdered`, `ProgressMeansJobs`, refinement, `OnlyStaleHandlersFenceCompleted` |
| `exec_storm` | 2 Jobs, a failing pod | the same about completion with several Jobs for one request |
| `exec_view` | 1 map, every edit, a crash or a map race | `ViewIsCurrent`, `PanicsAreExplained`, `ConfigViewConverges`, panics on nil entries and on empty method lists included |
| `exec_handled` | 1 Job, 2 maps of which one selects another node, any one fault, a failing pod included, but not a failing status write (below) nor a caught map race (`exec_view`) | `EveryRequestIsHandled`, `JobsFollowConfig`, `NoPanic` |
| `watcher` | 1 node lost once, 3 requests, 1 problem, every change of the node, lists with and without answer, one failed deletion or a crash (780,000 states) | `WellFormed`, `LossIsOnRecord`, `ProblemIsActedOn` |
| `operator` | 1 node, 1 request, 1 Job, a crash (570,000 states) | `ImplementsExecutioner`, `ImplementsWatcher`, `OnlySuspectsAreFenced`, `LossIsActedOn` |
| `job_build` | 1 worker, 2 targets, methods whose commands fill their arrays, and commands of 3 and 5 words in arrays of 4 and 8, so that arguments are appended in place and beyond the end | `ParsedAsWritten`, `ConfigurationIsIntact`, `JobFencesItsTarget` |

Why these are enough: the watcher's handlers touch one node each, so nodes meet
only in the queue; three requests let one be deleted, one complete and one be
created at the same time; one failure is enough to lose any one call, and the
property of a node is stated for each of its losses. `operator` has the fewest
objects that let the two halves meet, because the proofs of its three safety
properties cover the rest; the run is there for the liveness from loss to Job.
In `job_build` two targets make arguments of different Jobs distinguishable.

Five runs end in a violation, each of something a comment says:

| Run | Property | What happens |
| --- | --- | --- |
| `exec_bad_edit` | `NoPanic` | an invalid edit leaves a nil entry ("In case the new version is invalid", `fencing.go:90`); the next walk over the map dereferences it (226) |
| `exec_order` | `TriesMethodsInOrder` | "attempts sets in order until one succeeds" (`types.go:93`): the first method is run again for ever, `ActiveMethod` being never set |
| `exec_success` | `StopsAtSuccess` | the same sentence: `HandleJob`'s list (`fencing.go:68`, `handler.go:225`) never finds the request, so that a success is never recorded, and the next event starts the method again |
| `watch_cancel` | `RecoveredNodeIsCleared` | "A _failed_ node returning to a healthy state cancels any existing scheduled fencing actions" (`types.go:47`): the list of what is to be cancelled is always empty, because of its namespace (`handler.go:225`) and of its field selector (220), each of which would do |
| `watch_refused` | `LossGetsRequest` | "Retry it as errors writing to the API server are common" (`handler.go:269`): the condition returns the error, which ends the loop; one refused creation, and a node that stays lost has no request |

Their bounds are as small as the scenario allows, with no fault but the one it
needs, and with the list as the program has it.

More that a small change of a run's constants shows, or the definitions say:

* `exec_handled` with `"update"` among the faults violates
  `EveryRequestIsHandled`: the loop marked "Retry it" (`request.go:48`) ends at
  the first error here too, and a final result is lost.
* A node that is lost twice (`MaxLosses = 2`) gets a second request beside its
  open one, against "only create a new one if not found" (`handler.go:248`): the
  check is for complete requests (251), and the list is empty anyway.
* The design writes a mechanism's pairs with one list item per pair
  (`deploy/cr-design.yaml:22-25`, `types.go:174-180`); `GetMapOfStrings` returns
  after the first item (`config.go:127`), so that the agent gets one pair.
* `exec_handled` with the first method not `Buildable` for the node violates
  `EveryRequestIsHandled`: a method that cannot be built is never passed over.
* A request that is served before the ConfigMaps' first list arrives is finished
  with the result NoConfig, for good, although a configuration matches it
  (`fencing.go:77`, 152): nothing orders the informers at start-up.
* `job_build` with two workers violates `JobFencesItsTarget`: both append into the
  array of the same command. The program does not get there, because only the
  FencingRequest worker builds Jobs; it would if `HandleJob` found its request.

### Fairness

`FairSpec` and `FairOperatorSpec` assume weak fairness of each informer's list
and observation, of a handler that is under way and of the restart: goroutines
are scheduled, API calls return or fail, watches catch up, the Deployment
restarts its container. Taking a given key from a work queue is strongly fair:
the queue is first in, first out, so a key waits only for those before it,
although the worker is disabled for it again and again while it handles others.
Of the cluster one thing is assumed, in the watcher: a kubelet that is in touch
goes on reporting (`ObserveNode` stays enabled by heartbeats). Otherwise nothing:
pods need not start, nodes need not change, faults need not happen or stop
happening before their bound.

## Proofs

All for arbitrary constants under the assumptions `ContentsAssumption` (contents
are records and differ from the three markers), `NoneAssumption` (nil is no
name; in `JobBuilding`, no position), `BoundAssumption` (bounds are naturals,
faults are known ones), `WatcherAssumption` (the same for the watcher's constants)
and `DraftsAssumption` (the methods written down are values of the API's types,
with commands of at most `MaxWords` = 1024 words, up to which append doubles an
array).

1. `TypeCorrect` (`ExecutionerTyping`): `TypeOK` alone is not inductive; a step
   reads locals that are of the right kind only at its place in the handler. It
   is proved with `WorkerShape`: which locals are set at which place, that Jobs
   that exist have an owner, and that a Job's counters stay in range because a
   running Job has retries left.
2. `CopiesOrdered` (`ExecutionerSafety`): `CopiesAreOrdered` is inductive with
   that. The core is `WriteStatus`: an accepted write raises the version, so
   every other copy becomes an older one, of which nothing more is claimed.
3. `CompletionIsSound`: `CompleteMeansFenced` needs a chain of evidence,
   `CompletionIsBacked`. A Job that ended well never changes its counters again,
   so an informer's old copy of it is still true; a handler that is to look up
   the request holds such a copy of a Job of that very request; and one that is
   about to write Complete has had it. Job counters only move in one direction
   (`NextAdvances`), which keeps all three.
4. `CompletedIsLeftAlone`: a creating handler's copy is not complete and has at
   most the server's version; by `CopiesAreOrdered` it would be complete too if
   the versions were equal. `IInv` is the inductive invariant behind 1 to 4.
5. `ImplementsLifecycle` (`ExecutionerOutcomes`): an accepted write is
   `Record` or `Finish`, by `Successor`; every other step leaves the status alone
   or is `Submit` or `Withdraw`.
6. `OutcomeFinal`, and from it with 5 `OutcomeStaysFinal`: results and histories
   are final once complete.
7. `AttemptsAreBacked` (`ExecutionerOutcomes`): `ProgressMeansJobs` with, for each
   handler whose write would still be accepted, the same bound on what it is
   about to claim (`ClaimsBacked`). An accepted write outdates every other copy,
   and a claim enters a handler's copy in the step that adds a Job; Jobs are
   never forgotten, so their number only grows. That only finitely many were
   made so far is part of the invariant; the set of names may be infinite.
8. `JobsFollowTheirConfig` (`ExecutionerConfigs`), for `Edits = {}`: each ConfigMap
   is read once in the life of a process, so an entry of the map is never
   cleared and always what was written (`MapsAreLoadedOnce`); what a copy of a
   request records, or a handler has chosen, selects the copy's target
   (`RequestsFit`, `WorkersFit`); and no copy names another target than its
   request (`CopiesKeepTarget`), so what the handler that creates a Job knows is
   true of the Job's owner (`JobsFit`).
9. `ViewStaysCurrent` (`ExecutionerConfigs`), with any edits: `ViewIsCurrent` is
   inductive once three facts are added (`ViewInv`): the loader works on what the
   informer has now, unless the key is queued again (`LoaderFollows`); the entry
   of a ConfigMap on its way through the loader has been cleared; and before the
   first list there are neither copies nor entries. `OnlyThesePanics` is proved
   from it, over every place where a handler can panic: a nil entry is one that is
   under way or whose ConfigMap has no usable content, by `ViewIsCurrent`; a
   configuration chosen without methods was stored so (`MethodsForgotten`: no
   request in the server or in a handler names an active method, so that the
   first method is always a candidate); and a handler gets to a failed Job's
   request only if the list may find it. It says nothing of how often these
   happen: `NoPanic` without edits is checked in `exec_handled`, for the program
   as it is.
10. `WatcherWellFormed` and `LossStaysOnRecord` (`WatcherProofs`): the latter rests
   on `RecordInv`. The Node worker creates only for a node it saw lost
   (`WorkersKeepTheirPurpose`); a cancellation that is under way while the node
   is lost again has the new loss still queued or unseen
   (`LateCancelIsFollowedUp`); the informer's copy only lags behind, by the count
   of losses (`CopiesLag`); an operator that is down, or has no list yet, attends
   to nothing (`StoppedWatchesNothing`); and with these a loss that is attended
   to stays on record (`LossKept`). Both are proved for `OpenSpec`, of which `Spec`
   is a case (`OpenCovers`).
11. `OperatorImplementsExecutioner` (`FencingOperatorProofs`): by `NextFollows`
   every step of the composition is one of `Executioner` or a stutter:
   `CreateRequest` is `Submit`, an accepted `DeleteRequest` is `Withdraw`. With it
   all of 1 to 9 hold of the whole: `OperatorCompletesSoundly` writes down 3 to 7,
   `OperatorFollowsItsConfig` 8, under the hypothesis it has there, and
   `OperatorViewAndPanics` 9.
12. `FencedOnReason`: `OnlySuspectsAreFenced` from `OperatorInv`, a chain from the
   report to the Job: what the informers saw is true or was (`ReportsAreTrue`,
   losses are counted and never forgotten), a worker that creates had a reason
   (`WatchersActOnReason`), so every request names a suspect
   (`RequestsNameSuspects`), and every copy of a request, down to the handler
   that creates the Job, keeps its target (`CopiesKeepTarget` again).
13. `OperatorImplementsWatcher`: with requests seen as the watcher knows them
   (phase, target, completion), by `StepIsWatchers` every step of the composition
   is one of `OpenSpec` or a stutter. An accepted write is `Complete` or changes
   nothing the watcher sees, by `CopiesAreOrdered` (the request was open) and
   `CopiesKeepTarget`; a panic, a crash and a map race are `Stop`. With it
   `OperatorKeepsLosses`: 10's `LossIsOnRecord` holds of the whole.
14. `ParsedBack` (`JobBuildingProofs`): `ParsedAsWritten` for methods of any size.
   The getters are folds over lists and mappings, and `FlattenSeq` is recursive;
   TLAPS has no induction over data, so each is compared with its closed form
   (pairs grouped in any order come back, whatever the order) at the first place
   where the two would differ, which exists because the naturals are well-founded
   (`LeastNat`) and is then shown not to.
15. `CommandsStay`: `ConfigurationIsIntact` from `IntactInv`. It says of every
   worker, at each point between two appends, that the slice it appends to is
   either the command as written or longer, so that an append in place writes
   behind the command, whoever wrote there last. The length of a slice never
   exceeds its array; the capacity that `NewArray` leaves is at least the
   command's length, which is where `MaxWords` is used.
16. `JobsFenceTheirTargets`: `JobFencesItsTarget`, if one worker builds Jobs
   (`OneBuilder`, as in this program), or if `FillTheirArrays` holds of the
   methods: the array behind a command that is given arguments has no room left.
   What each worker has built so far is the written container with the part of
   the arguments it has got to (`JobInv`, `Faithful`), each in an array of its own
   or in that of its mechanism. With full arrays the first append copies, and
   nothing is ever written into the configuration's (`Pristine`,
   `FilledHasNoRoom`, `MovedJobs`). With one builder an append in place goes into
   the array of the mechanism it is at, in which no finished container of this
   Job is (`InPlaceJobs`); the Jobs before it were encoded when they were sent.
   Two builders and an array with room are left out, and with reason (above).
   `MCJobBuilding` states that the methods of `FittingDrafts` fill their arrays
   and those of `RoomyDrafts` do not.

The proof of 16 settled what `JobFencesItsTarget` says about a target that a
dynamic value has no entry for: `Lookup` (`mechanism.go:209-216`) fails only if
there is no default either; an entry that is written down empty is accepted, and
handed to the agent empty.

Model-checked only: `ProblemIsActedOn`, `LossIsActedOn`, `ConfigViewConverges` and
`EveryRequestIsHandled`, which are liveness properties: TLAPS does not handle
`ENABLED`, hence fairness, in this setting; and `NoPanic`, which holds for the
constants of `exec_handled` and not in general. Every other property that a
passing run checks is a theorem. The modules use no RECURSIVE operator.

## Not modelled, and why

* **Leader election**: `SingletonWith` passes three durations to client-go's lease
  and ends the process when the lease is lost, which is `Crash`. Whether two
  leaders overlap is a matter of client-go and clocks. What an overlap would do
  is in the model all the same, one level down: the API server's version check is
  all that two writers have, in one process or two.
* **CRD registration and wait**: one actor, in sequence, before anything is
  watched; its error is ignored by `run`, and a CRD that comes late ends the
  process when the first watch fails, as any crash does.
* **`deletedObjects`** of the vendored SDK: an unlocked map between the informer's
  goroutine and its worker. The models take as given that the worker gets the
  last copy of a deleted object; the retries of `handleErr` are never taken,
  because `Handle` returns nil.
* **Agent entry point**: a sequential shell script in another container.
  `JobBuilding` ends with what is handed to it. The script asks for the secret
  format "args" where the operator passes "cli" (`mechanism.go:151`), so what a
  command-line agent gets of its secrets is variables with their paths.
* **`requireAfterSeconds`, `stopOnSuccess`, `validAfter`, `timeoutSeconds`**: parsed or
  declared, and read by no code. So are `GetBool`, `GetFloat*`, `ToMap` and `Empty`.
* **The pods listed for a request's record**, and `isPodDirty`: the answer changes
  nothing, since `isNodeDirty` is always true (`DirtyNodes` is a constant so that
  a correction of that line can be tried).
* **The parallel containers of a Job** beyond its counters: the Job controller's.
* **Jobs of the namespace that the operator did not make**: `HandleJob` takes the
  first owner of any of them (`fencing.go:59`) and panics for one without.
* **Generated deep copies, scheme registration, logging, manifests**: no
  behaviour of their own.

## What is left

* The SDK's informer (`deletedObjects`, `handleErr`) shown to implement the
  level-triggered delivery that `Observe` and `Take` build on, up to its race.
