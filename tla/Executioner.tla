----------------------------- MODULE Executioner -----------------------------
(***************************************************************************)
(* The executioner half of the operator (pkg/stub/fencing.go): three       *)
(* informers deliver ConfigMaps, Jobs and FencingRequests to one worker    *)
(* each; the workers run concurrently in one process, share the map        *)
(* fencingConfigs without a lock, and drive FencingRequests by creating    *)
(* Jobs and by writing the requests' status with optimistic concurrency.   *)
(*                                                                         *)
(* A worker's handler is cut into one action per call that leaves the      *)
(* process (API reads and writes) or that reads the shared map, so that    *)
(* everything else may happen between any two of them.                     *)
(***************************************************************************)
EXTENDS Integers, Sequences, FiniteSets

CONSTANTS
  Requests,      \* names of the FencingRequest objects that may come to exist
  Jobs,          \* names the API server hands to Jobs; as many as the quota
  Nodes,         \* the targets
  ConfigMaps,    \* names of the ConfigMap objects
  Methods,       \* names of fencing methods
  Contents,      \* parsed configurations: [labels, nodes, methods]
  Buildable,     \* the <<method, node>> pairs every container can be built for
  InitialData,   \* what each ConfigMap holds at first (None: no such object)
  Edits,         \* what an administrator may put in one (None: delete it)
  AnyAnswer,     \* may listFencingRequests come back with what it asks for?
  Faults,        \* the kinds of fault that may occur
  MaxFaults,     \* bound: faults in a behaviour
  MaxUpdates,    \* bound: entries of Status.Updates the API server still stores
  None, Bad, NoKey   \* nil; data that does not parse; "fencing-config" missing

Retries == 1     \* every method's BackoffLimit

AllFaults == {"getNode", "listNodes", "listJobs", "createJob",
              "lostReply", "update", "podFails", "mapRace", "crash"}

ContentRecord ==
  [labels : Nat, nodes : SUBSET Nodes, methods : Seq(Methods)]

Data == Contents \cup {Bad, NoKey, None}

ASSUME ContentsAssumption ==
  /\ Contents \subseteq ContentRecord
  /\ {None, Bad, NoKey} \cap Contents = {}
  /\ None # Bad /\ None # NoKey /\ Bad # NoKey
  /\ InitialData \in [ConfigMaps -> Data]
  /\ Edits \subseteq Data

Failures == {"NoConfig", "GivingUp"}
Results  == Failures \cup {"Complete"}

ASSUME NoneAssumption ==
  None \notin Requests \cup Jobs \cup Nodes \cup ConfigMaps \cup Methods \cup Results

ASSUME BoundAssumption ==
  /\ Faults \subseteq AllFaults
  /\ MaxFaults \in Nat
  /\ MaxUpdates \in Nat
  /\ AnyAnswer \in BOOLEAN

VARIABLES
  request,        \* API server: the FencingRequests
  job,            \* API server: the Jobs
  configmap,      \* API server: the ConfigMaps
  fencingConfigs, \* the operator's map from ConfigMap names to parsed configs
  seenRequest,    \* the FencingRequest informer's copy of the objects
  seenJob,        \* the Job informer's copy
  seenMap,        \* the ConfigMap informer's copy
  queue,          \* each informer's work queue
  synced,         \* the informers whose first list has arrived
  worker,         \* the FencingRequest worker and the Job worker
  loader,         \* the ConfigMap worker
  process,        \* is the operator running?
  faults          \* how many faults there were

server   == <<request, job, configmap>>
informer == <<seenRequest, seenJob, seenMap, queue, synced>>
config   == <<fencingConfigs, loader>>
vars     == <<request, job, configmap, fencingConfigs, seenRequest, seenJob,
              seenMap, queue, synced, worker, loader, process, faults>>

-----------------------------------------------------------------------------
(* Objects.                                                                *)

Phases   == {"unborn", "live", "gone"}
Messages == Results \cup {"MethodInProgress"}
Update   == [method : Methods \cup {None}, message : Messages]

RequestRecord ==
  [phase : Phases, target : Nodes \cup {None}, version : Nat,
   complete : BOOLEAN, result : Results \cup {None},
   config : ConfigMaps \cup {None}, updates : Seq(Update),
   activeMethod : Methods \cup {None}, activeJob : Jobs \cup {None}]

JobRecord ==
  [phase : Phases, owner : Requests \cup {None}, config : ConfigMaps \cup {None},
   method : Methods \cup {None}, active : 0 .. 1, failed : 0 .. Retries + 1,
   succeeded : 0 .. 1]

MapRecord == [live : BOOLEAN, data : Data]

UnbornRequest ==
  [phase |-> "unborn", target |-> None, version |-> 0, complete |-> FALSE,
   result |-> None, config |-> None, updates |-> <<>>,
   activeMethod |-> None, activeJob |-> None]

UnbornJob ==
  [phase |-> "unborn", owner |-> None, config |-> None, method |-> None,
   active |-> 0, failed |-> 0, succeeded |-> 0]

NoMap == [live |-> FALSE, data |-> None]

(* Status.ActiveMethod and Status.ActiveJob carry the same JSON tag, and the *)
(* encoder drops fields in such a conflict: neither ever reaches the server. *)
Encoded(req) == [req EXCEPT !.activeMethod = None, !.activeJob = None]

(* What a handler appends to the request it holds in memory. *)
AddResult(req, m, res) ==
  [req EXCEPT !.updates = Append(@, [method |-> m, message |-> res])]

SetFinalResult(req, res) ==
  AddResult([req EXCEPT !.complete = TRUE, !.result = res], None, res)

(* Slips: the error is recorded as an attempt, or as a result of its own. *)
MethodErrorAsProgress(req, m, last) ==
  IF last THEN SetFinalResult(req, "GivingUp")
          ELSE AddResult(req, m, "MethodInProgress")

MethodErrorUnknown(req, m, last) ==
  IF last THEN SetFinalResult(req, "GivingUp") ELSE AddResult(req, m, "MethodFailed")

(* HandleFencingRequestError for a method that is there: final only when it *)
(* is the last one.                                                         *)
MethodError(req, m, last) ==
  IF last THEN SetFinalResult(req, "GivingUp") ELSE AddResult(req, m, "GivingUp")

-----------------------------------------------------------------------------
(* The process.                                                            *)

Handlers == {"FencingRequest", "Job"}
Kinds    == Handlers \cup {"ConfigMap"}
Pcs      == {"idle", "lookup", "choose", "visit", "method", "create", "write"}

(* A worker: the request it works on (key) as its handler holds it (req),   *)
(* the Job event it was given, and the locals of chooseFencingConfig: the   *)
(* entries the range over the map still owes (due) and has made (visited),  *)
(* the entry chosen so far and the object that entry pointed to.            *)
WorkerRecord ==
  [pc : Pcs, key : Requests \cup {None}, req : RequestRecord,
   event : Jobs \cup {None}, status : JobRecord,
   due : SUBSET ConfigMaps, visited : SUBSET ConfigMaps,
   chosen : ConfigMaps \cup {None}, cfg : Contents \cup {None},
   attempt : Nat]

IdleWorker ==
  [pc |-> "idle", key |-> None, req |-> UnbornRequest, event |-> None,
   status |-> UnbornJob, due |-> {}, visited |-> {}, chosen |-> None,
   cfg |-> None, attempt |-> 0]

IdleLoader == [pc |-> "idle", name |-> None, data |-> None]
EmptyQueue == [ConfigMap |-> {}, Job |-> {}, FencingRequest |-> {}]

Running == process = "running"

NoRequests == [r \in Requests |-> UnbornRequest]
NoJobs     == [j \in Jobs |-> UnbornJob]
NoMaps     == [c \in ConfigMaps |-> NoMap]
NoConfigs  == [c \in {} |-> None]
AllIdle    == [w \in Handlers |-> IdleWorker]

Init ==
  /\ request = NoRequests
  /\ job = NoJobs
  /\ configmap = [c \in ConfigMaps |-> [live |-> InitialData[c] # None,
                                        data |-> InitialData[c]]]
  /\ fencingConfigs = NoConfigs
  /\ seenRequest = NoRequests /\ seenJob = NoJobs /\ seenMap = NoMaps
  /\ queue = EmptyQueue /\ synced = {}
  /\ worker = AllIdle /\ loader = IdleLoader
  /\ process = "running"
  /\ faults = 0

(* All that was in memory is lost; a new process starts from nothing. *)
Forget ==
  /\ fencingConfigs' = NoConfigs
  /\ seenRequest' = NoRequests /\ seenJob' = NoJobs /\ seenMap' = NoMaps
  /\ queue' = EmptyQueue /\ synced' = {}
  /\ worker' = AllIdle /\ loader' = IdleLoader

Fault(f) == f \in Faults /\ faults < MaxFaults /\ faults' = faults + 1
NoFault  == UNCHANGED faults

(* The handler dies of a Go panic, which takes the whole process down. *)
Panic == Forget /\ process' = "panicked" /\ UNCHANGED server

(* The process is killed, or loses its leader lease and exits. *)
Crash ==
  /\ Running /\ Fault("crash")
  /\ Forget /\ process' = "killed" /\ UNCHANGED server

(* The Deployment starts it again. *)
Restart ==
  /\ ~Running
  /\ process' = "running"
  /\ UNCHANGED <<server, informer, config, worker, faults>>

Finish(w) == worker' = [worker EXCEPT ![w] = IdleWorker]

(* The handler goes on at pc with the request as it now holds it; the other *)
(* locals are done with.                                                    *)
Goto(w, pc, req) ==
  worker' = [worker EXCEPT ![w] = [IdleWorker EXCEPT
               !.pc = pc, !.key = worker[w].key, !.req = req]]

(* It is about to send req to the API server. *)
Write(w, req) == Goto(w, "write", req)

-----------------------------------------------------------------------------
(* Informers: the first list of a kind fills its cache and queues what is   *)
(* there; after that each change arrives in its own time.  An object that   *)
(* is gone stays in the copy: that is deletedObjects.                       *)

Enqueue(kind, keys) == queue' = [queue EXCEPT ![kind] = @ \cup keys]
Dequeue(kind, key)  == queue' = [queue EXCEPT ![kind] = @ \ {key}]

SyncRequests ==
  /\ Running /\ "FencingRequest" \notin synced
  /\ seenRequest' = request
  /\ Enqueue("FencingRequest", {r \in Requests : request[r].phase = "live"})
  /\ synced' = synced \cup {"FencingRequest"}
  /\ UNCHANGED <<server, config, seenJob, seenMap, worker, process, faults>>

SyncJobs ==
  /\ Running /\ "Job" \notin synced
  /\ seenJob' = job
  /\ Enqueue("Job", {j \in Jobs : job[j].phase = "live"})
  /\ synced' = synced \cup {"Job"}
  /\ UNCHANGED <<server, config, seenRequest, seenMap, worker, process, faults>>

SyncMaps ==
  /\ Running /\ "ConfigMap" \notin synced
  /\ seenMap' = configmap
  /\ Enqueue("ConfigMap", {c \in ConfigMaps : configmap[c].live})
  /\ synced' = synced \cup {"ConfigMap"}
  /\ UNCHANGED <<server, config, seenRequest, seenJob, worker, process, faults>>

ObserveRequest(r) ==
  /\ Running /\ "FencingRequest" \in synced /\ seenRequest[r] # request[r]
  /\ seenRequest' = [seenRequest EXCEPT ![r] = request[r]]
  /\ Enqueue("FencingRequest", {r})
  /\ UNCHANGED <<server, config, seenJob, seenMap, synced, worker, process,
                 faults>>

ObserveJob(j) ==
  /\ Running /\ "Job" \in synced /\ seenJob[j] # job[j]
  /\ seenJob' = [seenJob EXCEPT ![j] = job[j]]
  /\ Enqueue("Job", {j})
  /\ UNCHANGED <<server, config, seenRequest, seenMap, synced, worker, process,
                 faults>>

ObserveMap(c) ==
  /\ Running /\ "ConfigMap" \in synced /\ seenMap[c] # configmap[c]
  /\ seenMap' = [seenMap EXCEPT ![c] = configmap[c]]
  /\ Enqueue("ConfigMap", {c})
  /\ UNCHANGED <<server, config, seenRequest, seenJob, synced, worker, process,
                 faults>>

-----------------------------------------------------------------------------
(* HandleConfigMap.                                                        *)

Store(c, entry) ==
  fencingConfigs' = [d \in DOMAIN fencingConfigs \cup {c} |->
                       IF d = c THEN entry ELSE fencingConfigs[d]]

(* Slips: an entry is made for a map that had none, or none is cleared. *)
ClearOldAlways(c) == Store(c, None)
ClearOldNever(c)  == UNCHANGED fencingConfigs

(* The old version goes first, "in case the new version is invalid". *)
ClearOld(c) ==
  IF c \in DOMAIN fencingConfigs THEN Store(c, None) ELSE UNCHANGED fencingConfigs

TakeConfigMap(c) ==
  /\ Running /\ "ConfigMap" \in synced
  /\ c \in queue.ConfigMap /\ loader.pc = "idle"
  /\ Dequeue("ConfigMap", c)
  /\ \/ /\ seenMap[c].data = NoKey            \* not a fencing configuration
        /\ UNCHANGED config
     \/ /\ seenMap[c].data # NoKey /\ ~seenMap[c].live
        /\ Store(c, None)
        /\ UNCHANGED loader
     \/ /\ seenMap[c].data # NoKey /\ seenMap[c].live
        /\ ClearOld(c)
        /\ loader' = [pc |-> "parse", name |-> c, data |-> seenMap[c].data]
  /\ UNCHANGED <<server, seenRequest, seenJob, seenMap, synced, worker, process,
                 faults>>

(* Slip: only a map that is new is published. *)
PublishWhenNew(c, data) ==
  IF data \in Contents /\ c \notin DOMAIN fencingConfigs
  THEN Store(c, data) ELSE UNCHANGED fencingConfigs

Publish(c, data) ==
  IF data \in Contents THEN Store(c, data) ELSE UNCHANGED fencingConfigs

ParseConfigMap ==
  /\ Running /\ loader.pc = "parse"
  /\ Publish(loader.name, loader.data)
  /\ loader' = IdleLoader
  /\ UNCHANGED <<server, informer, worker, process, faults>>

(* The map has no lock: the runtime may find a write of the loader under a  *)
(* handler's read, and ends the process.  The loader is about to write when *)
(* it has parsed a configuration, or is to take a ConfigMap that is gone or *)
(* that has an entry; a handler reads the entry recorded for its request,   *)
(* or walks over the map.                                                   *)
LoaderWrites ==
  \/ loader.pc = "parse" /\ loader.data \in Contents
  \/ /\ loader.pc = "idle"
     /\ \E c \in queue.ConfigMap :
          /\ seenMap[c].data # NoKey
          /\ ~seenMap[c].live \/ c \in DOMAIN fencingConfigs

HandlerReads(w) ==
  \/ worker[w].pc = "choose" /\ worker[w].req.config # None
  \/ worker[w].pc = "visit"

ConcurrentMapAccess ==
  /\ Running /\ LoaderWrites
  /\ \E w \in Handlers : HandlerReads(w)
  /\ Fault("mapRace")
  /\ Panic

-----------------------------------------------------------------------------
(* HandleFencingRequest, started by an event for the request itself ...     *)

(* Slip: a complete request is fenced again. *)
OpenAlways(req) == req.phase = "live"

Open(req) == req.phase = "live" /\ ~req.complete

TakeRequest(r) ==
  LET w == "FencingRequest"
      req == seenRequest[r]
  IN /\ Running /\ w \in synced
     /\ r \in queue.FencingRequest /\ worker[w].pc = "idle"
     /\ Dequeue(w, r)
     /\ IF Open(req)
        THEN worker' = [worker EXCEPT ![w] = [IdleWorker EXCEPT
                          !.pc = "choose", !.key = r, !.req = req]]
        ELSE UNCHANGED worker
     /\ UNCHANGED <<server, config, seenRequest, seenJob, seenMap, synced,
                    process, faults>>

(* ... or by one for a Job of it: HandleJob, whose first act is getNode.    *)
(* Neither cares whether the Job is gone.                                   *)
TakeJob(j) ==
  LET w == "Job"
  IN /\ Running /\ w \in synced
     /\ j \in queue.Job /\ worker[w].pc = "idle"
     /\ Dequeue(w, j)
     /\ \/ /\ NoFault
           /\ worker' = [worker EXCEPT ![w] = [IdleWorker EXCEPT
                !.pc = "lookup", !.key = seenJob[j].owner,
                !.event = j, !.status = seenJob[j]]]
        \/ /\ Fault("getNode") /\ UNCHANGED worker
     /\ UNCHANGED <<server, config, seenRequest, seenJob, seenMap, synced,
                    process>>

(* Slips: failures, or the pod that still runs, are not looked at. *)
JobSucceededDespiteFailures(s) == s.active = 0
JobSucceededEarly(s)           == s.failed = 0

JobSucceeded(s) == s.active = 0 /\ s.failed = 0

(* HandleFencingJob with the request as the API server has it.  The branch  *)
(* that dereferences Status.ActiveMethod always panics: no code assigns it. *)
HandleFencingJob(w, req) ==
  LET j == worker[w].event
      s == worker[w].status
      started == s.active + s.failed + s.succeeded > 0
      ignored == ~started \/ req.complete \/ req.activeJob \notin {None, j}
      flaky   == s.active = 0 /\ s.failed # 0 /\ s.succeeded # 0
  IN \/ /\ ignored
        /\ Finish(w) /\ UNCHANGED <<server, informer, config, process>>
     \/ /\ ~ignored /\ flaky /\ req.activeMethod = None
        /\ Panic
     \/ /\ ~ignored /\ ~flaky /\ JobSucceeded(s)
        /\ Write(w, SetFinalResult(req, "Complete"))
        /\ UNCHANGED <<server, informer, config, process>>
     \/ /\ ~ignored /\ ~flaky /\ ~JobSucceeded(s)
        /\ Goto(w, "choose", req)
        /\ UNCHANGED <<server, informer, config, process>>

(* The list is empty, or an error that nobody looks at, as long as it asks  *)
(* in the namespace "--all-namespaces" for a field that the API server does *)
(* not select by.  With AnyAnswer it may also find the request: then what   *)
(* stands behind the list is checked whatever it answers.                   *)
LookupRequest(w) ==
  LET r == worker[w].key
  IN /\ Running /\ worker[w].pc = "lookup"
     /\ NoFault
     /\ \/ /\ Finish(w)
           /\ UNCHANGED <<server, informer, config, process>>
        \/ /\ AnyAnswer /\ request[r].phase = "live"
           /\ HandleFencingJob(w, request[r])

(* chooseFencingConfig: the configuration recorded earlier, if the map has  *)
(* it, else a walk over the map.                                            *)
Pinned(c) == c \in DOMAIN fencingConfigs /\ fencingConfigs[c] # None

ChooseConfig(w) ==
  LET c == worker[w].req.config
  IN /\ Running /\ worker[w].pc = "choose"
     /\ IF Pinned(c)
        THEN worker' = [worker EXCEPT ![w].pc = "method",
                                      ![w].cfg = fencingConfigs[c]]
        ELSE worker' = [worker EXCEPT ![w].pc = "visit",
                                      ![w].req.config = None,
                                      ![w].due = DOMAIN fencingConfigs]
     /\ UNCHANGED <<server, informer, config, process, faults>>

(* Slip: every configuration applies to every node. *)
SelectsAll(entry, n) == TRUE

(* One turn of the loop, in any order; an entry put in the map meanwhile    *)
(* may or may not get one.  A nil entry is dereferenced.                    *)
Selects(entry, n) == n \in entry.nodes

VisitConfig(w, c) ==
  LET entry == fencingConfigs[c]
      threshold == IF worker[w].cfg = None THEN -1 ELSE worker[w].cfg.labels
      better == entry.labels > threshold
      listed == Selects(entry, worker[w].req.target)
      turn == [worker[w] EXCEPT !.visited = @ \cup {c}]
  IN /\ Running /\ worker[w].pc = "visit"
     /\ c \in DOMAIN fencingConfigs \ worker[w].visited
     /\ \/ /\ entry = None
           /\ NoFault /\ Panic
        \/ /\ entry # None /\ better /\ listed
           /\ NoFault
           /\ worker' = [worker EXCEPT ![w] = [turn EXCEPT !.chosen = c,
                                                           !.cfg = entry]]
           /\ UNCHANGED <<server, informer, config, process>>
        \/ /\ entry # None
           /\ IF better /\ listed THEN Fault("listNodes") ELSE NoFault
           /\ worker' = [worker EXCEPT ![w] = turn]
           /\ UNCHANGED <<server, informer, config, process>>

(* Slip: no configuration, no answer. *)
NoConfigFoundSilently(w) == Finish(w)

NoConfigFound(w) == Write(w, SetFinalResult(worker[w].req, "NoConfig"))

EndVisit(w) ==
  /\ Running /\ worker[w].pc = "visit"
  /\ worker[w].due \subseteq worker[w].visited
  /\ IF worker[w].chosen = None
     THEN NoConfigFound(w)
     ELSE worker' = [worker EXCEPT ![w].pc = "method",
                                   ![w].req.config = worker[w].chosen,
                                   ![w].chosen = None,
                                   ![w].due = {}, ![w].visited = {}]
  /\ UNCHANGED <<server, informer, config, process, faults>>

-----------------------------------------------------------------------------
(* chooseFencingMethod: the indices the loop returns at; at most one.       *)
ChosenMethod(methods, active, running) ==
  LET picked(i) == \/ active = None
                   \/ methods[i] = active /\ running
                   \/ methods[i] # active
                      /\ \E k \in 1 .. i - 1 : methods[k] = active
  IN {i \in 1 .. Len(methods) :
        picked(i) /\ \A k \in 1 .. i - 1 : ~picked(k)}

(* isFencingMethodActive, for the Jobs labelled with this request, the      *)
(* configuration chosen for it and the method.                              *)
MethodActive(r, c, m) ==
  \E j \in Jobs : /\ job[j].phase = "live" /\ job[j].active > 0
                  /\ job[j].owner = r /\ job[j].config = c /\ job[j].method = m

(* ... and what HandleFencingRequest does before it calls the API server:   *)
(* wait for an active Job, or build a new one.  With no method left the     *)
(* error path dereferences the nil method.                                  *)
ChooseMethod(w) ==
  LET r == worker[w].key
      req == worker[w].req
      methods == worker[w].cfg.methods
      running == MethodActive(r, req.config, req.activeMethod)
      candidates == ChosenMethod(methods, req.activeMethod, running)
      proceed(i) ==
        IF <<methods[i], req.target>> \in Buildable
        THEN worker' = [worker EXCEPT ![w].pc = "create", ![w].attempt = i]
        ELSE Write(w, MethodError(req, methods[i], i = Len(methods)))
  IN /\ Running /\ worker[w].pc = "method"
     /\ \/ /\ candidates = {}
           /\ NoFault /\ Panic
        \/ \E i \in candidates :
             /\ LET active == MethodActive(r, req.config, methods[i])
                IN \/ active /\ NoFault /\ Finish(w)
                   \/ ~active /\ NoFault /\ proceed(i)
                   \/ active /\ Fault("listJobs") /\ proceed(i)
             /\ UNCHANGED <<server, informer, config, process>>

(* The Job is created, its creation is refused, or it is created and the    *)
(* answer lost.  There is one try: the backoff loop ends at an error.       *)
CreateJob(w) ==
  LET r == worker[w].key
      req == worker[w].req
      methods == worker[w].cfg.methods
      m == methods[worker[w].attempt]
      failed == Write(w, MethodError(req, m, worker[w].attempt = Len(methods)))
      unborn == {j \in Jobs : job[j].phase = "unborn"}
      created(j) == job' = [job EXCEPT ![j] = [UnbornJob EXCEPT !.phase = "live",
                      !.owner = r, !.config = req.config, !.method = m]]
  IN /\ Running /\ worker[w].pc = "create"
     /\ \/ \E j \in unborn :
             /\ created(j)
             /\ \/ NoFault /\ Write(w, AddResult([req EXCEPT !.activeJob = j], m,
                                                 "MethodInProgress"))
                \/ Fault("lostReply") /\ failed
        \/ /\ IF unborn = {} THEN NoFault ELSE Fault("createJob")
           /\ failed /\ UNCHANGED job
     /\ UNCHANGED <<request, configmap, informer, config, process>>

(* Slips: a blind write, and a write that leaves the version alone. *)
AcceptedBlindly(req, r) ==
  request[r].phase = "live" /\ Len(req.updates) <= MaxUpdates

StoredUnversioned(req) == Encoded(req)

(* FencingRequest.Update: the API server takes the object only if it is     *)
(* there and unchanged since it was read.  The error goes nowhere.          *)
Accepted(req, r) ==
  /\ request[r].phase = "live"
  /\ request[r].version = req.version
  /\ Len(req.updates) <= MaxUpdates

Stored(req) == [Encoded(req) EXCEPT !.version = @ + 1]

WriteStatus(w) ==
  LET r == worker[w].key
      req == worker[w].req
  IN /\ Running /\ worker[w].pc = "write"
     /\ \/ /\ Accepted(req, r) /\ NoFault
           /\ request' = [request EXCEPT ![r] = Stored(req)]
        \/ /\ IF Accepted(req, r) THEN Fault("update") ELSE NoFault
           /\ UNCHANGED request
     /\ Finish(w)
     /\ UNCHANGED <<job, configmap, informer, config, process>>

-----------------------------------------------------------------------------
(* Around the executioner: the watcher or an administrator, the Job         *)
(* controller with the pods' outcomes, and the garbage collector.           *)

Outside == <<informer, config, worker, process>>

Submit(r, n) ==
  /\ request[r].phase = "unborn"
  /\ request' = [request EXCEPT ![r].phase = "live", ![r].target = n]
  /\ UNCHANGED <<job, configmap, faults, Outside>>

Withdraw(r) ==
  /\ request[r].phase = "live"
  /\ request' = [request EXCEPT ![r].phase = "gone"]
  /\ UNCHANGED <<job, configmap, faults, Outside>>

EditConfigMap(c, data) ==
  /\ data # configmap[c].data \/ ~configmap[c].live
  /\ IF data = None
     THEN configmap[c].live /\ configmap' = [configmap EXCEPT ![c].live = FALSE]
     ELSE configmap' = [configmap EXCEPT ![c] = [live |-> TRUE, data |-> data]]
  /\ UNCHANGED <<request, job, faults, Outside>>

StartPod(j) ==
  /\ job[j].phase = "live" /\ job[j].active = 0
  /\ job[j].succeeded = 0 /\ job[j].failed <= Retries
  /\ job' = [job EXCEPT ![j].active = 1]
  /\ UNCHANGED <<request, configmap, faults, Outside>>

PodSucceeds(j) ==
  /\ job[j].phase = "live" /\ job[j].active = 1
  /\ job' = [job EXCEPT ![j].active = 0, ![j].succeeded = 1]
  /\ UNCHANGED <<request, configmap, faults, Outside>>

PodFails(j) ==
  /\ job[j].phase = "live" /\ job[j].active = 1
  /\ Fault("podFails")
  /\ job' = [job EXCEPT ![j].active = 0, ![j].failed = @ + 1]
  /\ UNCHANGED <<request, configmap, Outside>>

RemoveJob(j) ==
  /\ job[j].phase = "live"
  /\ job' = [job EXCEPT ![j].phase = "gone"]
  /\ UNCHANGED <<request, configmap, faults, Outside>>

-----------------------------------------------------------------------------

Inform ==
  \/ SyncRequests \/ SyncJobs \/ SyncMaps
  \/ \E r \in Requests : ObserveRequest(r)
  \/ \E j \in Jobs : ObserveJob(j)
  \/ \E c \in ConfigMaps : ObserveMap(c)

Load == ParseConfigMap \/ \E c \in ConfigMaps : TakeConfigMap(c)

(* A handler that is under way goes on. *)
Step(w) ==
  \/ LookupRequest(w) \/ ChooseConfig(w) \/ EndVisit(w)
  \/ ChooseMethod(w) \/ CreateJob(w) \/ WriteStatus(w)
  \/ \E c \in ConfigMaps : VisitConfig(w, c)

Handle ==
  \/ \E r \in Requests : TakeRequest(r)
  \/ \E j \in Jobs : TakeJob(j)
  \/ \E w \in Handlers : Step(w)

Operator == Inform \/ Load \/ Handle \/ Crash \/ Restart \/ ConcurrentMapAccess

Cluster ==
  \/ \E r \in Requests, n \in Nodes : Submit(r, n)
  \/ \E r \in Requests : Withdraw(r)
  \/ \E c \in ConfigMaps, data \in Edits : EditConfigMap(c, data)
  \/ \E j \in Jobs :
       StartPod(j) \/ PodSucceeds(j) \/ PodFails(j) \/ RemoveJob(j)

Next == Operator \/ Cluster

Spec == Init /\ [][Next]_vars

-----------------------------------------------------------------------------
(* Fairness: the operator's goroutines are scheduled, its informers catch   *)
(* up, the Deployment restarts it.  A work queue is first in, first out, so *)
(* a key in it is taken although the worker keeps being busy with others:   *)
(* strong fairness, per key.  Nothing is assumed of the cluster.            *)
Fairness ==
  /\ WF_vars(Restart)
  /\ WF_vars(SyncRequests) /\ WF_vars(SyncJobs) /\ WF_vars(SyncMaps)
  /\ \A r \in Requests : WF_vars(ObserveRequest(r)) /\ SF_vars(TakeRequest(r))
  /\ \A j \in Jobs : WF_vars(ObserveJob(j)) /\ SF_vars(TakeJob(j))
  /\ \A c \in ConfigMaps : WF_vars(ObserveMap(c)) /\ SF_vars(TakeConfigMap(c))
  /\ WF_vars(ParseConfigMap)
  /\ \A w \in Handlers : WF_vars(Step(w))

FairSpec == Spec /\ Fairness

-----------------------------------------------------------------------------
(* Properties.                                                             *)

(* Every variable holds what the Go types and the API objects allow. *)
TypeOK ==
  /\ request \in [Requests -> RequestRecord]
  /\ job \in [Jobs -> JobRecord]
  /\ configmap \in [ConfigMaps -> MapRecord]
  /\ fencingConfigs \in UNION {[D -> Contents \cup {None}] : D \in SUBSET ConfigMaps}
  /\ seenRequest \in [Requests -> RequestRecord]
  /\ seenJob \in [Jobs -> JobRecord]
  /\ seenMap \in [ConfigMaps -> MapRecord]
  /\ queue \in [ConfigMap : SUBSET ConfigMaps, Job : SUBSET Jobs,
                FencingRequest : SUBSET Requests]
  /\ synced \subseteq Kinds
  /\ worker \in [Handlers -> WorkerRecord]
  /\ loader \in [pc : {"idle", "parse"}, name : ConfigMaps \cup {None}, data : Data]
  /\ process \in {"running", "panicked", "killed"}
  /\ faults \in 0 .. MaxFaults

(* Where a handler has got to determines which of its locals are set; the   *)
(* loader's name is set while it parses.                                    *)
LocalsSet(k) ==
  /\ k.pc # "idle" => k.key \in Requests
  /\ k.pc = "lookup" => k.event \in Jobs
  /\ k.pc = "choose" => k.chosen = None /\ k.cfg = None
  /\ k.pc = "visit" => (k.chosen = None <=> k.cfg = None)
  /\ k.pc \in {"method", "create"} => k.cfg \in Contents
  /\ k.pc = "create" => k.attempt \in 1 .. Len(k.cfg.methods)

WorkerShape ==
  /\ \A w \in Handlers : LocalsSet(worker[w])
  /\ \A j \in Jobs : job[j].phase # "unborn" => job[j].owner \in Requests
  /\ \A j \in Jobs : job[j].active = 1 => job[j].failed <= Retries /\ job[j].succeeded = 0
  /\ \A j \in Jobs : seenJob[j].phase # "unborn" => seenJob[j].owner \in Requests
  /\ \A j \in Jobs : job[j].phase = "unborn" => job[j] = UnbornJob /\ seenJob[j] = UnbornJob
  /\ \A j \in queue.Job : seenJob[j].phase # "unborn"
  /\ "Job" \notin synced => queue.Job = {}
  /\ loader.pc = "parse" => loader.name \in ConfigMaps

JobsOf(r) == {j \in Jobs : job[j].phase # "unborn" /\ job[j].owner = r}

Fenced(r) == \E j \in JobsOf(r) : job[j].succeeded = 1 /\ job[j].failed = 0

(* A request is reported Complete only if a Job of that very request ran to *)
(* success without a failure, whatever was lost, killed, stale or deleted   *)
(* on the way (HandleFencingJob, SetFinalResult, Update).                   *)
CompleteMeansFenced ==
  \A r \in Requests : request[r].result = "Complete" => Fenced(r)

(* The final outcome of a request and the history of its attempts behave as *)
(* RequestLifecycle promises: an outcome is recorded once, from an open     *)
(* request, and no handler's stale copy ever takes it or an update back.    *)
Outcome ==
  [r \in Requests |->
     [phase |-> request[r].phase, complete |-> request[r].complete,
      result |-> request[r].result, updates |-> request[r].updates]]

L == INSTANCE RequestLifecycle
       WITH status <- Outcome, Updates <- Update, NoResult <- None

Lifecycle == L!Spec

(* What that means for one who reads the status: the result and the history *)
(* of a complete request stay as they are, and those of an open one lose    *)
(* nothing, however many Jobs report to it (SetFinalResult, Update).        *)
OutcomeIsFinal == L!OutcomeIsFinal

(* A copy of a request that is as recent as the server's says what the      *)
(* server says; one that a handler is about to write says that and one      *)
(* thing more.  This is what makes the API server's version check enough    *)
(* to keep the two workers and the informers' stale copies apart (Update).  *)
SameStatus(req, r) ==
  /\ req.complete = request[r].complete /\ req.result = request[r].result
  /\ req.updates = request[r].updates

Settled(req) == req.complete <=> req.result # None

UpToDate(req, r) ==
  /\ Settled(req)
  /\ req.version <= request[r].version
  /\ req.version = request[r].version => SameStatus(req, r)

Successor(req, r) ==
  /\ Settled(req)
  /\ req.version <= request[r].version
  /\ req.version = request[r].version =>
        /\ ~request[r].complete
        /\ IF req.complete THEN req.result \in Results
                           ELSE req.result = request[r].result
        /\ \E u \in Update : req.updates = Append(request[r].updates, u)

CopyOrdered(k) ==
  /\ k.pc \in {"choose", "visit", "method", "create"} =>
       k.req.phase = "live" /\ ~k.req.complete /\ UpToDate(k.req, k.key)
  /\ k.pc = "write" => k.req.phase = "live" /\ Successor(k.req, k.key)

CopiesAreOrdered ==
  /\ \A r \in Requests : Settled(request[r])
  /\ \A r \in Requests : request[r].version = 0 => SameStatus(UnbornRequest, r)
  /\ \A r \in Requests : UpToDate(seenRequest[r], r)
  /\ \A w \in Handlers : CopyOrdered(worker[w])

(* What backs a completion: the informer's and the Job worker's copies of a *)
(* Job that had ended well still tell the truth, because such a Job never   *)
(* changes its counters again; and a handler that is about to report        *)
(* Complete has had that evidence for its own request.                      *)
EndedWell(s) == s.active = 0 /\ s.failed = 0 /\ s.succeeded = 1

TrueCopy(s, j) ==
  /\ s.phase = "unborn" => s.active + s.failed + s.succeeded = 0
  /\ s.phase # "unborn" => job[j].phase # "unborn" /\ job[j].owner = s.owner
  /\ EndedWell(s) => EndedWell(job[j])

Backed(k) ==
  /\ k.pc = "lookup" =>
       /\ TrueCopy(k.status, k.event)
       /\ k.status.phase # "unborn" /\ k.status.owner = k.key
  /\ k.pc = "write" /\ k.req.result = "Complete" => Fenced(k.key)

CompletionIsBacked ==
  /\ \A j \in Jobs : TrueCopy(seenJob[j], j)
  /\ \A w \in Handlers : Backed(worker[w])
  /\ CompleteMeansFenced

(* The inductive invariant behind the safety properties. *)
IInv == TypeOK /\ WorkerShape /\ CopiesAreOrdered /\ CompletionIsBacked

(* A request that is complete is left alone, except by a handler that read  *)
(* it before it was: no event, restart or redelivery starts fencing again.  *)
CompletedFencedOnlyByStale ==
  \A j \in Jobs :
    LET r == job'[j].owner
    IN job[j].phase = "unborn" /\ job'[j].phase = "live" /\ request[r].complete
       => \E w \in Handlers : /\ worker[w].key = r
                              /\ worker[w].req.version < request[r].version

OnlyStaleHandlersFenceCompleted == [][CompletedFencedOnlyByStale]_vars

(* The history never claims more attempts than there are Jobs: every        *)
(* MethodInProgress entry has a Job of its own.                             *)
Claims(updates) == {i \in DOMAIN updates : updates[i].message = "MethodInProgress"}

ProgressMeansJobs ==
  \A r \in Requests : Cardinality(Claims(request[r].updates)) <= Cardinality(JobsOf(r))

(* While nobody edits the configuration: a Job runs a method of the         *)
(* configuration it is labelled with, which selects the target and knows    *)
(* how to fence it (chooseFencingConfig, createFencingJob).                 *)
JobsFollowConfig ==
  \A j \in Jobs : job[j].phase # "unborn" =>
    LET cfg == configmap[job[j].config].data
        target == request[job[j].owner].target
    IN /\ cfg \in Contents /\ target \in cfg.nodes
       /\ \E i \in DOMAIN cfg.methods : cfg.methods[i] = job[j].method
       /\ <<job[j].method, target>> \in Buildable

(* The handlers do not bring the operator down. *)
NoPanic == process # "panicked"

(* A ConfigMap whose last event the loader is done with is held as the      *)
(* informer has it: its content, or nothing if it is gone or does not       *)
(* parse, whatever was queued again, parsed late or forgotten in a crash    *)
(* meanwhile.  Without the key "fencing-config" the old entry stays         *)
(* (HandleConfigMap).                                                       *)
Held(c) == IF c \in DOMAIN fencingConfigs THEN fencingConfigs[c] ELSE None

Reading(m) == IF m.live /\ m.data \in Contents THEN m.data ELSE None

UnderWay(c) == c \in queue.ConfigMap \/ loader.name = c

ViewIsCurrent ==
  \A c \in ConfigMaps :
    ~UnderWay(c) /\ seenMap[c].data # NoKey => Held(c) = Reading(seenMap[c])

(* Nothing else brings the operator down than an entry that is nil because  *)
(* its ConfigMap is gone, without a configuration or on its way through the *)
(* loader; a chosen configuration without methods; a write to the map under *)
(* a read; and, should listFencingRequests ever find it, the request of a   *)
(* Job that failed before it succeeded (chooseFencingConfig,                *)
(* HandleFencingRequestError, HandleFencingJob).                            *)
PanicExplained ==
  Running /\ process' = "panicked" =>
    \/ \E c \in DOMAIN fencingConfigs :
         fencingConfigs[c] = None /\ (UnderWay(c) \/ Reading(seenMap[c]) = None)
    \/ \E w \in Handlers : worker[w].pc = "method" /\ worker[w].cfg.methods = <<>>
    \/ LoaderWrites /\ \E w \in Handlers : HandlerReads(w)
    \/ /\ AnyAnswer
       /\ \E w \in Handlers : worker[w].pc = "lookup" /\ worker[w].status.failed > 0

PanicsAreExplained == [][PanicExplained]_vars

(* What the operator holds of a ConfigMap that is left alone becomes, and   *)
(* stays, what the ConfigMap says: its content, or nothing if it is gone or *)
(* does not parse; unless a request keeps bringing the operator down        *)
(* (HandleConfigMap, the informers after a restart).                        *)
ConfigViewConverges ==
  \A c \in ConfigMaps, d \in Data \ {NoKey}, alive \in BOOLEAN :
    <>[](configmap[c] = [live |-> alive, data |-> d] /\ Running)
      => <>[](Held(c) = IF alive /\ d \in Contents THEN d ELSE None)

(* A request that stays is acted upon: a Job for it, or a final result. *)
Handled(r) ==
  JobsOf(r) # {} \/ request[r].complete \/ request[r].phase = "gone"

EveryRequestIsHandled ==
  \A r \in Requests : request[r].phase = "live" ~> Handled(r)

(* "The operator attempts sets in order until one succeeds": a handler that *)
(* lists the Jobs of its request when one of them has succeeded does not go *)
(* on to create another (isFencingMethodActive, createFencingJob).          *)
StopsAtSuccess ==
  [][\A w \in Handlers :
       worker[w].pc = "method" /\ worker'[w].pc = "create" => ~Fenced(worker[w].key)]_vars

(* "The operator attempts sets in order until one succeeds": a method that  *)
(* used up its retries is not started again for the same request while a    *)
(* later one has not been tried.                                            *)
Exhausted(r, m) ==
  \E j \in JobsOf(r) : job[j].method = m /\ job[j].failed > Retries

TriesMethodsInOrder ==
  [][\A j \in Jobs :
       LET r == job'[j].owner
           methods == configmap[job'[j].config].data.methods
       IN job[j].phase = "unborn" /\ job'[j].phase = "live"
          => ~ \E i, k \in DOMAIN methods :
                 /\ i < k /\ methods[i] = job'[j].method
                 /\ Exhausted(r, methods[i])
                 /\ \A h \in JobsOf(r) : job[h].method # methods[k]]_vars
=============================================================================
