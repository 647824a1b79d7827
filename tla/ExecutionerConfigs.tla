------------------------- MODULE ExecutionerConfigs -------------------------
(***************************************************************************)
(* What a Job is made from, for every value of the constants: the target   *)
(* of its request, which no copy ever changes, and, while nobody edits     *)
(* them, a configuration that selects this target.  Then what the map of   *)
(* configurations holds however they are edited, and which panics that and *)
(* the rest of the code leave.                                             *)
(***************************************************************************)
EXTENDS ExecutionerSafety

(* No copy of a request names another target.                              *)
SameTarget(req, r) ==
  request[r].phase # "unborn" /\ req.target = request[r].target

Carries(k) ==
  \/ k.pc \in {"idle", "lookup"}
  \/ k.key \in Requests /\ k.req.phase # "unborn" /\ SameTarget(k.req, k.key)

CopiesKeepTarget ==
  /\ \A r \in Requests : seenRequest[r].phase # "unborn" => SameTarget(seenRequest[r], r)
  /\ \A w \in Handlers : Carries(worker[w])
  /\ \A j \in Jobs : job[j].phase # "unborn" => request[job[j].owner].phase # "unborn"

(* Once it is there, a request keeps its target. *)
TargetsKept ==
  \A r \in Requests : request[r].phase # "unborn" =>
    request'[r].phase # "unborn" /\ request'[r].target = request[r].target

-----------------------------------------------------------------------------
(* The executioner's steps keep the targets.                               *)

(* It is enough to look at the copies and Jobs that a step makes.           *)
LEMMA CopiesFollow ==
  ASSUME Typed, CopiesKeepTarget, TargetsKept,
         \A r \in Requests : \/ seenRequest'[r] = seenRequest[r]
                             \/ seenRequest'[r].phase = "unborn"
                             \/ seenRequest'[r] = request'[r],
         \A w \in Handlers : worker'[w] = worker[w] \/ Carries(worker'[w]),
         \A j \in Jobs : job'[j].phase # "unborn" =>
            \/ job[j].phase # "unborn" /\ job'[j].owner = job[j].owner
            \/ job'[j].owner \in Requests /\ request[job'[j].owner].phase # "unborn"
  PROVE  CopiesKeepTarget'
<1>1. \A r \in Requests : seenRequest'[r].phase # "unborn" => SameTarget(seenRequest[r], r)'
  BY DEF CopiesKeepTarget, TargetsKept, SameTarget
<1>2. \A w \in Handlers : Carries(worker[w])'
  BY DEF CopiesKeepTarget, TargetsKept, Carries, SameTarget
<1>3. \A j \in Jobs : job'[j].phase # "unborn" => request'[job'[j].owner].phase # "unborn"
  BY DEF CopiesKeepTarget, TargetsKept, Typed, WorkerShape
<1> QED BY <1>1, <1>2, <1>3 DEF CopiesKeepTarget

(* A handler's step that leaves the requests alone. *)
LEMMA HandlerFollows ==
  ASSUME Typed, CopiesKeepTarget, NEW w \in Handlers, NEW k,
         worker' = [worker EXCEPT ![w] = k], Carries(k),
         UNCHANGED <<request, seenRequest>>,
         \A j \in Jobs : job'[j].phase # "unborn" =>
            \/ job[j].phase # "unborn" /\ job'[j].owner = job[j].owner
            \/ job'[j].owner \in Requests /\ request[job'[j].owner].phase # "unborn"
  PROVE  CopiesKeepTarget' /\ TargetsKept
<1>1. TargetsKept
  BY DEF TargetsKept
<1>2. \A v \in Handlers : worker'[v] = worker[v] \/ Carries(worker'[v])
  BY DEF Typed, TypeOK
<1> QED BY <1>1, <1>2, CopiesFollow

LEMMA FinishFollows ==
  ASSUME Typed, CopiesKeepTarget, NEW w \in Handlers, Finish(w),
         UNCHANGED <<request, seenRequest, job>>
  PROVE  CopiesKeepTarget' /\ TargetsKept
<1>1. Carries(IdleWorker)
  BY DEF Carries, IdleWorker
<1> QED BY <1>1, HandlerFollows DEF Finish

LEMMA GotoFollows ==
  ASSUME Typed, CopiesKeepTarget, NEW w \in Handlers, NEW pc, NEW req, Goto(w, pc, req),
         worker[w].key \in Requests, req.phase # "unborn", SameTarget(req, worker[w].key),
         UNCHANGED <<request, seenRequest>>,
         \A j \in Jobs : job'[j].phase # "unborn" =>
            \/ job[j].phase # "unborn" /\ job'[j].owner = job[j].owner
            \/ job'[j].owner \in Requests /\ request[job'[j].owner].phase # "unborn"
  PROVE  CopiesKeepTarget' /\ TargetsKept
<1> DEFINE k == [IdleWorker EXCEPT !.pc = pc, !.key = worker[w].key, !.req = req]
<1>1. Carries(k)
  BY DEF Carries, IdleWorker
<1>2. worker' = [worker EXCEPT ![w] = k]
  BY DEF Goto
<1> HIDE DEF k
<1> QED BY <1>1, <1>2, HandlerFollows

(* What a handler appends to its request does not touch phase and target.   *)
LEMMA ResultKeepsTarget ==
  ASSUME NEW req \in RequestRecord, NEW res
  PROVE  /\ SetFinalResult(req, res).phase = req.phase
         /\ SetFinalResult(req, res).target = req.target
BY DEF RequestRecord, SetFinalResult, AddResult

LEMMA ErrorKeepsTarget ==
  ASSUME NEW req \in RequestRecord, NEW m, NEW last
  PROVE  /\ MethodError(req, m, last).phase = req.phase
         /\ MethodError(req, m, last).target = req.target
BY DEF RequestRecord, SetFinalResult, MethodError, AddResult

LEMMA StoredKeepsTarget ==
  ASSUME NEW req \in RequestRecord
  PROVE  Stored(req).phase = req.phase /\ Stored(req).target = req.target
BY DEF RequestRecord, Stored, Encoded

LEMMA PanicFollows ==
  ASSUME Typed, CopiesKeepTarget, Forget, UNCHANGED server
  PROVE  CopiesKeepTarget' /\ TargetsKept
<1>1. TargetsKept
  BY DEF TargetsKept, server
<1>2. \A r \in Requests : seenRequest'[r].phase = "unborn"
  BY DEF Forget, NoRequests, UnbornRequest
<1>3. \A w \in Handlers : Carries(worker'[w])
  BY DEF Forget, AllIdle, IdleWorker, Carries
<1> QED BY <1>1, <1>2, <1>3, CopiesFollow DEF server

(* The Job that is made has the request, the configuration and the method   *)
(* that the handler holds; the others stay as they are.                     *)
LEMMA CreateJobMakes ==
  ASSUME Typed, NEW w \in Handlers, CreateJob(w), NEW j \in Jobs
  PROVE  \/ job'[j] = job[j]
         \/ /\ job'[j].owner = worker[w].key /\ job'[j].config = worker[w].req.config
            /\ job'[j].method = worker[w].cfg.methods[worker[w].attempt]
            /\ job'[j].failed = 0
<1> DEFINE made == [UnbornJob EXCEPT !.phase = "live", !.owner = worker[w].key,
                     !.config = worker[w].req.config,
                     !.method = worker[w].cfg.methods[worker[w].attempt]]
<1>1. /\ made.owner = worker[w].key /\ made.config = worker[w].req.config
      /\ made.method = worker[w].cfg.methods[worker[w].attempt] /\ made.failed = 0
  BY DEF UnbornJob
<1>2. UNCHANGED job \/ \E i \in Jobs : job' = [job EXCEPT ![i] = made]
  BY DEF CreateJob
<1>3. job \in [Jobs -> JobRecord]
  BY DEF Typed, TypeOK
<1> HIDE DEF made
<1>4. job'[j] = job[j] \/ job'[j] = made
  BY <1>2, <1>3
<1> QED BY <1>1, <1>4

LEMMA StepFollows ==
  ASSUME Typed, CopiesKeepTarget, NEW w \in Handlers, Step(w)
  PROVE  CopiesKeepTarget' /\ TargetsKept
<1> DEFINE r == worker[w].key
           req == worker[w].req
<1>1. worker[w] \in WorkerRecord /\ req \in RequestRecord
  BY DEF Typed, TypeOK, WorkerRecord
<1>2. worker[w].pc # "idle" => r \in Requests /\ request[r] \in RequestRecord
  BY DEF Typed, TypeOK, WorkerShape, LocalsSet
<1>3. worker[w].pc \notin {"idle", "lookup"} => req.phase # "unborn" /\ SameTarget(req, r)
  BY DEF CopiesKeepTarget, Carries
(* The request it holds, or one that differs in its status. *)
<1>4. ASSUME worker[w].pc \notin {"idle", "lookup"}, NEW q, NEW pc, Goto(w, pc, q),
             q.phase = req.phase, q.target = req.target,
             UNCHANGED <<request, seenRequest, job>>
      PROVE  CopiesKeepTarget' /\ TargetsKept
  BY <1>2, <1>3, <1>4, GotoFollows DEF SameTarget
(* The same request with other locals. *)
<1>5. ASSUME worker[w].pc \notin {"idle", "lookup"}, NEW k,
             worker' = [worker EXCEPT ![w] = k], k.key = r,
             k.req.phase = req.phase, k.req.target = req.target,
             UNCHANGED <<request, seenRequest, job>>
      PROVE  CopiesKeepTarget' /\ TargetsKept
  <2>1. Carries(k)
    BY <1>2, <1>3, <1>5 DEF Carries, SameTarget
  <2> QED BY <1>5, <2>1, HandlerFollows
<1>6. CASE LookupRequest(w)
  <2>1. r \in Requests /\ request[r] \in RequestRecord /\ UNCHANGED server
    BY <1>2, <1>6 DEF LookupRequest, HandleFencingJob, Panic
  <2>2. CASE Finish(w) /\ UNCHANGED informer
    BY <2>1, <2>2, FinishFollows DEF server, informer
  <2>3. CASE Panic
    BY <2>3, PanicFollows DEF Panic
  <2>4. CASE /\ request[r].phase = "live" /\ UNCHANGED informer
             /\ \/ Goto(w, "choose", request[r])
                \/ Write(w, SetFinalResult(request[r], "Complete"))
    <3>1. SameTarget(request[r], r) /\ SameTarget(SetFinalResult(request[r], "Complete"), r)
      BY <2>1, <2>4, ResultKeepsTarget DEF SameTarget
    <3>2. SetFinalResult(request[r], "Complete").phase # "unborn"
      BY <2>1, <2>4, ResultKeepsTarget
    <3> QED BY <2>1, <2>4, <3>1, <3>2, GotoFollows DEF Write, server, informer
  <2> QED BY <1>6, <2>2, <2>3, <2>4 DEF LookupRequest, HandleFencingJob
<1>7. CASE ChooseConfig(w)
  <2>1. worker[w].pc = "choose" /\ UNCHANGED <<request, seenRequest, job>>
    BY <1>7 DEF ChooseConfig, server, informer
  <2> DEFINE pinned == [worker[w] EXCEPT !.pc = "method", !.cfg = fencingConfigs[req.config]]
             walk == [worker[w] EXCEPT !.pc = "visit", !.req.config = None,
                                       !.due = DOMAIN fencingConfigs]
  <2>2. worker' = [worker EXCEPT ![w] = pinned] \/ worker' = [worker EXCEPT ![w] = walk]
    BY <1>7 DEF ChooseConfig, Typed, TypeOK
  <2>3. /\ pinned.key = r /\ pinned.req = req
        /\ walk.key = r /\ walk.req.phase = req.phase /\ walk.req.target = req.target
    BY <1>1 DEF WorkerRecord, RequestRecord
  <2> HIDE DEF pinned, walk
  <2> QED BY <1>5, <2>1, <2>2, <2>3
<1>8. ASSUME NEW c \in ConfigMaps, VisitConfig(w, c) PROVE CopiesKeepTarget' /\ TargetsKept
  <2>1. CASE Panic
    BY <2>1, PanicFollows DEF Panic
  <2> DEFINE turn == [worker[w] EXCEPT !.visited = @ \cup {c}]
             taken == [turn EXCEPT !.chosen = c, !.cfg = fencingConfigs[c]]
  <2>2. CASE /\ worker[w].pc = "visit" /\ UNCHANGED <<server, informer>>
             /\ \/ worker' = [worker EXCEPT ![w] = turn]
                \/ worker' = [worker EXCEPT ![w] = taken]
    <3>1. turn.key = r /\ turn.req = req /\ taken.key = r /\ taken.req = req
      BY <1>1 DEF WorkerRecord
    <3> HIDE DEF turn, taken
    <3> QED BY <1>5, <2>2, <3>1 DEF server, informer
  <2> QED BY <1>8, <2>1, <2>2 DEF VisitConfig
<1>9. CASE EndVisit(w)
  <2>1. worker[w].pc = "visit" /\ UNCHANGED <<request, seenRequest, job>>
    BY <1>9 DEF EndVisit, server, informer
  <2> DEFINE k == [worker[w] EXCEPT !.pc = "method", !.req.config = worker[w].chosen,
                                    !.chosen = None, !.due = {}, !.visited = {}]
  <2>2. CASE NoConfigFound(w)
    BY <1>1, <1>4, <2>1, <2>2, ResultKeepsTarget DEF NoConfigFound, Write
  <2>3. CASE worker' = [worker EXCEPT ![w] = k]
    <3>1. k.key = r /\ k.req.phase = req.phase /\ k.req.target = req.target
      BY <1>1 DEF WorkerRecord, RequestRecord
    <3> HIDE DEF k
    <3> QED BY <1>5, <2>1, <2>3, <3>1
  <2>4. worker' = [worker EXCEPT ![w] = k] \/ NoConfigFound(w)
    BY <1>9 DEF EndVisit, Typed, TypeOK
  <2> QED BY <2>2, <2>3, <2>4
<1>10. CASE ChooseMethod(w)
  <2>1. CASE Panic
    BY <2>1, PanicFollows DEF Panic
  <2>2. CASE /\ worker[w].pc = "method" /\ UNCHANGED <<server, informer>>
             /\ \/ Finish(w)
                \/ \E i : worker' = [worker EXCEPT ![w].pc = "create", ![w].attempt = i]
                \/ \E m, last : Write(w, MethodError(req, m, last))
    <3>1. CASE Finish(w)
      BY <2>2, <3>1, FinishFollows DEF server, informer
    <3>2. ASSUME NEW i, worker' = [worker EXCEPT ![w].pc = "create", ![w].attempt = i]
          PROVE  CopiesKeepTarget' /\ TargetsKept
      <4> DEFINE k == [worker[w] EXCEPT !.pc = "create", !.attempt = i]
      <4>1. worker' = [worker EXCEPT ![w] = k]
        BY <3>2 DEF Typed, TypeOK
      <4>2. k.key = r /\ k.req = req
        BY <1>1 DEF WorkerRecord
      <4> HIDE DEF k
      <4> QED BY <1>5, <2>2, <4>1, <4>2 DEF server, informer
    <3>3. ASSUME NEW m, NEW last, Write(w, MethodError(req, m, last))
          PROVE  CopiesKeepTarget' /\ TargetsKept
      BY <1>1, <1>4, <2>2, <3>3, ErrorKeepsTarget DEF Write, server, informer
    <3> QED BY <2>2, <3>1, <3>2, <3>3
  <2> DEFINE methods == worker[w].cfg.methods
             candidates == ChosenMethod(methods, req.activeMethod,
                                        MethodActive(r, req.config, req.activeMethod))
  <2>3. worker[w].pc = "method"
    BY <1>10 DEF ChooseMethod
  <2>4. ASSUME NEW i, \/ Finish(w)
                      \/ IF <<methods[i], req.target>> \in Buildable
                         THEN worker' = [worker EXCEPT ![w].pc = "create", ![w].attempt = i]
                         ELSE Write(w, MethodError(req, methods[i], i = Len(methods))),
               UNCHANGED <<server, informer>>
        PROVE  CopiesKeepTarget' /\ TargetsKept
    BY <2>2, <2>3, <2>4
  <2>5. CASE \E i \in candidates :
               /\ UNCHANGED <<server, informer, config, process>>
               /\ \/ Finish(w)
                  \/ IF <<methods[i], req.target>> \in Buildable
                     THEN worker' = [worker EXCEPT ![w].pc = "create", ![w].attempt = i]
                     ELSE Write(w, MethodError(req, methods[i], i = Len(methods)))
    BY <2>4, <2>5
  <2> HIDE DEF candidates
  <2>6. Panic \/ \E i \in candidates :
               /\ UNCHANGED <<server, informer, config, process>>
               /\ \/ Finish(w)
                  \/ IF <<methods[i], req.target>> \in Buildable
                     THEN worker' = [worker EXCEPT ![w].pc = "create", ![w].attempt = i]
                     ELSE Write(w, MethodError(req, methods[i], i = Len(methods)))
    BY <1>10 DEF ChooseMethod, candidates
  <2> QED BY <2>1, <2>5, <2>6
<1>11. CASE CreateJob(w)
  <2>1. worker[w].pc = "create" /\ UNCHANGED <<request, seenRequest>> /\ r \in Requests
    BY <1>2, <1>11 DEF CreateJob, informer
  <2>2. PICK q : /\ Write(w, q) /\ q.phase = req.phase /\ q.target = req.target
    <3>1. \/ \E j, m : Write(w, AddResult([req EXCEPT !.activeJob = j], m, "MethodInProgress"))
          \/ \E m, last : Write(w, MethodError(req, m, last))
      BY <1>11 DEF CreateJob
    <3>2. ASSUME NEW j, NEW m,
                 Write(w, AddResult([req EXCEPT !.activeJob = j], m, "MethodInProgress"))
          PROVE  \E q : Write(w, q) /\ q.phase = req.phase /\ q.target = req.target
      <4> DEFINE q == AddResult([req EXCEPT !.activeJob = j], m, "MethodInProgress")
      <4>1. q.phase = req.phase /\ q.target = req.target
        BY <1>1 DEF AddResult, RequestRecord
      <4>2. Write(w, q)
        BY <3>2
      <4> HIDE DEF q
      <4> QED BY <4>1, <4>2
    <3>3. ASSUME NEW m, NEW last, Write(w, MethodError(req, m, last))
          PROVE  \E q : Write(w, q) /\ q.phase = req.phase /\ q.target = req.target
      <4> DEFINE q == MethodError(req, m, last)
      <4>1. q.phase = req.phase /\ q.target = req.target
        BY <1>1, ErrorKeepsTarget
      <4>2. Write(w, q)
        BY <3>3
      <4> HIDE DEF q
      <4> QED BY <4>1, <4>2
    <3> QED BY <3>1, <3>2, <3>3
  <2>3. ASSUME NEW j \in Jobs, job'[j].phase # "unborn"
        PROVE  \/ job[j].phase # "unborn" /\ job'[j].owner = job[j].owner
               \/ job'[j].owner \in Requests /\ request[job'[j].owner].phase # "unborn"
    <3>1. CASE job'[j] = job[j]
      BY <2>3, <3>1
    <3>2. CASE job'[j].owner = r
      BY <1>3, <2>1, <3>2 DEF SameTarget
    <3>3. job'[j] = job[j] \/ job'[j].owner = r
      BY <1>11, CreateJobMakes
    <3> QED BY <3>1, <3>2, <3>3
  <2> QED BY <1>3, <2>1, <2>2, <2>3, GotoFollows DEF Write, SameTarget
<1>12. CASE WriteStatus(w)
  <2>1. /\ worker[w].pc = "write" /\ Finish(w) /\ UNCHANGED <<seenRequest, job>>
        /\ r \in Requests
        /\ UNCHANGED request \/ request' = [request EXCEPT ![r] = Stored(req)]
    BY <1>2, <1>12 DEF WriteStatus, informer
  <2>2. TargetsKept
    BY <1>1, <1>3, <2>1, StoredKeepsTarget DEF TargetsKept, SameTarget, Typed, TypeOK
  <2>3. \A v \in Handlers : worker'[v] = worker[v] \/ Carries(worker'[v])
    BY <2>1 DEF Finish, Carries, IdleWorker, Typed, TypeOK
  <2> QED BY <2>1, <2>2, <2>3, CopiesFollow
<1> QED BY <1>6, <1>7, <1>8, <1>9, <1>10, <1>11, <1>12 DEF Step

LEMMA TakeFollows ==
  ASSUME Typed, CopiesKeepTarget
  PROVE  /\ \A r \in Requests : TakeRequest(r) => CopiesKeepTarget' /\ TargetsKept
         /\ \A j \in Jobs : TakeJob(j) => CopiesKeepTarget' /\ TargetsKept
<1>0. {"FencingRequest", "Job"} \subseteq Handlers
  BY DEF Handlers
<1>1. ASSUME NEW r \in Requests, TakeRequest(r) PROVE CopiesKeepTarget' /\ TargetsKept
  <2> DEFINE k == [IdleWorker EXCEPT !.pc = "choose", !.key = r, !.req = seenRequest[r]]
  <2>1. UNCHANGED <<request, seenRequest, job>>
    BY <1>1 DEF TakeRequest, server
  <2>2. CASE Open(seenRequest[r]) /\ worker' = [worker EXCEPT !["FencingRequest"] = k]
    <3>1. Carries(k)
      BY <2>2 DEF Carries, CopiesKeepTarget, Open, IdleWorker
    <3> HIDE DEF k
    <3> QED BY <1>0, <2>1, <2>2, <3>1, HandlerFollows
  <2>3. CASE UNCHANGED worker
    BY <2>1, <2>3, CopiesFollow DEF TargetsKept
  <2> QED BY <1>1, <2>2, <2>3 DEF TakeRequest
<1>2. ASSUME NEW j \in Jobs, TakeJob(j) PROVE CopiesKeepTarget' /\ TargetsKept
  <2> DEFINE k == [IdleWorker EXCEPT !.pc = "lookup", !.key = seenJob[j].owner,
                                     !.event = j, !.status = seenJob[j]]
  <2>1. UNCHANGED <<request, seenRequest, job>>
    BY <1>2 DEF TakeJob, server
  <2>2. CASE worker' = [worker EXCEPT !["Job"] = k]
    <3>1. Carries(k)
      BY DEF Carries, IdleWorker
    <3> HIDE DEF k
    <3> QED BY <1>0, <2>1, <2>2, <3>1, HandlerFollows
  <2>3. CASE UNCHANGED worker
    BY <2>1, <2>3, CopiesFollow DEF TargetsKept
  <2> QED BY <1>2, <2>2, <2>3 DEF TakeJob
<1> QED BY <1>1, <1>2

LEMMA InformFollows ==
  ASSUME Typed, CopiesKeepTarget, Inform \/ Load
  PROVE  CopiesKeepTarget' /\ TargetsKept
<1>1. UNCHANGED <<request, job, worker>>
  BY DEF Inform, Load, SyncRequests, SyncJobs, SyncMaps, ObserveRequest, ObserveJob,
         ObserveMap, ParseConfigMap, TakeConfigMap, server
<1>2. \A r \in Requests : seenRequest'[r] = seenRequest[r] \/ seenRequest'[r] = request'[r]
  BY DEF Inform, Load, SyncRequests, SyncJobs, SyncMaps, ObserveRequest, ObserveJob,
         ObserveMap, ParseConfigMap, TakeConfigMap, server, informer, Typed, TypeOK
<1>3. TargetsKept
  BY <1>1 DEF TargetsKept
<1> QED BY <1>1, <1>2, <1>3, CopiesFollow

LEMMA ClusterFollows ==
  ASSUME Typed, CopiesKeepTarget, Cluster
  PROVE  CopiesKeepTarget' /\ TargetsKept
<1>1. UNCHANGED <<seenRequest, worker>>
  BY DEF Cluster, Submit, Withdraw, EditConfigMap, StartPod, PodSucceeds, PodFails,
         RemoveJob, Outside, informer
<1>2. TargetsKept
  <2>1. CASE UNCHANGED request
    BY <2>1 DEF TargetsKept
  <2>2. ASSUME NEW r \in Requests, NEW n \in Nodes, Submit(r, n) PROVE TargetsKept
    BY <2>2 DEF Submit, TargetsKept, Typed, TypeOK
  <2>3. ASSUME NEW r \in Requests, Withdraw(r) PROVE TargetsKept
    BY <2>3 DEF Withdraw, TargetsKept, Typed, TypeOK, RequestRecord
  <2> QED BY <2>1, <2>2, <2>3
          DEF Cluster, EditConfigMap, StartPod, PodSucceeds, PodFails, RemoveJob
<1>3. \A j \in Jobs : job'[j].phase # "unborn" =>
        job[j].phase # "unborn" /\ job'[j].owner = job[j].owner
  <2>1. CASE UNCHANGED job
    BY <2>1
  <2>2. ASSUME NEW j \in Jobs,
               StartPod(j) \/ PodSucceeds(j) \/ PodFails(j) \/ RemoveJob(j)
        PROVE  \A i \in Jobs : job'[i].phase # "unborn" =>
                 job[i].phase # "unborn" /\ job'[i].owner = job[i].owner
    <3>1. job \in [Jobs -> JobRecord]
      BY DEF Typed, TypeOK
    <3>2. CASE StartPod(j)
      BY <3>1, <3>2 DEF StartPod, JobRecord
    <3>3. CASE PodSucceeds(j)
      BY <3>1, <3>3 DEF PodSucceeds, JobRecord
    <3>4. CASE PodFails(j)
      BY <3>1, <3>4 DEF PodFails, JobRecord
    <3>5. CASE RemoveJob(j)
      BY <3>1, <3>5 DEF RemoveJob, JobRecord
    <3> QED BY <2>2, <3>2, <3>3, <3>4, <3>5
  <2> QED BY <2>1, <2>2 DEF Cluster, Submit, Withdraw, EditConfigMap
<1> QED BY <1>1, <1>2, <1>3, CopiesFollow

LEMMA NextFollows ==
  ASSUME Typed, CopiesKeepTarget, [Next]_vars
  PROVE  CopiesKeepTarget' /\ TargetsKept
<1>1. CASE Crash \/ ConcurrentMapAccess
  BY <1>1, PanicFollows DEF Crash, ConcurrentMapAccess, Panic
<1>2. CASE Restart \/ UNCHANGED vars
  BY <1>2, CopiesFollow DEF Restart, vars, server, informer, TargetsKept
<1> QED BY <1>1, <1>2, TakeFollows, InformFollows, ClusterFollows, StepFollows
        DEF Next, Operator, Handle

LEMMA InitFollows == Init => CopiesKeepTarget
BY DEF Init, CopiesKeepTarget, NoRequests, UnbornRequest, AllIdle, IdleWorker, Carries,
       NoJobs, UnbornJob

-----------------------------------------------------------------------------
(* Configurations that nobody edits.                                       *)

(* ConfigMap c holds a configuration, and it selects node n. *)
Fits(c, n) ==
  c \in ConfigMaps /\ InitialData[c] \in Contents /\ n \in InitialData[c].nodes

(* A copy of a request records no other configuration.                      *)
CopyFits(req) == req.config # None => Fits(req.config, req.target)

WorkerFits(k) ==
  /\ CopyFits(k.req)
  /\ k.pc = "visit" /\ k.chosen # None =>
       Fits(k.chosen, k.req.target) /\ k.cfg = InitialData[k.chosen]
  /\ k.pc \in {"method", "create"} =>
       k.req.config # None /\ k.cfg = InitialData[k.req.config]
  /\ k.pc = "create" => <<k.cfg.methods[k.attempt], k.req.target>> \in Buildable

JobFits(s, n) ==
  /\ Fits(s.config, n) /\ <<s.method, n>> \in Buildable
  /\ \E i \in DOMAIN InitialData[s.config].methods :
       InitialData[s.config].methods[i] = s.method

RequestsFit ==
  \A r \in Requests : /\ CopyFits(request[r]) /\ CopyFits(seenRequest[r])
                      /\ request[r].phase = "unborn" => request[r].config = None

WorkersFit == \A w \in Handlers : WorkerFits(worker[w])

JobsFit ==
  \A j \in Jobs : job[j].phase # "unborn" => JobFits(job[j], request[job[j].owner].target)

(* Each ConfigMap is taken from the queue once in the life of a process, so  *)
(* that no entry of the map is ever cleared.                                 *)
MapsAreLoadedOnce ==
  /\ configmap = [c \in ConfigMaps |-> [live |-> InitialData[c] # None,
                                        data |-> InitialData[c]]]
  /\ IF "ConfigMap" \in synced THEN seenMap = configmap
     ELSE queue.ConfigMap = {} /\ DOMAIN fencingConfigs = {} /\ loader.pc = "idle"
  /\ \A c \in queue.ConfigMap : /\ InitialData[c] # None /\ c \notin DOMAIN fencingConfigs
                                /\ loader.pc = "parse" => loader.name # c
  /\ loader.pc = "parse" => /\ loader.name \notin DOMAIN fencingConfigs
                            /\ loader.data = InitialData[loader.name]
  /\ \A c \in DOMAIN fencingConfigs :
       fencingConfigs[c] = InitialData[c] /\ InitialData[c] \in Contents

ConfigInv == MapsAreLoadedOnce /\ RequestsFit /\ WorkersFit /\ JobsFit

-----------------------------------------------------------------------------
(* The map of configurations.                                              *)

LEMMA InitLoaded == Init => MapsAreLoadedOnce
BY DEF Init, NoConfigs, EmptyQueue, IdleLoader, MapsAreLoadedOnce

LEMMA KeptLoaded ==
  ASSUME MapsAreLoadedOnce,
         UNCHANGED <<configmap, queue.ConfigMap, synced, seenMap, fencingConfigs, loader>>
  PROVE  MapsAreLoadedOnce'
BY DEF MapsAreLoadedOnce

LEMMA ForgetLoaded ==
  ASSUME MapsAreLoadedOnce, Forget, UNCHANGED configmap
  PROVE  MapsAreLoadedOnce'
BY DEF Forget, NoConfigs, EmptyQueue, IdleLoader, MapsAreLoadedOnce

LEMMA TakeLoaded ==
  ASSUME Typed, MapsAreLoadedOnce, NEW c \in ConfigMaps, TakeConfigMap(c)
  PROVE  MapsAreLoadedOnce'
<1>1. /\ "ConfigMap" \in synced /\ c \in queue.ConfigMap /\ loader.pc = "idle"
      /\ queue'.ConfigMap = queue.ConfigMap \ {c}
      /\ UNCHANGED <<configmap, synced, seenMap>>
  BY DEF TakeConfigMap, Dequeue, server, Typed, TypeOK
<1>2. /\ seenMap[c] = [live |-> TRUE, data |-> InitialData[c]]
      /\ c \notin DOMAIN fencingConfigs
  <2>1. configmap[c] = [live |-> InitialData[c] # None, data |-> InitialData[c]]
    BY DEF MapsAreLoadedOnce
  <2>2. seenMap = configmap /\ InitialData[c] # None /\ c \notin DOMAIN fencingConfigs
    BY <1>1 DEF MapsAreLoadedOnce
  <2> QED BY <2>1, <2>2
<1>3. /\ UNCHANGED fencingConfigs
      /\ \/ UNCHANGED loader
         \/ loader' = [pc |-> "parse", name |-> c, data |-> InitialData[c]]
  BY <1>2 DEF TakeConfigMap, ClearOld, config
<1>4. \A d \in queue'.ConfigMap : d # c
  BY <1>1
<1> QED BY <1>1, <1>2, <1>3, <1>4 DEF MapsAreLoadedOnce

LEMMA ParseLoaded ==
  ASSUME Typed, MapsAreLoadedOnce, ParseConfigMap
  PROVE  MapsAreLoadedOnce'
<1>1. /\ loader.pc = "parse" /\ loader'.pc = "idle" /\ "ConfigMap" \in synced
      /\ UNCHANGED <<configmap, synced, seenMap, queue>>
  BY DEF ParseConfigMap, IdleLoader, server, informer, MapsAreLoadedOnce
<1>2. CASE UNCHANGED fencingConfigs
  BY <1>1, <1>2 DEF MapsAreLoadedOnce
<1>3. CASE loader.data \in Contents /\ Store(loader.name, loader.data)
  <2>1. DOMAIN fencingConfigs' = DOMAIN fencingConfigs \cup {loader.name}
    BY <1>3 DEF Store
  <2>2. \A d \in DOMAIN fencingConfigs' :
          fencingConfigs'[d] = IF d = loader.name THEN loader.data ELSE fencingConfigs[d]
    BY <1>3 DEF Store
  <2>3. loader.data = InitialData[loader.name]
    BY <1>1 DEF MapsAreLoadedOnce
  <2> QED BY <1>1, <1>3, <2>1, <2>2, <2>3 DEF MapsAreLoadedOnce
<1> QED BY <1>2, <1>3 DEF ParseConfigMap, Publish

LEMMA NextLoaded ==
  ASSUME Typed, MapsAreLoadedOnce, Edits = {}, [Next]_vars
  PROVE  MapsAreLoadedOnce'
<1>0. queue \in [ConfigMap : SUBSET ConfigMaps, Job : SUBSET Jobs,
                 FencingRequest : SUBSET Requests]
  BY DEF Typed, TypeOK
<1>1. CASE SyncMaps
  <2>1. /\ "ConfigMap" \notin synced /\ synced' = synced \cup {"ConfigMap"}
        /\ seenMap' = configmap /\ UNCHANGED <<configmap, fencingConfigs, loader>>
        /\ queue'.ConfigMap = queue.ConfigMap \cup {c \in ConfigMaps : configmap[c].live}
    BY <1>0, <1>1 DEF SyncMaps, Enqueue, server, config
  <2> QED BY <2>1 DEF MapsAreLoadedOnce
<1>2. ASSUME NEW c \in ConfigMaps, ObserveMap(c) PROVE MapsAreLoadedOnce'
  BY <1>2 DEF ObserveMap, MapsAreLoadedOnce
<1>3. CASE Load
  BY <1>3, TakeLoaded, ParseLoaded DEF Load
<1>4. CASE Crash \/ ConcurrentMapAccess
  BY <1>4, ForgetLoaded DEF Crash, ConcurrentMapAccess, Panic, server
<1>5. CASE Restart \/ UNCHANGED vars
  BY <1>5, KeptLoaded DEF Restart, vars, server, informer, config
<1>6. CASE \/ SyncRequests \/ SyncJobs
           \/ \E r \in Requests : ObserveRequest(r)
           \/ \E j \in Jobs : ObserveJob(j)
  <2>1. /\ UNCHANGED <<configmap, queue.ConfigMap, seenMap, fencingConfigs, loader>>
        /\ "ConfigMap" \in synced' <=> "ConfigMap" \in synced
    BY <1>0, <1>6 DEF SyncRequests, SyncJobs, ObserveRequest, ObserveJob, Enqueue, server, config
  <2> QED BY <2>1 DEF MapsAreLoadedOnce
<1>7. CASE Handle
  <2>1. CASE Forget /\ UNCHANGED configmap
    BY <2>1, ForgetLoaded
  <2>2. ASSUME NEW w \in Handlers, Step(w)
        PROVE  \/ Forget /\ UNCHANGED configmap
               \/ UNCHANGED <<configmap, queue, synced, seenMap, fencingConfigs, loader>>
    BY <2>2 DEF Step, LookupRequest, HandleFencingJob, ChooseConfig, VisitConfig, EndVisit,
       ChooseMethod, CreateJob, WriteStatus, Panic, server, informer, config
  <2>3. CASE (\E r \in Requests : TakeRequest(r)) \/ (\E j \in Jobs : TakeJob(j))
    <3>1. UNCHANGED <<configmap, queue.ConfigMap, synced, seenMap, fencingConfigs, loader>>
      BY <1>0, <2>3 DEF TakeRequest, TakeJob, Dequeue, server, config
    <3> QED BY <3>1, KeptLoaded
  <2> QED BY <1>7, <2>1, <2>2, <2>3, KeptLoaded DEF Handle
<1>8. CASE Cluster
  <2>1. UNCHANGED <<configmap, queue, synced, seenMap, fencingConfigs, loader>>
    BY <1>8 DEF Cluster, Submit, Withdraw, StartPod, PodSucceeds, PodFails, RemoveJob,
       Outside, informer, config
  <2> QED BY <2>1, KeptLoaded
<1> QED BY <1>1, <1>2, <1>3, <1>4, <1>5, <1>6, <1>7, <1>8 DEF Next, Operator, Inform

-----------------------------------------------------------------------------
(* The workers.                                                            *)

(* A status differs, the choice does not. *)
SameChoice(q, req) == q.config = req.config /\ q.target = req.target

LEMMA ChoiceFits ==
  ASSUME NEW q, NEW req, SameChoice(q, req), CopyFits(req)
  PROVE  CopyFits(q)
BY DEF SameChoice, CopyFits

LEMMA ResultKeepsChoice ==
  ASSUME NEW req \in RequestRecord, NEW res
  PROVE  SameChoice(SetFinalResult(req, res), req)
BY DEF SameChoice, RequestRecord, SetFinalResult, AddResult

LEMMA ErrorKeepsChoice ==
  ASSUME NEW req \in RequestRecord, NEW m, NEW last
  PROVE  SameChoice(MethodError(req, m, last), req)
BY DEF SameChoice, RequestRecord, SetFinalResult, MethodError, AddResult

LEMMA AttemptKeepsChoice ==
  ASSUME NEW req \in RequestRecord, NEW j, NEW m, NEW res
  PROVE  SameChoice(AddResult([req EXCEPT !.activeJob = j], m, res), req)
BY DEF SameChoice, RequestRecord, AddResult

LEMMA UnbornFits == CopyFits(UnbornRequest) /\ WorkerFits(IdleWorker)
BY DEF CopyFits, UnbornRequest, WorkerFits, IdleWorker

LEMMA OneWorkerFits ==
  ASSUME Typed, WorkersFit, NEW w \in Handlers, NEW k, WorkerFits(k),
         worker' = [worker EXCEPT ![w] = k]
  PROVE  WorkersFit'
<1>1. \A v \in Handlers : worker'[v] = worker[v] \/ worker'[v] = k
  BY DEF Typed, TypeOK
<1> QED BY <1>1, Zenon DEF WorkersFit

LEMMA FinishFits ==
  ASSUME Typed, WorkersFit, NEW w \in Handlers, Finish(w)
  PROVE  WorkersFit'
BY UnbornFits, OneWorkerFits DEF Finish

LEMMA GotoFits ==
  ASSUME Typed, WorkersFit, NEW w \in Handlers, NEW pc \in {"choose", "write"},
         NEW req, CopyFits(req), Goto(w, pc, req)
  PROVE  WorkersFit'
<1> DEFINE k == [IdleWorker EXCEPT !.pc = pc, !.key = worker[w].key, !.req = req]
<1>1. WorkerFits(k)
  BY DEF WorkerFits, IdleWorker
<1>2. worker' = [worker EXCEPT ![w] = k]
  BY DEF Goto
<1> HIDE DEF k
<1> QED BY <1>1, <1>2, OneWorkerFits

LEMMA ForgetFits == ASSUME Forget PROVE WorkersFit'
<1>1. \A w \in Handlers : worker'[w] = IdleWorker
  BY DEF Forget, AllIdle
<1> QED BY <1>1, UnbornFits, Zenon DEF WorkersFit

(* The entry a handler reads is the configuration that was written. *)
LEMMA EntryFits ==
  ASSUME Typed, MapsAreLoadedOnce, NEW c \in DOMAIN fencingConfigs
  PROVE  /\ c \in ConfigMaps /\ c # None
         /\ fencingConfigs[c] = InitialData[c] /\ InitialData[c] \in Contents
         /\ fencingConfigs[c] # None
<1>1. c \in ConfigMaps
  BY DEF Typed, TypeOK
<1> QED BY <1>1, NoneAssumption, ContentsAssumption DEF MapsAreLoadedOnce

LEMMA LookupFits ==
  ASSUME Typed, RequestsFit, WorkersFit, NEW w \in Handlers, LookupRequest(w)
  PROVE  WorkersFit'
<1>0. PICK r \in Requests : r = worker[w].key
  BY DEF LookupRequest, Typed, TypeOK, WorkerShape, LocalsSet
<1> DEFINE req == request[r]
           done == SetFinalResult(req, "Complete")
<1>1. req \in RequestRecord /\ CopyFits(req)
  BY DEF Typed, TypeOK, RequestsFit
<1>2. CopyFits(done)
  BY <1>1, ResultKeepsChoice, ChoiceFits
<1>3. CASE Write(w, done)
  BY <1>2, <1>3, GotoFits DEF Write
<1>4. CASE Goto(w, "choose", req)
  BY <1>1, <1>4, GotoFits
<1>5. CASE Finish(w) \/ Panic
  BY <1>5, FinishFits, ForgetFits DEF Panic
<1> HIDE DEF done
<1>6. CASE HandleFencingJob(w, req)
  BY <1>3, <1>4, <1>5, <1>6 DEF HandleFencingJob, done
<1> QED BY <1>0, <1>5, <1>6 DEF LookupRequest

LEMMA ChooseConfigFits ==
  ASSUME Typed, MapsAreLoadedOnce, WorkersFit, NEW w \in Handlers, ChooseConfig(w)
  PROVE  WorkersFit'
<1> DEFINE c == worker[w].req.config
           p == [worker[w] EXCEPT !.pc = "method", !.cfg = fencingConfigs[c]]
           q == [worker[w] EXCEPT !.pc = "visit", !.req.config = None,
                                  !.due = DOMAIN fencingConfigs]
<1>1. worker[w] \in WorkerRecord /\ worker[w].req \in RequestRecord
  BY DEF Typed, TypeOK, WorkerRecord
<1>2. CopyFits(worker[w].req) /\ worker[w].chosen = None
  BY DEF WorkersFit, WorkerFits, ChooseConfig, Typed, WorkerShape, LocalsSet
<1>3. CASE Pinned(c)
  <2>1. worker' = [worker EXCEPT ![w] = p]
    BY <1>3 DEF ChooseConfig, Typed, TypeOK
  <2>2. c # None /\ fencingConfigs[c] = InitialData[c]
    BY <1>3, EntryFits DEF Pinned
  <2>3. p.pc = "method" /\ p.req = worker[w].req /\ p.cfg = fencingConfigs[c]
    BY <1>1 DEF WorkerRecord
  <2> HIDE DEF p
  <2>4. WorkerFits(p)
    BY <1>2, <2>2, <2>3 DEF WorkerFits
  <2> QED BY <2>1, <2>4, OneWorkerFits
<1>4. CASE ~Pinned(c)
  <2>1. worker' = [worker EXCEPT ![w] = q]
    BY <1>4 DEF ChooseConfig, Typed, TypeOK
  <2>2. q.pc = "visit" /\ q.chosen = worker[w].chosen
        /\ q.req = [worker[w].req EXCEPT !.config = None]
    BY <1>1 DEF WorkerRecord
  <2> HIDE DEF q
  <2>3. CopyFits(q.req)
    BY <1>1, <1>2, <2>2 DEF CopyFits, RequestRecord
  <2>4. WorkerFits(q)
    BY <1>2, <2>2, <2>3 DEF WorkerFits
  <2> QED BY <2>1, <2>4, OneWorkerFits
<1> QED BY <1>3, <1>4

LEMMA VisitFits ==
  ASSUME Typed, MapsAreLoadedOnce, WorkersFit, NEW w \in Handlers, NEW c \in ConfigMaps,
         VisitConfig(w, c)
  PROVE  WorkersFit'
<1> DEFINE turn == [worker[w] EXCEPT !.visited = @ \cup {c}]
           taken == [turn EXCEPT !.chosen = c, !.cfg = fencingConfigs[c]]
<1>1. worker[w] \in WorkerRecord /\ worker[w].pc = "visit" /\ WorkerFits(worker[w])
  BY DEF Typed, TypeOK, VisitConfig, WorkersFit
<1>2. fencingConfigs[c] = InitialData[c] /\ InitialData[c] \in Contents
  BY EntryFits DEF VisitConfig
<1>3. CASE worker' = [worker EXCEPT ![w] = turn]
  <2>1. /\ turn.pc = "visit" /\ turn.req = worker[w].req
        /\ turn.chosen = worker[w].chosen /\ turn.cfg = worker[w].cfg
    BY <1>1 DEF WorkerRecord
  <2> HIDE DEF turn
  <2>2. WorkerFits(turn)
    BY <1>1, <2>1 DEF WorkerFits
  <2> QED BY <1>3, <2>2, OneWorkerFits
<1>4. CASE /\ worker' = [worker EXCEPT ![w] = taken]
           /\ worker[w].req.target \in fencingConfigs[c].nodes
  <2>1. /\ taken.pc = "visit" /\ taken.req = worker[w].req
        /\ taken.chosen = c /\ taken.cfg = fencingConfigs[c]
    BY <1>1 DEF WorkerRecord
  <2> HIDE DEF taken
  <2>2. WorkerFits(taken)
    BY <1>1, <1>2, <1>4, <2>1 DEF WorkerFits, Fits
  <2> QED BY <1>4, <2>2, OneWorkerFits
<1>5. CASE Panic
  BY <1>5, ForgetFits DEF Panic
<1> QED BY <1>3, <1>4, <1>5 DEF VisitConfig, Selects

LEMMA EndVisitFits ==
  ASSUME Typed, WorkersFit, NEW w \in Handlers, EndVisit(w)
  PROVE  WorkersFit'
<1> DEFINE req == worker[w].req
           k == [worker[w] EXCEPT !.pc = "method", !.req.config = worker[w].chosen,
                                  !.chosen = None, !.due = {}, !.visited = {}]
<1>1. worker[w] \in WorkerRecord /\ req \in RequestRecord /\ WorkerFits(worker[w])
  BY DEF Typed, TypeOK, WorkerRecord, WorkersFit
<1>2. CASE NoConfigFound(w)
  <2>1. CopyFits(SetFinalResult(req, "NoConfig"))
    BY <1>1, ResultKeepsChoice, ChoiceFits DEF WorkerFits
  <2> QED BY <1>2, <2>1, GotoFits DEF NoConfigFound, Write
<1>3. CASE worker[w].chosen # None
  <2>1. worker' = [worker EXCEPT ![w] = k]
    BY <1>3 DEF EndVisit, Typed, TypeOK
  <2>2. /\ k.pc = "method" /\ k.cfg = worker[w].cfg
        /\ k.req = [req EXCEPT !.config = worker[w].chosen]
    BY <1>1 DEF WorkerRecord
  <2> HIDE DEF k
  <2>3. k.req.config = worker[w].chosen /\ k.req.target = req.target
    BY <1>1, <2>2 DEF RequestRecord
  <2>4. Fits(worker[w].chosen, req.target) /\ k.cfg = InitialData[worker[w].chosen]
    BY <1>1, <1>3, <2>2 DEF WorkerFits, CopyFits, EndVisit
  <2>5. WorkerFits(k)
    BY <1>3, <2>2, <2>3, <2>4 DEF WorkerFits, CopyFits
  <2> QED BY <2>1, <2>5, OneWorkerFits
<1> QED BY <1>2, <1>3 DEF EndVisit

LEMMA ChooseMethodFits ==
  ASSUME Typed, WorkersFit, NEW w \in Handlers, ChooseMethod(w)
  PROVE  WorkersFit'
<1> DEFINE req == worker[w].req
           methods == worker[w].cfg.methods
<1>1. /\ worker[w] \in WorkerRecord /\ req \in RequestRecord
      /\ WorkerFits(worker[w]) /\ worker[w].pc = "method"
  BY DEF Typed, TypeOK, WorkerRecord, WorkersFit, ChooseMethod
<1>2. ASSUME NEW i, <<methods[i], req.target>> \in Buildable,
             worker' = [worker EXCEPT ![w].pc = "create", ![w].attempt = i]
      PROVE  WorkersFit'
  <2> DEFINE k == [worker[w] EXCEPT !.pc = "create", !.attempt = i]
  <2>1. worker' = [worker EXCEPT ![w] = k]
    BY <1>2 DEF Typed, TypeOK
  <2>2. k.pc = "create" /\ k.attempt = i /\ k.req = req /\ k.cfg = worker[w].cfg
    BY <1>1 DEF WorkerRecord
  <2> HIDE DEF k
  <2>3. WorkerFits(k)
    BY <1>1, <1>2, <2>2 DEF WorkerFits
  <2> QED BY <2>1, <2>3, OneWorkerFits
<1>3. ASSUME NEW m, NEW last, Write(w, MethodError(req, m, last)) PROVE WorkersFit'
  <2>1. CopyFits(MethodError(req, m, last))
    BY <1>1, ErrorKeepsChoice, ChoiceFits DEF WorkerFits
  <2> QED BY <1>3, <2>1, GotoFits DEF Write
<1>4. CASE Finish(w) \/ Panic
  BY <1>4, FinishFits, ForgetFits DEF Panic
<1>5. ASSUME NEW i, IF <<methods[i], req.target>> \in Buildable
                    THEN worker' = [worker EXCEPT ![w].pc = "create", ![w].attempt = i]
                    ELSE Write(w, MethodError(req, methods[i], i = Len(methods)))
      PROVE  WorkersFit'
  BY <1>2, <1>3, <1>5
<1> QED BY <1>4, <1>5 DEF ChooseMethod

LEMMA CreateJobFits ==
  ASSUME Typed, WorkersFit, NEW w \in Handlers, CreateJob(w)
  PROVE  WorkersFit'
<1> DEFINE req == worker[w].req
<1>1. req \in RequestRecord /\ CopyFits(req)
  BY DEF Typed, TypeOK, WorkerRecord, WorkersFit, WorkerFits
<1>2. ASSUME NEW m, NEW last, Write(w, MethodError(req, m, last)) PROVE WorkersFit'
  <2>1. CopyFits(MethodError(req, m, last))
    BY <1>1, ErrorKeepsChoice, ChoiceFits
  <2> QED BY <1>2, <2>1, GotoFits DEF Write
<1>3. ASSUME NEW j, NEW m,
             Write(w, AddResult([req EXCEPT !.activeJob = j], m, "MethodInProgress"))
      PROVE  WorkersFit'
  <2>1. CopyFits(AddResult([req EXCEPT !.activeJob = j], m, "MethodInProgress"))
    BY <1>1, AttemptKeepsChoice, ChoiceFits
  <2> QED BY <1>3, <2>1, GotoFits DEF Write
<1> QED BY <1>2, <1>3 DEF CreateJob

LEMMA NextWorkersFit ==
  ASSUME Typed, ConfigInv, [Next]_vars
  PROVE  WorkersFit'
<1>0. MapsAreLoadedOnce /\ RequestsFit /\ WorkersFit
  BY DEF ConfigInv
<1>1. CASE \E w \in Handlers : Step(w)
  <2>1. ASSUME NEW w \in Handlers, WriteStatus(w) PROVE WorkersFit'
    BY <1>0, <2>1, FinishFits DEF WriteStatus
  <2> QED BY <1>0, <1>1, <2>1, LookupFits, ChooseConfigFits, VisitFits, EndVisitFits,
             ChooseMethodFits, CreateJobFits DEF Step
<1>2. ASSUME NEW r \in Requests, TakeRequest(r) PROVE WorkersFit'
  <2> DEFINE k == [IdleWorker EXCEPT !.pc = "choose", !.key = r, !.req = seenRequest[r]]
  <2>1. UNCHANGED worker \/ worker' = [worker EXCEPT !["FencingRequest"] = k]
    BY <1>2 DEF TakeRequest
  <2>2. CopyFits(seenRequest[r])
    BY <1>0 DEF RequestsFit
  <2>3. WorkerFits(k)
    BY <2>2 DEF WorkerFits, IdleWorker
  <2> HIDE DEF k
  <2>4. "FencingRequest" \in Handlers
    BY DEF Handlers
  <2> QED BY <1>0, <2>1, <2>3, <2>4, OneWorkerFits DEF WorkersFit
<1>3. ASSUME NEW j \in Jobs, TakeJob(j) PROVE WorkersFit'
  <2> DEFINE k == [IdleWorker EXCEPT !.pc = "lookup", !.key = seenJob[j].owner,
                                     !.event = j, !.status = seenJob[j]]
  <2>1. UNCHANGED worker \/ worker' = [worker EXCEPT !["Job"] = k]
    BY <1>3 DEF TakeJob
  <2>2. k.pc = "lookup" /\ k.req = UnbornRequest
    BY DEF IdleWorker
  <2> HIDE DEF k
  <2>3. WorkerFits(k)
    BY <2>2, UnbornFits DEF WorkerFits
  <2>4. "Job" \in Handlers
    BY DEF Handlers
  <2> QED BY <1>0, <2>1, <2>3, <2>4, OneWorkerFits DEF WorkersFit
<1>4. CASE Crash \/ ConcurrentMapAccess
  BY <1>4, ForgetFits DEF Crash, ConcurrentMapAccess, Panic
<1>5. CASE UNCHANGED worker
  BY <1>0, <1>5 DEF WorkersFit
<1>6. CASE Inform \/ Load \/ Restart \/ Cluster \/ UNCHANGED vars
  BY <1>5, <1>6 DEF Inform, SyncRequests, SyncJobs, SyncMaps, ObserveRequest, ObserveJob,
     ObserveMap, Load, ParseConfigMap, TakeConfigMap, Restart, Cluster, Submit, Withdraw,
     EditConfigMap, StartPod, PodSucceeds, PodFails, RemoveJob, Outside, vars
<1> QED BY <1>1, <1>2, <1>3, <1>4, <1>6 DEF Next, Operator, Handle

-----------------------------------------------------------------------------
(* The requests and the Jobs.                                              *)

LEMMA StoredKeepsChoice ==
  ASSUME NEW req \in RequestRecord
  PROVE  SameChoice(Stored(req), req)
BY DEF SameChoice, RequestRecord, Stored, Encoded

(* What the informer's copy and the server's object come from.              *)
LEMMA NextSeen ==
  ASSUME Typed, [Next]_vars, NEW r \in Requests
  PROVE  seenRequest'[r] \in {seenRequest[r], request[r], UnbornRequest}
<1>1. CASE UNCHANGED seenRequest
  BY <1>1
<1>2. CASE Forget
  BY <1>2 DEF Forget, NoRequests
<1>3. ASSUME NEW w \in Handlers, Step(w) PROVE UNCHANGED seenRequest \/ Forget
  BY <1>3 DEF Step, LookupRequest, HandleFencingJob, ChooseConfig, VisitConfig, EndVisit,
     ChooseMethod, CreateJob, WriteStatus, Panic, informer
<1>4. CASE Crash \/ ConcurrentMapAccess
  BY <1>2, <1>4 DEF Crash, ConcurrentMapAccess, Panic
<1>5. CASE Inform \/ Load \/ Restart \/ Cluster \/ UNCHANGED vars
  BY <1>5 DEF Inform, SyncRequests, SyncJobs, SyncMaps, ObserveRequest, ObserveJob,
     ObserveMap, Load, ParseConfigMap, TakeConfigMap, Restart, Cluster, Submit, Withdraw,
     EditConfigMap, StartPod, PodSucceeds, PodFails, RemoveJob, Outside, vars, informer,
     Typed, TypeOK
<1>6. CASE (\E q \in Requests : TakeRequest(q)) \/ (\E j \in Jobs : TakeJob(j))
  BY <1>6 DEF TakeRequest, TakeJob
<1> QED BY <1>1, <1>2, <1>3, <1>4, <1>5, <1>6 DEF Next, Operator, Handle

LEMMA NextRequest ==
  ASSUME Typed, [Next]_vars, NEW r \in Requests
  PROVE  \/ request'[r] = request[r]
         \/ \E n \in Nodes : request'[r] = [request[r] EXCEPT !.phase = "live", !.target = n]
                             /\ request[r].phase = "unborn"
         \/ request[r].phase = "live" /\ request'[r] = [request[r] EXCEPT !.phase = "gone"]
         \/ \E w \in Handlers : WriteStatus(w) /\ request'[r] = Stored(worker[w].req)
<1>0. request \in [Requests -> RequestRecord]
  BY DEF Typed, TypeOK
<1>1. CASE UNCHANGED request
  BY <1>1
<1>2. ASSUME NEW q \in Requests, NEW n \in Nodes, Submit(q, n)
      PROVE  \/ request'[r] = request[r]
             \/ /\ request'[r] = [request[r] EXCEPT !.phase = "live", !.target = n]
                /\ request[r].phase = "unborn"
  BY <1>0, <1>2 DEF Submit, RequestRecord
<1>3. ASSUME NEW q \in Requests, Withdraw(q)
      PROVE  \/ request'[r] = request[r]
             \/ request[r].phase = "live" /\ request'[r] = [request[r] EXCEPT !.phase = "gone"]
  BY <1>0, <1>3 DEF Withdraw, RequestRecord
<1>4. ASSUME NEW w \in Handlers, WriteStatus(w)
      PROVE  request'[r] = request[r] \/ request'[r] = Stored(worker[w].req)
  BY <1>0, <1>4 DEF WriteStatus
<1>5. ASSUME NEW w \in Handlers, Step(w) PROVE UNCHANGED request \/ WriteStatus(w)
  BY <1>5 DEF Step, LookupRequest, HandleFencingJob, ChooseConfig, VisitConfig, EndVisit,
     ChooseMethod, CreateJob, Panic, server
<1>6. CASE (\E q \in Requests : TakeRequest(q)) \/ (\E j \in Jobs : TakeJob(j))
  BY <1>1, <1>6 DEF TakeRequest, TakeJob, server
<1>7. CASE Crash \/ ConcurrentMapAccess
  BY <1>1, <1>7 DEF Crash, ConcurrentMapAccess, Panic, server
<1>8. CASE Inform \/ Load \/ Restart \/ UNCHANGED vars
  BY <1>1, <1>8 DEF Inform, SyncRequests, SyncJobs, SyncMaps, ObserveRequest, ObserveJob,
     ObserveMap, Load, ParseConfigMap, TakeConfigMap, Restart, vars, server
<1>9. CASE Cluster
  BY <1>1, <1>2, <1>3, <1>9 DEF Cluster, EditConfigMap, StartPod, PodSucceeds, PodFails,
     RemoveJob
<1> QED BY <1>1, <1>4, <1>5, <1>6, <1>7, <1>8, <1>9 DEF Next, Operator, Handle

LEMMA NextRequestsFit ==
  ASSUME Typed, CopiesKeepTarget, ConfigInv, [Next]_vars
  PROVE  RequestsFit'
<1>0. RequestsFit /\ WorkersFit /\ request \in [Requests -> RequestRecord]
  BY DEF ConfigInv, Typed, TypeOK
<1>1. ASSUME NEW r \in Requests
      PROVE  CopyFits(request'[r]) /\ (request'[r].phase = "unborn" => request'[r].config = None)
  <2>1. CASE request'[r] = request[r]
    BY <1>0, <2>1 DEF RequestsFit
  <2>2. ASSUME NEW n \in Nodes, request[r].phase = "unborn",
               request'[r] = [request[r] EXCEPT !.phase = "live", !.target = n]
        PROVE  CopyFits(request'[r]) /\ request'[r].phase # "unborn"
    BY <1>0, <2>2 DEF RequestsFit, CopyFits, RequestRecord
  <2>3. CASE request'[r] = [request[r] EXCEPT !.phase = "gone"]
    BY <1>0, <2>3 DEF RequestsFit, CopyFits, RequestRecord
  <2>4. ASSUME NEW w \in Handlers, WriteStatus(w), request'[r] = Stored(worker[w].req)
        PROVE  CopyFits(request'[r]) /\ request'[r].phase # "unborn"
    <3> DEFINE req == worker[w].req
    <3>1. req \in RequestRecord /\ CopyFits(req) /\ req.phase # "unborn"
      BY <1>0, <2>4 DEF WriteStatus, Typed, TypeOK, WorkerRecord, WorkersFit, WorkerFits,
         CopiesKeepTarget, Carries
    <3> QED BY <2>4, <3>1, StoredKeepsChoice, StoredKeepsTarget, ChoiceFits
  <2> QED BY <2>1, <2>2, <2>3, <2>4, NextRequest
<1> QED BY <1>0, <1>1, NextSeen, UnbornFits DEF RequestsFit, UnbornRequest

(* Only CreateJob makes a Job; what it is made from never changes. *)
LEMMA NextJobs ==
  ASSUME Typed, [Next]_vars, NEW j \in Jobs, job'[j].phase # "unborn"
  PROVE  \/ /\ job[j].phase # "unborn" /\ job'[j].owner = job[j].owner
            /\ job'[j].config = job[j].config /\ job'[j].method = job[j].method
         \/ \E w \in Handlers :
              /\ CreateJob(w)
              /\ job'[j].owner = worker[w].key /\ job'[j].config = worker[w].req.config
              /\ job'[j].method = worker[w].cfg.methods[worker[w].attempt]
<1>0. job \in [Jobs -> JobRecord]
  BY DEF Typed, TypeOK
<1>1. CASE UNCHANGED job
  BY <1>1
<1>2. ASSUME NEW i \in Jobs, StartPod(i) \/ PodSucceeds(i) \/ PodFails(i) \/ RemoveJob(i)
      PROVE  /\ job[j].phase # "unborn" /\ job'[j].owner = job[j].owner
             /\ job'[j].config = job[j].config /\ job'[j].method = job[j].method
  <2>1. CASE StartPod(i)
    BY <1>0, <2>1 DEF StartPod, JobRecord
  <2>2. CASE PodSucceeds(i)
    BY <1>0, <2>2 DEF PodSucceeds, JobRecord
  <2>3. CASE PodFails(i)
    BY <1>0, <2>3 DEF PodFails, JobRecord
  <2>4. CASE RemoveJob(i)
    BY <1>0, <2>4 DEF RemoveJob, JobRecord
  <2> QED BY <1>2, <2>1, <2>2, <2>3, <2>4
<1>3. ASSUME NEW w \in Handlers, CreateJob(w)
      PROVE  \/ job'[j] = job[j]
             \/ /\ job'[j].owner = worker[w].key /\ job'[j].config = worker[w].req.config
                /\ job'[j].method = worker[w].cfg.methods[worker[w].attempt]
  BY <1>3, CreateJobMakes
<1>4. ASSUME NEW w \in Handlers, Step(w) PROVE UNCHANGED job \/ CreateJob(w)
  BY <1>4 DEF Step, LookupRequest, HandleFencingJob, ChooseConfig, VisitConfig, EndVisit,
     ChooseMethod, WriteStatus, Panic, server
<1>5. CASE (\E q \in Requests : TakeRequest(q)) \/ (\E i \in Jobs : TakeJob(i))
  BY <1>1, <1>5 DEF TakeRequest, TakeJob, server
<1>6. CASE Handle
  BY <1>1, <1>3, <1>4, <1>5, <1>6 DEF Handle
<1>7. CASE Crash \/ ConcurrentMapAccess \/ Inform \/ Load \/ Restart \/ UNCHANGED vars
  BY <1>1, <1>7 DEF Inform, SyncRequests, SyncJobs, SyncMaps, ObserveRequest, ObserveJob,
     ObserveMap, Load, ParseConfigMap, TakeConfigMap, Restart, vars, server, Crash,
     ConcurrentMapAccess, Panic
<1>8. CASE Cluster
  BY <1>1, <1>2, <1>8 DEF Cluster, Submit, Withdraw, EditConfigMap
<1> QED BY <1>6, <1>7, <1>8 DEF Next, Operator

LEMMA NextJobsFit ==
  ASSUME Typed, CopiesKeepTarget, ConfigInv, [Next]_vars
  PROVE  JobsFit'
<1>1. ASSUME NEW j \in Jobs, job'[j].phase # "unborn"
      PROVE  JobFits(job'[j], request'[job'[j].owner].target)
  <2>1. CASE /\ job[j].phase # "unborn" /\ job'[j].owner = job[j].owner
             /\ job'[j].config = job[j].config /\ job'[j].method = job[j].method
    <3>1. PICK r \in Requests : r = job[j].owner
      BY <2>1 DEF Typed, WorkerShape
    <3>2. request'[r].target = request[r].target
      BY <2>1, <3>1, NextFollows DEF TargetsKept, CopiesKeepTarget
    <3> QED BY <2>1, <3>1, <3>2 DEF ConfigInv, JobsFit, JobFits
  <2>2. ASSUME NEW w \in Handlers, CreateJob(w),
               job'[j].owner = worker[w].key, job'[j].config = worker[w].req.config,
               job'[j].method = worker[w].cfg.methods[worker[w].attempt]
        PROVE  JobFits(job'[j], request'[job'[j].owner].target)
    <3>1. worker[w].pc = "create" /\ UNCHANGED request
      BY <2>2 DEF CreateJob
    <3>2. worker[w].req.target = request[worker[w].key].target
      BY <3>1 DEF CopiesKeepTarget, Carries, SameTarget
    <3>3. /\ worker[w].req.config # None /\ worker[w].cfg = InitialData[worker[w].req.config]
          /\ <<worker[w].cfg.methods[worker[w].attempt], worker[w].req.target>> \in Buildable
          /\ CopyFits(worker[w].req)
      BY <3>1 DEF ConfigInv, WorkersFit, WorkerFits
    <3>4. worker[w].attempt \in DOMAIN worker[w].cfg.methods
      BY <3>1, ContentsAssumption DEF Typed, WorkerShape, LocalsSet, ContentRecord
    <3> QED BY <2>2, <3>1, <3>2, <3>3, <3>4 DEF JobFits, CopyFits
  <2> QED BY <1>1, <2>1, <2>2, NextJobs
<1> QED BY <1>1 DEF JobsFit

LEMMA InitConfig == Init => ConfigInv
<1> SUFFICES ASSUME Init PROVE ConfigInv
  OBVIOUS
<1>1. RequestsFit /\ WorkersFit
  BY UnbornFits DEF Init, NoRequests, UnbornRequest, AllIdle, RequestsFit, WorkersFit
<1>2. JobsFit
  BY DEF Init, NoJobs, UnbornJob, JobsFit
<1> QED BY <1>1, <1>2, InitLoaded DEF ConfigInv

(* While nobody edits the configuration, a Job runs a method of the         *)
(* configuration it is labelled with, which selects its target and knows    *)
(* how to fence it, in whatever order the ConfigMaps are read and however   *)
(* often the operator starts over.                                          *)
THEOREM JobsFollowTheirConfig ==
  ASSUME Edits = {} PROVE Spec => []JobsFollowConfig
<1> DEFINE I == Typed /\ CopiesKeepTarget /\ ConfigInv
<1>1. Init => I
  BY InitTyped, InitFollows, InitConfig
<1>2. I /\ [Next]_vars => I'
  BY NextTyped, NextFollows, NextLoaded, NextRequestsFit, NextWorkersFit, NextJobsFit
     DEF ConfigInv
<1>3. I => JobsFollowConfig
  <2> SUFFICES ASSUME I, NEW j \in Jobs, job[j].phase # "unborn"
               PROVE  LET cfg == configmap[job[j].config].data
                          target == request[job[j].owner].target
                      IN /\ cfg \in Contents /\ target \in cfg.nodes
                         /\ \E i \in DOMAIN cfg.methods : cfg.methods[i] = job[j].method
                         /\ <<job[j].method, target>> \in Buildable
    BY DEF JobsFollowConfig
  <2>1. JobFits(job[j], request[job[j].owner].target)
    BY DEF ConfigInv, JobsFit
  <2>2. configmap[job[j].config].data = InitialData[job[j].config]
    BY <2>1 DEF ConfigInv, MapsAreLoadedOnce, JobFits, Fits
  <2> QED BY <2>1, <2>2 DEF JobFits, Fits
<1> QED BY <1>1, <1>2, <1>3, PTL DEF Spec


-----------------------------------------------------------------------------
(* The map of configurations, however the ConfigMaps are edited.           *)

(* The loader cleared the entry of the ConfigMap it parses; what it parses  *)
(* is the informer's copy, unless a newer one waits in the queue.           *)
LoaderFollows ==
  /\ "ConfigMap" \notin synced =>
       /\ queue.ConfigMap = {} /\ DOMAIN fencingConfigs = {}
       /\ loader.pc = "idle" /\ seenMap = NoMaps
  /\ loader.pc = "idle" => loader.name = None
  /\ loader.pc = "parse" =>
       /\ Held(loader.name) = None
       /\ loader.name \notin queue.ConfigMap =>
            seenMap[loader.name].live /\ loader.data = seenMap[loader.name].data

ViewInv == LoaderFollows /\ ViewIsCurrent

LEMMA StoreHolds ==
  ASSUME NEW c, NEW entry, Store(c, entry), NEW d
  PROVE  Held(d)' = IF d = c THEN entry ELSE Held(d)
BY DEF Store, Held

LEMMA ViewKept ==
  ASSUME ViewInv,
         UNCHANGED <<queue.ConfigMap, seenMap, fencingConfigs, loader>>,
         "ConfigMap" \in synced' <=> "ConfigMap" \in synced
  PROVE  ViewInv'
<1>1. \A c : Held(c)' = Held(c)
  BY DEF Held
<1>2. ViewIsCurrent'
  BY <1>1 DEF ViewInv, ViewIsCurrent, UnderWay, Reading
<1>3. LoaderFollows'
  BY <1>1 DEF ViewInv, LoaderFollows
<1> QED BY <1>2, <1>3 DEF ViewInv

LEMMA EmptyView ==
  ASSUME fencingConfigs = NoConfigs, seenMap = NoMaps, queue = EmptyQueue,
         synced = {}, loader = IdleLoader
  PROVE  ViewInv
<1>1. \A c : Held(c) = None
  BY DEF Held, NoConfigs
<1>2. \A c \in ConfigMaps : Reading(seenMap[c]) = None
  BY DEF NoMaps, NoMap, Reading
<1> QED BY <1>1, <1>2 DEF ViewInv, ViewIsCurrent, LoaderFollows, NoConfigs, EmptyQueue,
                          IdleLoader

LEMMA ForgottenView == ASSUME Forget PROVE ViewInv'
<1>1. \A c : Held(c)' = None
  BY DEF Forget, Held, NoConfigs
<1>2. \A c \in ConfigMaps : Reading(seenMap[c])' = None
  BY DEF Forget, NoMaps, NoMap, Reading
<1> QED BY <1>1, <1>2 DEF Forget, ViewInv, ViewIsCurrent, LoaderFollows, NoConfigs,
                          EmptyQueue, IdleLoader

LEMMA SyncedView ==
  ASSUME Typed, ViewInv, SyncMaps
  PROVE  ViewInv'
<1>1. /\ DOMAIN fencingConfigs = {} /\ queue.ConfigMap = {} /\ loader.pc = "idle"
      /\ loader.name = None
      /\ UNCHANGED <<fencingConfigs, loader>> /\ seenMap' = configmap
      /\ queue'.ConfigMap = {c \in ConfigMaps : configmap[c].live}
      /\ "ConfigMap" \in synced'
  BY DEF SyncMaps, Enqueue, config, ViewInv, LoaderFollows, Typed, TypeOK
<1>2. \A c \in ConfigMaps : ~UnderWay(c)' => Reading(seenMap[c])' = None
  BY <1>1 DEF UnderWay, Reading
<1>3. \A c : Held(c)' = None
  BY <1>1 DEF Held
<1> QED BY <1>1, <1>2, <1>3 DEF ViewInv, ViewIsCurrent, LoaderFollows

LEMMA ObservedView ==
  ASSUME Typed, ViewInv, NEW c \in ConfigMaps, ObserveMap(c)
  PROVE  ViewInv'
<1>1. /\ UNCHANGED <<fencingConfigs, loader, synced>> /\ "ConfigMap" \in synced
      /\ \A d \in ConfigMaps : d # c => seenMap'[d] = seenMap[d]
      /\ queue'.ConfigMap = queue.ConfigMap \cup {c}
  BY DEF ObserveMap, Enqueue, config, Typed, TypeOK
<1>2. \A d : Held(d)' = Held(d)
  BY <1>1 DEF Held
<1>3. ViewIsCurrent'
  BY <1>1, <1>2 DEF ViewInv, ViewIsCurrent, UnderWay, Reading
<1>4. LoaderFollows'
  BY <1>1, <1>2 DEF ViewInv, LoaderFollows, Typed, WorkerShape
<1> QED BY <1>3, <1>4 DEF ViewInv

LEMMA TakenView ==
  ASSUME Typed, ViewInv, NEW c \in ConfigMaps, TakeConfigMap(c)
  PROVE  ViewInv'
<1>1. /\ "ConfigMap" \in synced /\ c \in queue.ConfigMap /\ UNCHANGED <<synced, seenMap>>
      /\ loader.pc = "idle" /\ loader.name = None /\ c # None
      /\ queue'.ConfigMap = queue.ConfigMap \ {c}
  BY NoneAssumption DEF TakeConfigMap, Dequeue, Typed, TypeOK, ViewInv, LoaderFollows
<1>2. CASE seenMap[c].data = NoKey /\ UNCHANGED config
  <2>1. \A d : Held(d)' = Held(d)
    BY <1>2 DEF config, Held
  <2> QED BY <1>1, <1>2, <2>1
          DEF config, ViewInv, ViewIsCurrent, LoaderFollows, UnderWay, Reading
<1>3. CASE ~seenMap[c].live /\ Store(c, None) /\ UNCHANGED loader
  <2>1. \A d : Held(d)' = IF d = c THEN None ELSE Held(d)
    BY <1>3, StoreHolds
  <2> QED BY <1>1, <1>3, <2>1 DEF ViewInv, ViewIsCurrent, LoaderFollows, UnderWay, Reading
<1>4. CASE /\ seenMap[c].live /\ ClearOld(c)
           /\ loader' = [pc |-> "parse", name |-> c, data |-> seenMap[c].data]
  <2>1. \A d : Held(d)' = IF d = c THEN None ELSE Held(d)
    BY <1>4, StoreHolds DEF ClearOld, Held
  <2>2. /\ loader'.pc = "parse" /\ loader'.name = c /\ loader'.data = seenMap[c].data
    BY <1>4
  <2>3. ViewIsCurrent'
    <3> SUFFICES ASSUME NEW d \in ConfigMaps, d \notin queue.ConfigMap \ {c}, d # c,
                        seenMap[d].data # NoKey
                 PROVE  Held(d)' = Reading(seenMap[d])
      BY <1>1, <2>2 DEF ViewIsCurrent, UnderWay, Reading
    <3>1. ~UnderWay(d)
      BY <1>1, NoneAssumption DEF UnderWay
    <3> QED BY <2>1, <3>1 DEF ViewInv, ViewIsCurrent
  <2>4. LoaderFollows'
    BY <1>1, <1>4, <2>1, <2>2 DEF LoaderFollows
  <2> QED BY <2>3, <2>4 DEF ViewInv
<1> QED BY <1>2, <1>3, <1>4 DEF TakeConfigMap

LEMMA ParsedView ==
  ASSUME Typed, ViewInv, ParseConfigMap
  PROVE  ViewInv'
<1> DEFINE c == loader.name
<1>1. /\ loader.pc = "parse" /\ c \in ConfigMaps /\ Held(c) = None /\ "ConfigMap" \in synced
      /\ c \notin queue.ConfigMap => seenMap[c].live /\ loader.data = seenMap[c].data
      /\ UNCHANGED <<queue, synced, seenMap>>
      /\ loader'.pc = "idle" /\ loader'.name = None
  BY DEF ParseConfigMap, IdleLoader, informer, Typed, WorkerShape, ViewInv, LoaderFollows
<1>2. \A d : Held(d)' = IF d = c /\ loader.data \in Contents THEN loader.data ELSE Held(d)
  BY StoreHolds DEF ParseConfigMap, Publish, Held
<1>3. ViewIsCurrent'
  <2> SUFFICES ASSUME NEW d \in ConfigMaps, d \notin queue.ConfigMap,
                      seenMap[d].data # NoKey
               PROVE  Held(d)' = Reading(seenMap[d])
    BY <1>1 DEF ViewIsCurrent, UnderWay, Reading
  <2>1. CASE d = c
    BY <1>1, <1>2, <2>1 DEF Reading
  <2>2. CASE d # c
    BY <1>2, <2>2 DEF ViewInv, ViewIsCurrent, UnderWay
  <2> QED BY <2>1, <2>2
<1> QED BY <1>1, <1>3 DEF ViewInv, LoaderFollows

LEMMA NextView ==
  ASSUME Typed, ViewInv, [Next]_vars
  PROVE  ViewInv'
<1>0. queue \in [ConfigMap : SUBSET ConfigMaps, Job : SUBSET Jobs,
                 FencingRequest : SUBSET Requests]
  BY DEF Typed, TypeOK
<1>1. CASE Load
  BY <1>1, TakenView, ParsedView DEF Load
<1>2. CASE Crash \/ ConcurrentMapAccess
  BY <1>2, ForgottenView DEF Crash, ConcurrentMapAccess, Panic
<1>3. CASE \/ SyncRequests \/ SyncJobs
           \/ \E r \in Requests : ObserveRequest(r)
           \/ \E j \in Jobs : ObserveJob(j)
  <2>1. /\ UNCHANGED <<queue.ConfigMap, seenMap, fencingConfigs, loader>>
        /\ "ConfigMap" \in synced' <=> "ConfigMap" \in synced
    BY <1>0, <1>3 DEF SyncRequests, SyncJobs, ObserveRequest, ObserveJob, Enqueue, config
  <2> QED BY <2>1, ViewKept
<1>4. CASE Handle
  <2>1. ASSUME NEW w \in Handlers, Step(w)
        PROVE  Forget \/ UNCHANGED <<queue, synced, seenMap, fencingConfigs, loader>>
    BY <2>1 DEF Step, LookupRequest, HandleFencingJob, ChooseConfig, VisitConfig, EndVisit,
       ChooseMethod, CreateJob, WriteStatus, Panic, informer, config
  <2>2. CASE (\E r \in Requests : TakeRequest(r)) \/ (\E j \in Jobs : TakeJob(j))
    <3>1. UNCHANGED <<queue.ConfigMap, synced, seenMap, fencingConfigs, loader>>
      BY <1>0, <2>2 DEF TakeRequest, TakeJob, Dequeue, config
    <3> QED BY <3>1, ViewKept
  <2> QED BY <1>4, <2>1, <2>2, ViewKept, ForgottenView DEF Handle
<1>5. CASE Restart \/ Cluster \/ UNCHANGED vars
  <2>1. UNCHANGED <<queue, synced, seenMap, fencingConfigs, loader>>
    BY <1>5 DEF Restart, Cluster, Submit, Withdraw, EditConfigMap, StartPod, PodSucceeds,
       PodFails, RemoveJob, Outside, vars, informer, config
  <2> QED BY <2>1, ViewKept
<1> QED BY <1>1, <1>2, <1>3, <1>4, <1>5, SyncedView, ObservedView DEF Next, Operator, Inform

(* A ConfigMap whose last event the loader is done with is held as the      *)
(* informer has it, whatever is edited, deleted, created again, queued      *)
(* twice, parsed late or forgotten in a crash or a panic.                   *)
THEOREM ViewStaysCurrent == Spec => []ViewIsCurrent
<1>1. Init => Typed /\ ViewInv
  BY InitTyped, EmptyView DEF Init
<1>2. Typed /\ ViewInv /\ [Next]_vars => (Typed /\ ViewInv)'
  BY NextTyped, NextView
<1>3. ViewInv => ViewIsCurrent
  BY DEF ViewInv
<1> QED BY <1>1, <1>2, <1>3, PTL DEF Spec

-----------------------------------------------------------------------------
(* Panics.  No method is ever recorded as active, in any copy.             *)

MethodsForgotten ==
  /\ \A r \in Requests : request[r].activeMethod = None /\ seenRequest[r].activeMethod = None
  /\ \A w \in Handlers : worker[w].req.activeMethod = None

LEMMA ResultKeepsMethod ==
  ASSUME NEW req \in RequestRecord, NEW res
  PROVE  SetFinalResult(req, res).activeMethod = req.activeMethod
BY DEF RequestRecord, SetFinalResult, AddResult

LEMMA ErrorKeepsMethod ==
  ASSUME NEW req \in RequestRecord, NEW m, NEW last
  PROVE  MethodError(req, m, last).activeMethod = req.activeMethod
BY DEF RequestRecord, SetFinalResult, MethodError, AddResult

LEMMA AttemptKeepsMethod ==
  ASSUME NEW req \in RequestRecord, NEW j, NEW m, NEW res
  PROVE  AddResult([req EXCEPT !.activeJob = j], m, res).activeMethod = req.activeMethod
BY DEF RequestRecord, AddResult

LEMMA StoredForgetsMethod ==
  ASSUME NEW req \in RequestRecord PROVE Stored(req).activeMethod = None
BY DEF RequestRecord, Stored, Encoded

Blank == \A w \in Handlers : worker[w].req.activeMethod = None

LEMMA OneWorkerBlank ==
  ASSUME Typed, Blank, NEW w \in Handlers, NEW k, k.req.activeMethod = None,
         worker' = [worker EXCEPT ![w] = k]
  PROVE  Blank'
<1>1. \A v \in Handlers : worker'[v] = worker[v] \/ worker'[v] = k
  BY DEF Typed, TypeOK
<1> QED BY <1>1 DEF Blank

LEMMA GotoBlank ==
  ASSUME Typed, Blank, NEW w \in Handlers, NEW pc, NEW req, req.activeMethod = None,
         Goto(w, pc, req)
  PROVE  Blank'
<1> DEFINE k == [IdleWorker EXCEPT !.pc = pc, !.key = worker[w].key, !.req = req]
<1>1. k.req = req
  BY DEF IdleWorker
<1>2. worker' = [worker EXCEPT ![w] = k]
  BY DEF Goto
<1> HIDE DEF k
<1> QED BY <1>1, <1>2, OneWorkerBlank

LEMMA FinishBlank ==
  ASSUME Typed, Blank, NEW w \in Handlers, Finish(w)
  PROVE  Blank'
<1>1. IdleWorker.req.activeMethod = None
  BY DEF IdleWorker, UnbornRequest
<1> QED BY <1>1, OneWorkerBlank DEF Finish

LEMMA ForgetBlank == ASSUME Forget PROVE Blank'
BY DEF Forget, AllIdle, IdleWorker, UnbornRequest, Blank

LEMMA StepBlank ==
  ASSUME Typed, MethodsForgotten, NEW w \in Handlers, Step(w)
  PROVE  Blank'
<1> DEFINE r == worker[w].key
           req == worker[w].req
<1>1. /\ Blank /\ worker[w] \in WorkerRecord
      /\ req \in RequestRecord /\ req.activeMethod = None
  BY DEF Typed, TypeOK, WorkerRecord, MethodsForgotten, Blank
(* The same request, with other locals or another configuration. *)
<1>2. ASSUME NEW k, worker' = [worker EXCEPT ![w] = k],
             k.req.activeMethod = req.activeMethod
      PROVE  Blank'
  BY <1>1, <1>2, OneWorkerBlank
<1>3. CASE LookupRequest(w)
  <2>1. r \in Requests /\ request[r] \in RequestRecord /\ request[r].activeMethod = None
    BY <1>3 DEF LookupRequest, Typed, TypeOK, WorkerShape, LocalsSet, MethodsForgotten
  <2>2. SetFinalResult(request[r], "Complete").activeMethod = None
    BY <2>1, ResultKeepsMethod
  <2>3. \/ Finish(w) \/ Panic \/ Goto(w, "choose", request[r])
        \/ Goto(w, "write", SetFinalResult(request[r], "Complete"))
    BY <1>3 DEF LookupRequest, HandleFencingJob, Write
  <2> QED BY <1>1, <2>1, <2>2, <2>3, FinishBlank, GotoBlank, ForgetBlank DEF Panic
<1>4. CASE ChooseConfig(w)
  <2> DEFINE p == [worker[w] EXCEPT !.pc = "method", !.cfg = fencingConfigs[req.config]]
             q == [worker[w] EXCEPT !.pc = "visit", !.req.config = None,
                                    !.due = DOMAIN fencingConfigs]
  <2>1. worker' = [worker EXCEPT ![w] = p] \/ worker' = [worker EXCEPT ![w] = q]
    BY <1>4 DEF ChooseConfig, Typed, TypeOK
  <2>2. p.req.activeMethod = req.activeMethod /\ q.req.activeMethod = req.activeMethod
    BY <1>1 DEF WorkerRecord, RequestRecord
  <2> HIDE DEF p, q
  <2> QED BY <1>2, <2>1, <2>2
<1>5. ASSUME NEW c \in ConfigMaps, VisitConfig(w, c) PROVE Blank'
  <2> DEFINE turn == [worker[w] EXCEPT !.visited = @ \cup {c}]
             taken == [turn EXCEPT !.chosen = c, !.cfg = fencingConfigs[c]]
  <2>1. \/ Panic \/ worker' = [worker EXCEPT ![w] = turn]
        \/ worker' = [worker EXCEPT ![w] = taken]
    BY <1>5 DEF VisitConfig
  <2>2. turn.req = req /\ taken.req = req
    BY <1>1 DEF WorkerRecord
  <2> HIDE DEF turn, taken
  <2> QED BY <1>2, <2>1, <2>2, ForgetBlank DEF Panic
<1>6. CASE EndVisit(w)
  <2> DEFINE k == [worker[w] EXCEPT !.pc = "method", !.req.config = worker[w].chosen,
                                    !.chosen = None, !.due = {}, !.visited = {}]
  <2>1. NoConfigFound(w) \/ worker' = [worker EXCEPT ![w] = k]
    BY <1>6 DEF EndVisit, Typed, TypeOK
  <2>2. k.req.activeMethod = req.activeMethod
    BY <1>1 DEF WorkerRecord, RequestRecord
  <2> HIDE DEF k
  <2> QED BY <1>1, <1>2, <2>1, <2>2, ResultKeepsMethod, GotoBlank DEF NoConfigFound, Write
<1>7. ASSUME NEW m, NEW last, Write(w, MethodError(req, m, last)) PROVE Blank'
  BY <1>1, <1>7, ErrorKeepsMethod, GotoBlank DEF Write
<1>8. CASE ChooseMethod(w)
  <2> DEFINE methods == worker[w].cfg.methods
  <2>1. ASSUME NEW i, worker' = [worker EXCEPT ![w].pc = "create", ![w].attempt = i]
        PROVE  Blank'
    <3> DEFINE k == [worker[w] EXCEPT !.pc = "create", !.attempt = i]
    <3>1. worker' = [worker EXCEPT ![w] = k]
      BY <2>1 DEF Typed, TypeOK
    <3>2. k.req = req
      BY <1>1 DEF WorkerRecord
    <3> HIDE DEF k
    <3> QED BY <1>2, <3>1, <3>2
  <2>2. ASSUME NEW i, IF <<methods[i], req.target>> \in Buildable
                      THEN worker' = [worker EXCEPT ![w].pc = "create", ![w].attempt = i]
                      ELSE Write(w, MethodError(req, methods[i], i = Len(methods)))
        PROVE  Blank'
    BY <1>7, <2>1, <2>2
  <2> QED BY <1>1, <1>8, <2>2, FinishBlank, ForgetBlank DEF ChooseMethod, Panic
<1>9. CASE CreateJob(w)
  <2>1. ASSUME NEW j, NEW m,
               Write(w, AddResult([req EXCEPT !.activeJob = j], m, "MethodInProgress"))
        PROVE  Blank'
    BY <1>1, <2>1, AttemptKeepsMethod, GotoBlank DEF Write
  <2> QED BY <1>7, <1>9, <2>1 DEF CreateJob
<1>10. CASE WriteStatus(w)
  BY <1>1, <1>10, FinishBlank DEF WriteStatus
<1> QED BY <1>3, <1>4, <1>5, <1>6, <1>8, <1>9, <1>10 DEF Step

LEMMA NextForgotten ==
  ASSUME Typed, MethodsForgotten, [Next]_vars
  PROVE  MethodsForgotten'
<1>0. request \in [Requests -> RequestRecord] /\ Blank
  BY DEF Typed, TypeOK, MethodsForgotten, Blank
<1>1. ASSUME NEW r \in Requests PROVE request'[r].activeMethod = None
  <2>1. ASSUME NEW w \in Handlers, request'[r] = Stored(worker[w].req)
        PROVE  request'[r].activeMethod = None
    BY <2>1, StoredForgetsMethod DEF Typed, TypeOK, WorkerRecord
  <2> QED BY <1>0, <2>1, NextRequest, ZenonT(30) DEF MethodsForgotten, RequestRecord
<1>2. ASSUME NEW r \in Requests PROVE seenRequest'[r].activeMethod = None
  BY NextSeen DEF MethodsForgotten, UnbornRequest
<1>3. Blank'
  <2>1. ASSUME NEW r \in Requests, TakeRequest(r) PROVE Blank'
    <3> DEFINE k == [IdleWorker EXCEPT !.pc = "choose", !.key = r, !.req = seenRequest[r]]
    <3>1. UNCHANGED worker \/ worker' = [worker EXCEPT !["FencingRequest"] = k]
      BY <2>1 DEF TakeRequest
    <3>2. k.req.activeMethod = None
      BY DEF MethodsForgotten, IdleWorker
    <3> HIDE DEF k
    <3>3. "FencingRequest" \in Handlers
      BY DEF Handlers
    <3> QED BY <1>0, <3>1, <3>2, <3>3, OneWorkerBlank DEF Blank
  <2>2. ASSUME NEW j \in Jobs, TakeJob(j) PROVE Blank'
    <3> DEFINE k == [IdleWorker EXCEPT !.pc = "lookup", !.key = seenJob[j].owner,
                                       !.event = j, !.status = seenJob[j]]
    <3>1. UNCHANGED worker \/ worker' = [worker EXCEPT !["Job"] = k]
      BY <2>2 DEF TakeJob
    <3>2. k.req.activeMethod = None
      BY DEF IdleWorker, UnbornRequest
    <3> HIDE DEF k
    <3>3. "Job" \in Handlers
      BY DEF Handlers
    <3> QED BY <1>0, <3>1, <3>2, <3>3, OneWorkerBlank DEF Blank
  <2>3. CASE Crash \/ ConcurrentMapAccess
    BY <2>3, ForgetBlank DEF Crash, ConcurrentMapAccess, Panic
  <2>4. CASE Inform \/ Load \/ Restart \/ Cluster \/ UNCHANGED vars
    <3>1. UNCHANGED worker
      BY <2>4 DEF Inform, SyncRequests, SyncJobs, SyncMaps, ObserveRequest, ObserveJob,
         ObserveMap, Load, ParseConfigMap, TakeConfigMap, Restart, Cluster, Submit, Withdraw,
         EditConfigMap, StartPod, PodSucceeds, PodFails, RemoveJob, Outside, vars
    <3> QED BY <1>0, <3>1 DEF Blank
  <2> QED BY <2>1, <2>2, <2>3, <2>4, StepBlank DEF Next, Operator, Handle
<1> QED BY <1>1, <1>2, <1>3 DEF MethodsForgotten, Blank

LEMMA InitForgotten == Init => MethodsForgotten
BY DEF Init, NoRequests, UnbornRequest, AllIdle, IdleWorker, MethodsForgotten

(* With no method recorded the first one is chosen: the loop ends without   *)
(* one only if there is none.                                               *)
LEMMA FirstIsChosen ==
  ASSUME NEW methods \in Seq(Methods), NEW running, ChosenMethod(methods, None, running) = {}
  PROVE  methods = <<>>
<1> SUFFICES ASSUME methods # <<>> PROVE FALSE
  OBVIOUS
<1>1. 1 \in 1 .. Len(methods)
  OBVIOUS
<1> QED BY <1>1 DEF ChosenMethod

LEMMA NextPanics ==
  ASSUME Typed, ViewInv, MethodsForgotten, [Next]_vars
  PROVE  PanicExplained
<1> SUFFICES ASSUME Running, process' = "panicked" PROVE PanicExplained
  BY DEF PanicExplained
<1>0. process' # process
  BY DEF Running
<1>1. ASSUME NEW w \in Handlers, LookupRequest(w) PROVE PanicExplained
  <2>1. AnyAnswer /\ worker[w].pc = "lookup" /\ worker[w].status.failed # 0
    BY <1>0, <1>1 DEF LookupRequest, HandleFencingJob
  <2>2. worker[w].status.failed \in Nat
    BY DEF Typed, TypeOK, WorkerRecord, JobRecord, Retries
  <2> QED BY <2>1, <2>2 DEF PanicExplained
<1>2. ASSUME NEW w \in Handlers, NEW c \in ConfigMaps, VisitConfig(w, c)
      PROVE  PanicExplained
  <2>1. c \in DOMAIN fencingConfigs /\ fencingConfigs[c] = None
    BY <1>0, <1>2 DEF VisitConfig
  <2>2. UnderWay(c) \/ Reading(seenMap[c]) = None
    <3>1. CASE seenMap[c].data = NoKey
      BY <3>1, ContentsAssumption DEF Reading
    <3>2. CASE seenMap[c].data # NoKey
      BY <2>1, <3>2 DEF ViewInv, ViewIsCurrent, Held
    <3> QED BY <3>1, <3>2
  <2> QED BY <2>1, <2>2 DEF PanicExplained
<1>3. ASSUME NEW w \in Handlers, ChooseMethod(w) PROVE PanicExplained
  <2> DEFINE methods == worker[w].cfg.methods
             active == worker[w].req.activeMethod
  <2>1. worker[w].pc = "method" /\ active = None /\ methods \in Seq(Methods)
    BY <1>3, ContentsAssumption
       DEF ChooseMethod, MethodsForgotten, Typed, WorkerShape, LocalsSet, ContentRecord
  <2>2. \E running : ChosenMethod(methods, active, running) = {}
    BY <1>0, <1>3 DEF ChooseMethod
  <2>3. methods = <<>>
    BY <2>1, <2>2, FirstIsChosen
  <2> QED BY <2>1, <2>3 DEF PanicExplained
<1>4. ASSUME NEW w \in Handlers, Step(w) PROVE PanicExplained
  BY <1>0, <1>1, <1>2, <1>3, <1>4 DEF Step, ChooseConfig, EndVisit, CreateJob, WriteStatus
<1>5. CASE ConcurrentMapAccess
  BY <1>5 DEF ConcurrentMapAccess, PanicExplained
<1>6. ~(Inform \/ Load \/ Restart \/ Crash \/ Cluster \/ UNCHANGED vars)
  BY <1>0 DEF Inform, SyncRequests, SyncJobs, SyncMaps, ObserveRequest, ObserveJob,
     ObserveMap, Load, ParseConfigMap, TakeConfigMap, Restart, Crash, Running, Cluster,
     Submit, Withdraw, EditConfigMap, StartPod, PodSucceeds, PodFails, RemoveJob, Outside,
     vars
<1>7. ~(\E r \in Requests : TakeRequest(r)) /\ ~(\E j \in Jobs : TakeJob(j))
  BY <1>0 DEF TakeRequest, TakeJob
<1> QED BY <1>4, <1>5, <1>6, <1>7 DEF Next, Operator, Handle

(* Whatever is edited, refused, lost or killed, only these bring the        *)
(* operator down: a nil entry, which the map holds only while the loader    *)
(* has an event of its ConfigMap left or where the ConfigMap is gone or     *)
(* holds no configuration; a configuration without methods; a write to the  *)
(* map under a read; a Job that failed, if its request is ever found.       *)
THEOREM OnlyThesePanics == Spec => PanicsAreExplained
<1> DEFINE I == Typed /\ ViewInv /\ MethodsForgotten
<1>1. Init => I
  BY InitTyped, EmptyView, InitForgotten DEF Init
<1>2. I /\ [Next]_vars => I'
  BY NextTyped, NextView, NextForgotten
<1>3. I /\ [Next]_vars => [PanicExplained]_vars
  BY NextPanics
<1> QED BY <1>1, <1>2, <1>3, PTL DEF Spec, PanicsAreExplained
=============================================================================
